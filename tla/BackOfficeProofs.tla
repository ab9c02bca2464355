---------------------------- MODULE BackOfficeProofs ----------------------------
(***************************************************************************)
(* Theorems about BackOffice, for any number of discounts, taxes,          *)
(* suppliers, items, movements, recipes and requests in flight.            *)
(***************************************************************************)
EXTENDS BackOffice, FiniteSetTheorems, TLAPS

-----------------------------------------------------------------------------
(* Rows and requests *)

LEMMA VacantRows ==
  /\ NoRow # GoneRow
  /\ Vacant \cap (Discs \cup Taxes \cup Sups \cup Items \cup Moves \cup Recs) = {}
<1>1. DOMAIN NoRow = {"status"} /\ DOMAIN GoneRow = {"status"} /\ NoRow # GoneRow
  BY DEF NoRow, GoneRow
<1>2. /\ \A row \in Discs : "code" \in DOMAIN row
      /\ \A row \in Taxes : "rate" \in DOMAIN row
  BY DEF Discs, Taxes
<1>3. /\ \A row \in Sups : "active" \in DOMAIN row
      /\ \A row \in Items : "stock" \in DOMAIN row
      /\ \A row \in Moves : "item" \in DOMAIN row
      /\ \A row \in Recs : "items" \in DOMAIN row
  BY DEF Sups, Items, Moves, Recs
<1> QED BY <1>1, <1>2, <1>3 DEF Vacant

\* A live row has its columns.
LEMMA LivePrices ==
  ASSUME PricesTypeOK
  PROVE  /\ \A d \in LiveDiscs : d \in DiscIds /\ disc[d] \in Discs
         /\ \A t \in LiveTaxes : t \in TaxIds /\ tax[t] \in Taxes
BY DEF PricesTypeOK, LiveDiscs, LiveTaxes

LEMMA LiveStocks ==
  ASSUME StocksTypeOK
  PROVE  /\ \A s \in LiveSups : s \in SupIds /\ sup[s] \in Sups
         /\ \A i \in LiveItems : i \in ItemIds /\ item[i] \in Items
         /\ \A m \in LiveMoves : m \in MoveIds /\ move[m] \in Moves
         /\ \A r \in LiveRecs : r \in RecIds /\ rec[r] \in Recs
BY DEF StocksTypeOK, LiveSups, LiveItems, LiveMoves, LiveRecs

\* A column that is left out keeps its value, one that is sent has its type.
LEMMA GivenType ==
  ASSUME NEW S, NEW old \in S, NEW new \in Optional(S)
  PROVE  Given(old, new) \in S
BY DEF Given, Optional

LEMMA PatchedDiscountType ==
  ASSUME NEW row \in Discs, NEW patch \in Patches
  PROVE  PatchedDiscount(row, patch) \in Discs
<1>1. /\ Given(row.code, patch.code) \in Codes
      /\ Given(row.type, patch.type) \in Types
      /\ Given(row.value, patch.value) \in Nat
      /\ Given(row.count, patch.count) \in Nat
      /\ Given(row.active, patch.active) \in BOOLEAN
  BY DEF Discs, Patches, Given, Optional
<1>2. /\ Given(row.max, patch.max) \in OrNull(Nat)
      /\ Given(row.min, patch.min) \in OrNull(Nat)
      /\ Given(row.from, patch.from) \in OrNull(Nat)
      /\ Given(row.until, patch.until) \in OrNull(Nat)
      /\ Given(row.limit, patch.limit) \in OrNull(Nat \ {0})
  BY DEF Discs, Patches, Given, Optional
<1> QED BY <1>1, <1>2 DEF PatchedDiscount, Discs

LEMMA PatchedItemType ==
  ASSUME NEW row \in Items, NEW s \in Optional(OrNull(SupIds)), NEW active \in Optional(Flags)
  PROVE  PatchedItem(row, s, active) \in Items
BY StockAssumption DEF StockAssumption, PatchedItem, Items, Given, Optional

LEMMA PatchedMovementType ==
  ASSUME NEW row \in Moves, NEW patch \in MovePatches
  PROVE  PatchedMovement(row, patch) \in Moves
BY StockAssumption DEF StockAssumption, PatchedMovement, Moves, MovePatches, Given, Optional

-----------------------------------------------------------------------------
(***************************************************************************)
(* Type correctness: a row is vacant or has its columns, and a handler in  *)
(* flight carries the locals of its statement.                             *)
(***************************************************************************)
OfficeCalls == {Idle} \cup TillCalls \cup StockCalls

\* What a handler of one service may have in flight, or nothing.
SupplierCalls == {Idle} \cup [step: {"sup.hide", "sup.delete"}, id: SupIds]
ItemCalls == {Idle} \cup [step: {"item.hide", "item.delete"}, id: ItemIds]
MovementCalls == {Idle} \cup [step: {"move.insert"}, row: Moves]
RecipeCalls ==
  {Idle} \cup [step: {"rec.clear", "rec.store"}, id: RecIds, items: Lists]
         \cup [step: {"rec.delete"}, id: RecIds]
RoomCalls == SupplierCalls \cup ItemCalls \cup MovementCalls \cup RecipeCalls

\* What a step may do to the requests in flight: nothing, or let one go on.
CallStep(c, k) == call' = [call EXCEPT ![c] = k]

LEMMA DiscountRequestType ==
  ASSUME PricesTypeOK, DiscountRequest
  PROVE  PricesTypeOK' /\ call' = call
<1>1. ASSUME NEW offer \in Offers, DiscountCreate(offer) PROVE PricesTypeOK' /\ call' = call
  <2>1. offer \in Discs
    BY PricingAssumption DEF PricingAssumption
  <2> QED BY <1>1, <2>1 DEF DiscountCreate, PricesTypeOK
<1>2. ASSUME NEW d \in DiscIds, NEW patch \in DiscPatches, DiscountUpdate(d, patch)
      PROVE  PricesTypeOK' /\ call' = call
  <2>1. patch \in Patches /\ disc[d] \in Discs
    BY <1>2, LivePrices, PricingAssumption DEF PricingAssumption, DiscountUpdate
  <2>2. PatchedDiscount(disc[d], patch) \in Discs
    BY <2>1, PatchedDiscountType
  <2> QED BY <1>2, <2>2 DEF DiscountUpdate, PricesTypeOK
<1>3. ASSUME NEW d \in DiscIds, NEW active \in BOOLEAN, DiscountSwitch(d, active)
      PROVE  PricesTypeOK' /\ call' = call
  <2>1. disc[d] \in Discs
    BY <1>3, LivePrices DEF DiscountSwitch
  <2>2. [disc[d] EXCEPT !.active = active] \in Discs
    BY <2>1 DEF Discs
  <2> QED BY <1>3, <2>2 DEF DiscountSwitch, PricesTypeOK
<1>4. ASSUME NEW d \in DiscIds, DiscountRemove(d) PROVE PricesTypeOK' /\ call' = call
  BY <1>4 DEF DiscountRemove, PricesTypeOK, Vacant
<1> QED BY <1>1, <1>2, <1>3, <1>4 DEF DiscountRequest

LEMMA TaxRequestType ==
  ASSUME PricesTypeOK, TaxRequest
  PROVE  PricesTypeOK' /\ call' = call /\ disc' = disc
<1>1. ASSUME NEW rate \in Rates, NEW active \in BOOLEAN, TaxCreate(rate, active)
      PROVE  PricesTypeOK' /\ call' = call /\ disc' = disc
  <2>1. [rate |-> rate, active |-> active] \in Taxes
    BY PricingAssumption DEF PricingAssumption, Taxes
  <2> QED BY <1>1, <2>1 DEF TaxCreate, PricesTypeOK
<1>2. ASSUME NEW t \in TaxIds, NEW rate \in Optional(Rates), NEW active \in Optional(BOOLEAN),
             TaxUpdate(t, rate, active)
      PROVE  PricesTypeOK' /\ call' = call /\ disc' = disc
  <2>1. tax[t] \in Taxes
    BY <1>2, LivePrices DEF TaxUpdate
  <2>2. [rate |-> Given(tax[t].rate, rate), active |-> Given(tax[t].active, active)] \in Taxes
    BY <2>1, PricingAssumption DEF PricingAssumption, Taxes, Given, Optional
  <2> QED BY <1>2, <2>2 DEF TaxUpdate, PricesTypeOK
<1>3. ASSUME NEW t \in TaxIds, TaxRemove(t) PROVE PricesTypeOK' /\ call' = call /\ disc' = disc
  BY <1>3 DEF TaxRemove, PricesTypeOK, Vacant
<1> QED BY <1>1, <1>2, <1>3 DEF TaxRequest

LEMMA DiscountUseType ==
  ASSUME TypeOK, NEW c \in Callers, DiscountUse(c)
  PROVE  /\ PricesTypeOK'
         /\ call[c] \in {Idle} \cup TillCalls
         /\ \E k \in {Idle} \cup TillCalls : CallStep(c, k)
<1>1. ASSUME NEW d \in DiscIds, NEW subtotal \in Subtotals, CalculateDiscount(c, d, subtotal)
      PROVE  /\ PricesTypeOK' /\ call[c] = Idle
             /\ \E k \in TillCalls : CallStep(c, k)
  <2>1. [step |-> "use", id |-> d] \in TillCalls
    BY DEF TillCalls
  <2> QED BY <1>1, <2>1 DEF CalculateDiscount, Start, CallStep, TypeOK, PricesTypeOK
<1>2. ASSUME call[c].step = "use" PROVE call[c] \in TillCalls
  BY <1>2 DEF TypeOK, TillCalls, StockCalls, Idle
<1>3. ASSUME IncrementUsage(c)
      PROVE  PricesTypeOK' /\ call[c] \in TillCalls /\ CallStep(c, Idle)
  <2>1. call[c] \in TillCalls
    BY <1>2, <1>3 DEF IncrementUsage
  <2> DEFINE d == call[c].id
  <2>2. ASSUME d \in LiveDiscs PROVE d \in DiscIds /\ [disc[d] EXCEPT !.count = @ + 1] \in Discs
    <3>1. d \in DiscIds /\ disc[d] \in Discs
      BY <2>2, LivePrices DEF TypeOK
    <3> QED BY <3>1 DEF Discs
  <2>3. disc' \in [DiscIds -> Discs \cup Vacant]
    BY <1>3, <2>2 DEF IncrementUsage, TypeOK, PricesTypeOK
  <2> QED BY <1>3, <2>1, <2>3 DEF IncrementUsage, End, CallStep, TypeOK, PricesTypeOK
<1>4. ASSUME Abandon(c)
      PROVE  PricesTypeOK' /\ call[c] \in TillCalls /\ CallStep(c, Idle)
  BY <1>2, <1>4 DEF Abandon, End, CallStep, TypeOK, PricesTypeOK
<1> QED BY <1>1, <1>3, <1>4 DEF DiscountUse

\* A step of the prices, as far as types and requests go.
LEMMA PricesType ==
  ASSUME TypeOK, PricesNext, UNCHANGED stocks
  PROVE  TypeOK'
<1>0. PricesTypeOK /\ StocksTypeOK'
  BY DEF TypeOK, StocksTypeOK, stocks
<1>1. CASE DiscountRequest \/ TaxRequest
  BY <1>0, <1>1, DiscountRequestType, TaxRequestType DEF TypeOK
<1>2. ASSUME NEW c \in Callers, DiscountUse(c) PROVE TypeOK'
  BY <1>0, <1>2, DiscountUseType DEF TypeOK, CallStep
<1>3. CASE Tick
  BY <1>0, <1>3, PricingAssumption DEF PricingAssumption, Tick, TypeOK, PricesTypeOK
<1> QED BY <1>1, <1>2, <1>3 DEF PricesNext

\* What a request in flight carries, by its statement.
LEMMA CallForms ==
  ASSUME TypeOK, NEW c \in Callers
  PROVE  /\ call[c].step = "use" => call[c].id \in DiscIds
         /\ call[c].step \in {"sup.hide", "sup.delete"} => call[c].id \in SupIds
         /\ call[c].step \in {"item.hide", "item.delete"} => call[c].id \in ItemIds
         /\ call[c].step = "move.insert" => call[c].row \in Moves
         /\ call[c].step \in {"rec.clear", "rec.store"} =>
              /\ call[c] \in [step: {"rec.clear", "rec.store"}, id: RecIds, items: Lists]
              /\ call[c].id \in RecIds /\ call[c].items \in Lists
         /\ call[c].step = "rec.delete" => call[c].id \in RecIds
BY DEF TypeOK, TillCalls, StockCalls, Idle

\* A request that goes on leaves the requests in flight of their type.
LEMMA CallStepType ==
  ASSUME TypeOK, NEW c \in Callers, NEW k \in OfficeCalls, CallStep(c, k)
  PROVE  call' \in [Callers -> OfficeCalls]
BY DEF TypeOK, CallStep, OfficeCalls

LEMMA SupplierRequestType ==
  ASSUME StocksTypeOK, SupplierRequest
  PROVE  StocksTypeOK' /\ call' = call
<1>1. CASE SupplierCreate
  <2>1. [active |-> TRUE] \in Sups
    BY DEF Sups
  <2> QED BY <1>1, <2>1 DEF SupplierCreate, StocksTypeOK
<1>2. ASSUME NEW s \in SupIds, NEW active \in Optional(Flags), SupplierUpdate(s, active)
      PROVE  StocksTypeOK' /\ call' = call
  <2>1. sup[s] \in Sups /\ Given(sup[s].active, active) \in BOOLEAN
    BY <1>2, LiveStocks, StockAssumption
    DEF StockAssumption, SupplierUpdate, Sups, Given, Optional
  <2>2. [sup[s] EXCEPT !.active = Given(@, active)] \in Sups
    BY <2>1 DEF Sups
  <2> QED BY <1>2, <2>2 DEF SupplierUpdate, StocksTypeOK
<1> QED BY <1>1, <1>2 DEF SupplierRequest

LEMMA SupplierStepType ==
  ASSUME TypeOK, NEW c \in Callers, SupplierStep(c)
  PROVE  /\ StocksTypeOK' /\ move' = move /\ rec' = rec
         /\ \E k \in SupplierCalls : CallStep(c, k)
<1>0. StocksTypeOK
  BY DEF TypeOK
<1>1. ASSUME NEW s \in SupIds, SupplierRemoveRead(c, s)
      PROVE  stocks' = stocks /\ \E k \in SupplierCalls : CallStep(c, k)
  <2>1. [step |-> IF ItemsOf(s) # {} THEN "sup.hide" ELSE "sup.delete", id |-> s] \in SupplierCalls
    BY DEF SupplierCalls
  <2> QED BY <1>1, <2>1 DEF SupplierRemoveRead, Start, CallStep
<1>2. CASE SupplierHide(c)
  <2> DEFINE s == call[c].id
  <2>1. ASSUME s \in LiveSups PROVE s \in SupIds /\ [sup[s] EXCEPT !.active = FALSE] \in Sups
    <3>1. s \in SupIds /\ sup[s] \in Sups
      BY <1>0, <2>1, LiveStocks
    <3> QED BY <3>1 DEF Sups
  <2>2. sup' \in [SupIds -> Sups \cup Vacant]
    BY <1>0, <1>2, <2>1 DEF SupplierHide, StocksTypeOK
  <2> QED BY <1>0, <1>2, <2>2 DEF SupplierHide, StocksTypeOK, End, CallStep, SupplierCalls
<1>3. CASE SupplierDelete(c)
  <2>1. sup' \in [SupIds -> Sups \cup Vacant]
    BY <1>0, <1>3 DEF SupplierDelete, StocksTypeOK, Vacant
  <2>2. item' \in [ItemIds -> Items \cup Vacant]
    <3>1. \A i \in ItemsOf(call[c].id) : [item[i] EXCEPT !.sup = Null] \in Items
      BY <1>0, LiveStocks DEF ItemsOf, Items, OrNull
    <3> QED BY <1>0, <1>3, <3>1 DEF SupplierDelete, StocksTypeOK
  <2> QED BY <1>0, <1>3, <2>1, <2>2 DEF SupplierDelete, StocksTypeOK, End, CallStep, SupplierCalls
<1> QED BY <1>0, <1>1, <1>2, <1>3 DEF SupplierStep, StocksTypeOK, stocks, SupplierCalls

LEMMA ItemRequestType ==
  ASSUME StocksTypeOK, ItemRequest
  PROVE  StocksTypeOK' /\ call' = call /\ move' = move /\ rec' = rec /\ sup' = sup
<1>1. ASSUME NEW s \in OrNull(SupIds), ItemCreate(s)
      PROVE  StocksTypeOK' /\ call' = call /\ move' = move /\ rec' = rec /\ sup' = sup
  <2>1. [sup |-> s, stock |-> 0, active |-> TRUE] \in Items
    BY DEF Items
  <2> QED BY <1>1, <2>1 DEF ItemCreate, StocksTypeOK
<1>2. ASSUME NEW i \in ItemIds, NEW s \in Optional(OrNull(SupIds)), NEW active \in Optional(Flags),
             ItemUpdate(i, s, active)
      PROVE  StocksTypeOK' /\ call' = call /\ move' = move /\ rec' = rec /\ sup' = sup
  <2>1. PatchedItem(item[i], s, active) \in Items
    BY <1>2, LiveStocks, PatchedItemType DEF ItemUpdate
  <2> QED BY <1>2, <2>1 DEF ItemUpdate, StocksTypeOK
<1>3. ASSUME NEW i \in ItemIds, NEW stock \in 0..MaxStock, SetStock(i, stock)
      PROVE  StocksTypeOK' /\ call' = call /\ move' = move /\ rec' = rec /\ sup' = sup
  <2>1. item[i] \in Items
    BY <1>3, LiveStocks DEF SetStock
  <2>2. [item[i] EXCEPT !.stock = stock] \in Items
    BY <2>1 DEF Items
  <2> QED BY <1>3, <2>2 DEF SetStock, StocksTypeOK
<1> QED BY <1>1, <1>2, <1>3 DEF ItemRequest

LEMMA ItemStepType ==
  ASSUME TypeOK, NEW c \in Callers, ItemStep(c)
  PROVE  /\ StocksTypeOK' /\ move' = move /\ rec' = rec /\ sup' = sup
         /\ \E k \in ItemCalls : CallStep(c, k)
<1>0. StocksTypeOK
  BY DEF TypeOK
<1>1. ASSUME NEW i \in ItemIds, ItemRemoveRead(c, i)
      PROVE  stocks' = stocks /\ \E k \in ItemCalls : CallStep(c, k)
  <2>1. [step |-> IF UsesOf(i) # {} THEN "item.hide" ELSE "item.delete", id |-> i] \in ItemCalls
    BY DEF ItemCalls
  <2> QED BY <1>1, <2>1 DEF ItemRemoveRead, Start, CallStep
<1>2. CASE ItemHide(c)
  <2> DEFINE i == call[c].id
  <2>1. ASSUME i \in LiveItems PROVE i \in ItemIds /\ [item[i] EXCEPT !.active = FALSE] \in Items
    <3>1. i \in ItemIds /\ item[i] \in Items
      BY <1>0, <2>1, LiveStocks
    <3> QED BY <3>1 DEF Items
  <2>2. item' \in [ItemIds -> Items \cup Vacant]
    BY <1>0, <1>2, <2>1 DEF ItemHide, StocksTypeOK
  <2> QED BY <1>0, <1>2, <2>2 DEF ItemHide, StocksTypeOK, End, CallStep, ItemCalls
<1>3. CASE ItemDelete(c)
  <2>1. item' \in [ItemIds -> Items \cup Vacant]
    BY <1>0, <1>3 DEF ItemDelete, StocksTypeOK, Vacant
  <2> QED BY <1>0, <1>3, <2>1 DEF ItemDelete, StocksTypeOK, End, CallStep, ItemCalls
<1> QED BY <1>0, <1>1, <1>2, <1>3 DEF ItemStep, StocksTypeOK, stocks, ItemCalls

LEMMA MovementRequestType ==
  ASSUME StocksTypeOK, MovementRequest
  PROVE  StocksTypeOK' /\ call' = call /\ item' = item /\ rec' = rec /\ sup' = sup
<1>1. ASSUME NEW row \in NewMoves, MovementCreate(row)
      PROVE  StocksTypeOK' /\ call' = call /\ item' = item /\ rec' = rec /\ sup' = sup
  <2>1. row \in Moves
    BY StockAssumption DEF StockAssumption, NewMoves, Moves
  <2> QED BY <1>1, <2>1 DEF MovementCreate, Recorded, StocksTypeOK
<1>2. ASSUME NEW m \in MoveIds, NEW patch \in MovePatches, MovementUpdate(m, patch)
      PROVE  StocksTypeOK' /\ call' = call /\ item' = item /\ rec' = rec /\ sup' = sup
  <2>1. PatchedMovement(move[m], patch) \in Moves
    BY <1>2, LiveStocks, PatchedMovementType DEF MovementUpdate
  <2> QED BY <1>2, <2>1 DEF MovementUpdate, StocksTypeOK
<1>3. ASSUME NEW m \in MoveIds, MovementRemove(m)
      PROVE  StocksTypeOK' /\ call' = call /\ item' = item /\ rec' = rec /\ sup' = sup
  BY <1>3 DEF MovementRemove, StocksTypeOK, Vacant
<1> QED BY <1>1, <1>2, <1>3 DEF MovementRequest

LEMMA MovementStepType ==
  ASSUME TypeOK, NEW c \in Callers, MovementStep(c)
  PROVE  /\ StocksTypeOK' /\ item' = item /\ rec' = rec /\ sup' = sup
         /\ \E k \in MovementCalls : CallStep(c, k)
<1>0. StocksTypeOK
  BY DEF TypeOK
<1>1. ASSUME NEW row \in NewMoves, MovementRead(c, row)
      PROVE  stocks' = stocks /\ \E k \in MovementCalls : CallStep(c, k)
  <2>1. [step |-> "move.insert", row |-> row] \in MovementCalls
    BY StockAssumption DEF StockAssumption, MovementCalls, NewMoves, Moves
  <2> QED BY <1>1, <2>1 DEF MovementRead, Start, CallStep
<1>2. CASE MovementInsert(c)
  <2>1. call[c].row \in Moves
    BY <1>2, CallForms DEF MovementInsert
  <2>2. move' \in [MoveIds -> Moves \cup Vacant]
    BY <1>0, <1>2, <2>1 DEF MovementInsert, Recorded, StocksTypeOK
  <2> QED BY <1>0, <1>2, <2>2 DEF MovementInsert, StocksTypeOK, End, CallStep, MovementCalls
<1> QED BY <1>0, <1>1, <1>2 DEF MovementStep, StocksTypeOK, stocks, MovementCalls

LEMMA RecipeRequestType ==
  ASSUME StocksTypeOK, RecipeRequest
  PROVE  StocksTypeOK' /\ call' = call /\ item' = item /\ move' = move /\ sup' = sup
<1>1. ASSUME NEW items \in Lists, RecipeCreate(items)
      PROVE  StocksTypeOK' /\ call' = call /\ item' = item /\ move' = move /\ sup' = sup
  <2>1. [items |-> items] \in Recs
    BY StockAssumption DEF StockAssumption, Recs
  <2> QED BY <1>1, <2>1 DEF RecipeCreate, StocksTypeOK
<1>2. ASSUME NEW r \in RecIds, ProductDropped(r)
      PROVE  StocksTypeOK' /\ call' = call /\ item' = item /\ move' = move /\ sup' = sup
  BY <1>2 DEF ProductDropped, StocksTypeOK, Vacant
<1> QED BY <1>1, <1>2 DEF RecipeRequest

LEMMA EmptiedType ==
  ASSUME StocksTypeOK, NEW r \in RecIds
  PROVE  Emptied(r) \in [RecIds -> Recs \cup Vacant]
<1>1. ASSUME r \in LiveRecs PROVE [rec[r] EXCEPT !.items = {}] \in Recs
  <2>1. rec[r] \in Recs
    BY <1>1, LiveStocks
  <2> QED BY <2>1 DEF Recs
<1> QED BY <1>1 DEF Emptied, StocksTypeOK

LEMMA RecipeStepType ==
  ASSUME TypeOK, NEW c \in Callers, RecipeStep(c)
  PROVE  /\ StocksTypeOK' /\ item' = item /\ move' = move /\ sup' = sup
         /\ \E k \in RecipeCalls : CallStep(c, k)
<1>0. StocksTypeOK
  BY DEF TypeOK
<1>1. ASSUME NEW r \in RecIds, NEW items \in Lists, RecipeRead(c, r, items)
      PROVE  stocks' = stocks /\ \E k \in RecipeCalls : CallStep(c, k)
  <2>1. [step |-> "rec.clear", id |-> r, items |-> items] \in RecipeCalls
    BY DEF RecipeCalls
  <2> QED BY <1>1, <2>1 DEF RecipeRead, Start, CallStep
<1>2. ASSUME NEW r \in RecIds, RecipeRemoveRead(c, r)
      PROVE  StocksTypeOK' /\ item' = item /\ move' = move /\ sup' = sup
             /\ \E k \in RecipeCalls : CallStep(c, k)
  <2>1. [step |-> "rec.delete", id |-> r] \in RecipeCalls
    BY DEF RecipeCalls
  <2> QED BY <1>0, <1>2, <2>1, EmptiedType DEF RecipeRemoveRead, Start, CallStep, StocksTypeOK
<1>3. CASE RecipeClear(c)
  <2>1. call[c] \in [step: {"rec.clear", "rec.store"}, id: RecIds, items: Lists]
    BY <1>3, CallForms DEF RecipeClear
  <2>2. [call[c] EXCEPT !.step = "rec.store"] \in RecipeCalls
    BY <2>1 DEF RecipeCalls
  <2>3. CallStep(c, [call[c] EXCEPT !.step = "rec.store"])
    BY <1>3 DEF RecipeClear, Goto, CallStep
  <2>4. StocksTypeOK'
    BY <1>0, <1>3, <2>1, EmptiedType DEF RecipeClear, StocksTypeOK
  <2> QED BY <1>3, <2>2, <2>3, <2>4 DEF RecipeClear, RecipeCalls
<1>4. CASE RecipeStore(c)
  <2> DEFINE r == call[c].id
             items == call[c].items
  <2>1. r \in RecIds /\ items \in SUBSET ItemIds
    BY <1>4, CallForms, StockAssumption DEF RecipeStore, StockAssumption
  <2>2. ASSUME r \in LiveRecs PROVE [rec[r] EXCEPT !.items = @ \cup items] \in Recs
    <3>1. rec[r] \in Recs
      BY <1>0, <2>2, LiveStocks
    <3> QED BY <2>1, <3>1 DEF Recs
  <2>3. rec' \in [RecIds -> Recs \cup Vacant]
    BY <1>0, <1>4, <2>1, <2>2 DEF RecipeStore, StocksTypeOK
  <2> QED BY <1>0, <1>4, <2>3 DEF RecipeStore, StocksTypeOK, End, CallStep, RecipeCalls
<1>5. CASE RecipeRefused(c)
  BY <1>0, <1>5 DEF RecipeRefused, StocksTypeOK, stocks, End, CallStep, RecipeCalls
<1>6. CASE RecipeDelete(c)
  <2>1. rec' \in [RecIds -> Recs \cup Vacant]
    BY <1>0, <1>6 DEF RecipeDelete, StocksTypeOK, Vacant
  <2> QED BY <1>0, <1>6, <2>1 DEF RecipeDelete, StocksTypeOK, End, CallStep, RecipeCalls
<1> QED
  BY <1>0, <1>1, <1>2, <1>3, <1>4, <1>5, <1>6 DEF RecipeStep, StocksTypeOK, stocks, RecipeCalls

LEMMA StocksType ==
  ASSUME TypeOK, StocksNext, UNCHANGED prices
  PROVE  TypeOK'
<1>0. PricesTypeOK' /\ StocksTypeOK
  BY DEF TypeOK, PricesTypeOK, prices
<1>1. CASE SupplierRequest \/ ItemRequest \/ MovementRequest \/ RecipeRequest
  <2>1. StocksTypeOK' /\ call' = call
    BY <1>0, <1>1, SupplierRequestType, ItemRequestType, MovementRequestType, RecipeRequestType
  <2> QED BY <1>0, <2>1 DEF TypeOK
<1>2. ASSUME NEW c \in Callers,
             SupplierStep(c) \/ ItemStep(c) \/ MovementStep(c) \/ RecipeStep(c) \/ StockAbort(c)
      PROVE  TypeOK'
  <2>1. CASE StockAbort(c)
    BY <1>0, <2>1 DEF StockAbort, Fail, End, stocks, StocksTypeOK, TypeOK
  <2>2. CASE SupplierStep(c) \/ ItemStep(c) \/ MovementStep(c) \/ RecipeStep(c)
    <3>1. StocksTypeOK' /\ \E k \in RoomCalls : CallStep(c, k)
      BY <2>2, SupplierStepType, ItemStepType, MovementStepType, RecipeStepType DEF RoomCalls
    <3>2. RoomCalls \subseteq OfficeCalls
      BY DEF RoomCalls, SupplierCalls, ItemCalls, MovementCalls, RecipeCalls, OfficeCalls, StockCalls
    <3> QED BY <1>0, <3>1, <3>2, CallStepType DEF TypeOK, OfficeCalls
  <2> QED BY <1>2, <2>1, <2>2
<1> QED BY <1>1, <1>2 DEF StocksNext

LEMMA InitType == Init => TypeOK
<1> SUFFICES ASSUME Init PROVE TypeOK
  OBVIOUS
<1>1. PricesTypeOK
  BY PricingAssumption DEF PricingAssumption, Init, PricesInit, PricesTypeOK, Vacant
<1>2. StocksTypeOK
  BY DEF Init, StocksInit, StocksTypeOK, Vacant
<1> QED BY <1>1, <1>2 DEF Init, HandlersInit, TypeOK

LEMMA StepType ==
  ASSUME TypeOK, [Next]_vars
  PROVE  TypeOK'
<1>1. CASE PricesNext /\ UNCHANGED stocks
  BY <1>1, PricesType
<1>2. CASE StocksNext /\ UNCHANGED prices
  BY <1>2, StocksType
<1>3. CASE UNCHANGED vars
  BY <1>3 DEF vars, prices, stocks, TypeOK, PricesTypeOK, StocksTypeOK
<1> QED BY <1>1, <1>2, <1>3 DEF Next

(***************************************************************************)
(* Every row of the back office is vacant or has its columns, whatever is  *)
(* created, patched or removed and whichever requests overlap.             *)
(***************************************************************************)
THEOREM TypeCorrect == Spec => []TypeOK
BY InitType, StepType, PTL DEF Spec

-----------------------------------------------------------------------------
(* Discounts *)

\* What a till at work may do to the calls that are about to use a discount.
LEMMA UserSets ==
  ASSUME NEW d \in DiscIds
  PROVE  /\ IsFiniteSet(Users(d)) /\ Cardinality(Users(d)) \in Nat
         /\ Cardinality(Users(d)) <= Cardinality(Callers) /\ Cardinality(Callers) \in Nat
BY HandlersAssumption, FS_Subset, FS_CardinalityType DEF HandlersAssumption, Users

\* Only a till is ever about to use a discount.
LEMMA StocksLeaveUsers ==
  ASSUME TypeOK, StocksNext, NEW d \in DiscIds
  PROVE  Users(d)' \subseteq Users(d)
<1>1. CASE SupplierRequest \/ ItemRequest \/ MovementRequest \/ RecipeRequest
  <2>1. call' = call
    BY <1>1, SupplierRequestType, ItemRequestType, MovementRequestType, RecipeRequestType DEF TypeOK
  <2> QED BY <2>1 DEF Users
<1>2. ASSUME NEW c \in Callers,
             SupplierStep(c) \/ ItemStep(c) \/ MovementStep(c) \/ RecipeStep(c) \/ StockAbort(c)
      PROVE  Users(d)' \subseteq Users(d)
  <2>1. \E k \in RoomCalls : CallStep(c, k)
    BY <1>2, SupplierStepType, ItemStepType, MovementStepType, RecipeStepType
    DEF StockAbort, Fail, End, CallStep, RoomCalls, SupplierCalls
  <2>2. \A k \in RoomCalls : k.step # "use"
    BY DEF RoomCalls, SupplierCalls, ItemCalls, MovementCalls, RecipeCalls, Idle
  <2> QED BY <2>1, <2>2 DEF CallStep, Users, TypeOK
<1> QED BY <1>1, <1>2 DEF StocksNext

\* How the row of a discount comes to be what it is after a step.
Created(d) ==
  /\ disc[d] = NoRow /\ disc'[d] \in Discs
  /\ FitsType(disc'[d].type, disc'[d].value)
  /\ InOrder(disc'[d].from, disc'[d].until)
  /\ d \in Metered => disc'[d].count = 0
Patched(d) == \E patch \in DiscPatches :
  /\ d \in LiveDiscs
  /\ ChecksPatch(patch)
  /\ d \in Metered => KeepsMeter(disc[d], patch)
  /\ d \in Paired => KeepsPairs(patch)
  /\ disc'[d] = PatchedDiscount(disc[d], patch)
Switched(d) ==
  /\ d \in LiveDiscs
  /\ \E active \in BOOLEAN : disc'[d] = [disc[d] EXCEPT !.active = active]
Used(d) ==
  /\ d \in LiveDiscs
  /\ disc'[d] = [disc[d] EXCEPT !.count = @ + 1]
  /\ \E c \in Users(d) : Users(d)' = Users(d) \ {c}

LEMMA RequestRows ==
  ASSUME TypeOK, DiscountRequest, NEW d \in DiscIds, disc'[d] \notin Vacant
  PROVE  /\ disc'[d] = disc[d] \/ Created(d) \/ Patched(d) \/ Switched(d)
         /\ Users(d)' = Users(d)
<1>0. disc \in [DiscIds -> Discs \cup Vacant]
  BY DEF TypeOK, PricesTypeOK
<1>1. ASSUME NEW offer \in Offers, DiscountCreate(offer)
      PROVE  disc'[d] = disc[d] \/ Created(d)
  <2>1. offer \in Discs
    BY PricingAssumption DEF PricingAssumption
  <2> QED BY <1>0, <1>1, <2>1 DEF DiscountCreate, Created
<1>2. ASSUME NEW e \in DiscIds, NEW patch \in DiscPatches, DiscountUpdate(e, patch)
      PROVE  disc'[d] = disc[d] \/ Patched(d)
  BY <1>0, <1>2 DEF DiscountUpdate, Patched
<1>3. ASSUME NEW e \in DiscIds, NEW active \in BOOLEAN, DiscountSwitch(e, active)
      PROVE  disc'[d] = disc[d] \/ Switched(d)
  BY <1>0, <1>3 DEF DiscountSwitch, Switched
<1>4. ASSUME NEW e \in DiscIds, DiscountRemove(e) PROVE disc'[d] = disc[d]
  BY <1>0, <1>4 DEF DiscountRemove, Vacant
<1>5. call' = call
  BY DiscountRequestType DEF TypeOK
<1> QED BY <1>1, <1>2, <1>3, <1>4, <1>5 DEF DiscountRequest, Users

LEMMA UseRows ==
  ASSUME TypeOK, NEW c \in Callers, DiscountUse(c), NEW d \in LiveDiscs
  PROVE  \/ disc'[d] = disc[d] /\ (Users(d)' \subseteq Users(d) \/ UsesLeft(disc[d]))
         \/ Used(d)
<1>0. disc \in [DiscIds -> Discs \cup Vacant] /\ d \in DiscIds
  BY DEF TypeOK, PricesTypeOK, LiveDiscs
<1>1. ASSUME NEW e \in DiscIds, NEW subtotal \in Subtotals, CalculateDiscount(c, e, subtotal)
      PROVE  disc' = disc /\ (Users(d)' \subseteq Users(d) \/ UsesLeft(disc[d]))
  <2>1. CASE e = d
    BY <1>1, <2>1 DEF CalculateDiscount
  <2>2. CASE e # d
    BY <1>1, <2>2 DEF CalculateDiscount, Start, Users, TypeOK
  <2> QED BY <2>1, <2>2
<1>2. ASSUME IncrementUsage(c)
      PROVE  Used(d) \/ (disc'[d] = disc[d] /\ Users(d)' \subseteq Users(d))
  <2>1. Users(d)' = Users(d) \ {c}
    BY <1>2 DEF IncrementUsage, End, Users, Idle, TypeOK
  <2>2. CASE call[c].id = d
    BY <1>0, <1>2, <2>1, <2>2 DEF IncrementUsage, Used, Users
  <2>3. CASE call[c].id # d
    BY <1>0, <1>2, <2>1, <2>3 DEF IncrementUsage
  <2> QED BY <2>2, <2>3
<1>3. ASSUME Abandon(c) PROVE disc' = disc /\ Users(d)' \subseteq Users(d)
  BY <1>3 DEF Abandon, End, Users, Idle, TypeOK
<1> QED BY <1>1, <1>2, <1>3 DEF DiscountUse

\* Every other step leaves discounts and their users alone.
LEMMA QuietRows ==
  ASSUME TypeOK, [Next]_vars, ~DiscountRequest, \A c \in Callers : ~DiscountUse(c), NEW d \in DiscIds
  PROVE  disc' = disc /\ Users(d)' \subseteq Users(d)
<1>1. CASE PricesNext
  <2>1. CASE TaxRequest
    <3>1. call' = call /\ disc' = disc
      BY <2>1, TaxRequestType DEF TypeOK
    <3> QED BY <3>1 DEF Users
  <2>2. CASE Tick
    BY <2>2 DEF Tick, Users
  <2> QED BY <1>1, <2>1, <2>2 DEF PricesNext
<1>2. CASE StocksNext /\ UNCHANGED prices
  BY <1>2, StocksLeaveUsers DEF prices
<1>3. CASE UNCHANGED vars
  BY <1>3 DEF vars, prices, Users
<1> QED BY <1>1, <1>2, <1>3 DEF Next

LEMMA DiscountRows ==
  ASSUME TypeOK, [Next]_vars, NEW d \in LiveDiscs'
  PROVE  /\ d \in DiscIds /\ disc'[d] \in Discs
         /\ d \in LiveDiscs => disc[d] \in Discs
         /\ \/ /\ d \in LiveDiscs /\ disc'[d] = disc[d]
               /\ Users(d)' \subseteq Users(d) \/ UsesLeft(disc[d])
            \/ (Created(d) \/ Patched(d) \/ Switched(d)) /\ Users(d)' = Users(d)
            \/ Used(d)
<1>1. d \in DiscIds /\ disc'[d] \notin Vacant /\ disc'[d] \in Discs
  BY StepType DEF LiveDiscs, TypeOK, PricesTypeOK
<1>2. d \in LiveDiscs => disc[d] \in Discs
  BY LivePrices DEF TypeOK
<1>3. disc'[d] = disc[d] => d \in LiveDiscs
  BY <1>1 DEF LiveDiscs
<1>4. CASE DiscountRequest
  BY <1>1, <1>2, <1>3, <1>4, RequestRows
<1>5. ASSUME NEW c \in Callers, DiscountUse(c)
      PROVE  \/ /\ disc'[d] = disc[d]
                /\ Users(d)' \subseteq Users(d) \/ UsesLeft(disc[d])
             \/ Used(d)
  <2>1. d \in LiveDiscs
    <3>1. disc[d] \in Vacant => disc'[d] = disc[d]
      BY <1>1, <1>5
      DEF DiscountUse, CalculateDiscount, IncrementUsage, Abandon, LiveDiscs, TypeOK, PricesTypeOK
    <3> QED BY <1>1, <3>1 DEF LiveDiscs
  <2> QED BY <1>5, <2>1, UseRows
<1>6. CASE ~DiscountRequest /\ \A c \in Callers : ~DiscountUse(c)
  <2>1. disc'[d] = disc[d] /\ Users(d)' \subseteq Users(d)
    BY <1>1, <1>6, QuietRows
  <2> QED BY <1>1, <1>2, <1>3, <2>1
<1> QED BY <1>1, <1>2, <1>3, <1>4, <1>5, <1>6

\* The checks of a request that sends type and value together, and both dates or neither,
\* are the checks of the row it makes.
LEMMA PairedTerms ==
  ASSUME NEW row \in Discs, NEW patch \in Patches, ChecksPatch(patch), KeepsPairs(patch),
         FitsType(row.type, row.value), InOrder(row.from, row.until)
  PROVE  LET new == PatchedDiscount(row, patch)
         IN  FitsType(new.type, new.value) /\ InOrder(new.from, new.until)
<1> DEFINE new == PatchedDiscount(row, patch)
<1>0. /\ new.type = Given(row.type, patch.type) /\ new.value = Given(row.value, patch.value)
      /\ new.from = Given(row.from, patch.from) /\ new.until = Given(row.until, patch.until)
  BY DEF PatchedDiscount
<1>1. FitsType(new.type, new.value)
  <2>1. CASE patch.type = Absent
    BY <1>0, <2>1 DEF KeepsPairs, Given
  <2>2. CASE patch.type # Absent
    BY <1>0, <2>2 DEF KeepsPairs, ChecksPatch, Given
  <2> QED BY <2>1, <2>2
<1>2. InOrder(new.from, new.until)
  <2>1. CASE patch.from = Absent
    BY <1>0, <2>1 DEF KeepsPairs, Given
  <2>2. CASE patch.from # Absent
    BY <1>0, <2>2 DEF KeepsPairs, ChecksPatch, Given
  <2> QED BY <2>1, <2>2
<1> QED BY <1>1, <1>2

LEMMA TermsStep ==
  ASSUME TypeOK, TermsHold, [Next]_vars
  PROVE  TermsHold'
<1> SUFFICES ASSUME NEW d \in LiveDiscs', d \in Paired
             PROVE  /\ FitsType(disc'[d].type, disc'[d].value)
                    /\ InOrder(disc'[d].from, disc'[d].until)
  BY DEF TermsHold
<1>1. d \in LiveDiscs => /\ disc[d] \in Discs
                         /\ FitsType(disc[d].type, disc[d].value)
                         /\ InOrder(disc[d].from, disc[d].until)
  BY DiscountRows DEF TermsHold
<1>2. CASE d \in LiveDiscs /\ disc'[d] = disc[d]
  BY <1>1, <1>2
<1>3. CASE Created(d)
  BY <1>3 DEF Created
<1>4. CASE Patched(d)
  <2>1. PICK patch \in DiscPatches :
          ChecksPatch(patch) /\ KeepsPairs(patch) /\ disc'[d] = PatchedDiscount(disc[d], patch)
    BY <1>4 DEF Patched
  <2>2. patch \in Patches /\ d \in LiveDiscs
    BY <1>4, PricingAssumption DEF PricingAssumption, Patched
  <2> QED BY <1>1, <2>1, <2>2, PairedTerms
<1>5. CASE Switched(d) \/ Used(d)
  <2>1. /\ disc'[d].type = disc[d].type /\ disc'[d].value = disc[d].value
        /\ disc'[d].from = disc[d].from /\ disc'[d].until = disc[d].until
        /\ d \in LiveDiscs
    BY <1>1, <1>5 DEF Switched, Used, Discs
  <2> QED BY <1>1, <2>1
<1> QED BY <1>2, <1>3, <1>4, <1>5, DiscountRows

(***************************************************************************)
(* A discount whose clients send what belongs together never has a         *)
(* percentage above 100, a fixed amount of nothing or dates the wrong way  *)
(* round, although no update looks at the row.                             *)
(***************************************************************************)
THEOREM TermsAlwaysHold == Spec => []TermsHold
<1>1. Init => TypeOK /\ TermsHold
  BY InitType DEF Init, PricesInit, TermsHold, LiveDiscs, Vacant
<1>2. TypeOK /\ TermsHold /\ [Next]_vars => (TypeOK /\ TermsHold)'
  BY StepType, TermsStep
<1> QED BY <1>1, <1>2, PTL DEF Spec

\* Uses counted and uses about to be, as far above the limit as there are tills to overtake.
MeterInv == \A d \in LiveDiscs \cap Metered : disc[d].limit # Null =>
  disc[d].count + Cardinality(Users(d)) <= disc[d].limit - 1 + Cardinality(Callers)

\* The columns of a metered row that the meter reads.
LEMMA MeterColumns ==
  ASSUME NEW row \in Discs, NEW patch \in Patches, KeepsMeter(row, patch)
  PROVE  LET new == PatchedDiscount(row, patch)
         IN  /\ new.count = row.count
             /\ new.limit # Null => row.limit # Null /\ new.limit >= row.limit
<1>1. PatchedDiscount(row, patch).count = row.count
  BY DEF PatchedDiscount, KeepsMeter, Given
<1>2. PatchedDiscount(row, patch).limit = Given(row.limit, patch.limit)
  BY DEF PatchedDiscount
<1> QED BY <1>1, <1>2, PricingAssumption
  DEF PricingAssumption, KeepsMeter, Given, Discs, Patches, OrNull, Optional

LEMMA MeterStep ==
  ASSUME TypeOK, MeterInv, [Next]_vars
  PROVE  MeterInv'
<1> SUFFICES ASSUME NEW d \in LiveDiscs', d \in Metered, disc'[d].limit # Null
             PROVE  disc'[d].count + Cardinality(Users(d)')
                      <= disc'[d].limit - 1 + Cardinality(Callers)
  BY DEF MeterInv
<1> DEFINE N == Cardinality(Callers)
           U == Cardinality(Users(d))
           V == Cardinality(Users(d)')
<1>0. /\ d \in DiscIds /\ disc'[d] \in Discs /\ N \in Nat
      /\ d \in LiveDiscs => disc[d] \in Discs
      /\ d \in LiveDiscs /\ disc[d].limit # Null => disc[d].count + U <= disc[d].limit - 1 + N
  BY DiscountRows, UserSets DEF MeterInv
<1>1. /\ U \in Nat /\ U <= N /\ IsFiniteSet(Users(d))
      /\ V \in Nat /\ V <= N
  <2>1. IsFiniteSet(Users(d)') /\ Users(d)' \subseteq Callers
    BY HandlersAssumption, FS_Subset DEF HandlersAssumption, Users
  <2> QED BY <1>0, <2>1, UserSets, HandlersAssumption, FS_Subset, FS_CardinalityType
    DEF HandlersAssumption
<1>2. disc'[d].count \in Nat /\ disc'[d].limit \in Nat \ {0}
  BY <1>0 DEF Discs, OrNull
<1>3. CASE d \in LiveDiscs /\ disc'[d] = disc[d] /\ Users(d)' \subseteq Users(d)
  <2>1. V <= U
    BY <1>1, <1>3, FS_Subset
  <2> HIDE DEF U, V, N
  <2> QED BY <1>0, <1>1, <1>2, <1>3, <2>1 DEF V, N
<1>4. CASE d \in LiveDiscs /\ disc'[d] = disc[d] /\ UsesLeft(disc[d])
  <2> HIDE DEF U, V, N
  <2>1. disc'[d].count < disc'[d].limit
    BY <1>4 DEF UsesLeft
  <2> QED BY <1>1, <1>2, <2>1, <1>0 DEF V, N
<1>5. CASE Created(d)
  <2>1. disc'[d].count = 0
    BY <1>5 DEF Created
  <2> HIDE DEF U, V, N
  <2> QED BY <1>0, <1>1, <1>2, <2>1 DEF V, N
<1>6. CASE Patched(d) /\ Users(d)' = Users(d)
  <2>1. PICK patch \in DiscPatches :
          KeepsMeter(disc[d], patch) /\ disc'[d] = PatchedDiscount(disc[d], patch)
    BY <1>6 DEF Patched
  <2>2. patch \in Patches /\ d \in LiveDiscs /\ disc[d] \in Discs
    BY <1>0, <1>6, PricingAssumption DEF PricingAssumption, Patched
  <2>3. /\ disc'[d].count = disc[d].count
        /\ disc[d].limit # Null /\ disc'[d].limit >= disc[d].limit
    BY <2>1, <2>2, MeterColumns
  <2>4. disc[d].limit \in Nat /\ disc[d].count \in Nat
    BY <2>2, <2>3 DEF Discs, OrNull
  <2>5. V = U
    BY <1>6
  <2> HIDE DEF U, V, N
  <2>6. disc[d].count + U <= disc[d].limit - 1 + N
    BY <1>0, <2>2, <2>3
  <2> QED BY <1>0, <1>1, <1>2, <2>3, <2>4, <2>5, <2>6 DEF V, N
<1>7. CASE Switched(d) /\ Users(d)' = Users(d)
  <2>1. d \in LiveDiscs /\ disc'[d].count = disc[d].count /\ disc'[d].limit = disc[d].limit
    BY <1>0, <1>7 DEF Switched, Discs
  <2>2. V = U
    BY <1>7
  <2> HIDE DEF U, V, N
  <2> QED BY <1>0, <2>1, <2>2 DEF V, N
<1>8. CASE Used(d)
  <2>1. d \in LiveDiscs /\ disc'[d].count = disc[d].count + 1 /\ disc'[d].limit = disc[d].limit
    BY <1>0, <1>8 DEF Used, Discs
  <2>2. PICK c \in Users(d) : Users(d)' = Users(d) \ {c}
    BY <1>8 DEF Used
  <2>3. V = U - 1
    BY <1>1, <2>2, FS_RemoveElement
  <2>4. disc[d].count \in Nat /\ disc[d].limit \in Nat
    BY <1>0, <1>2, <2>1 DEF Discs
  <2> HIDE DEF U, V, N
  <2>5. disc[d].count + U <= disc[d].limit - 1 + N
    BY <1>0, <2>1
  <2> QED BY <1>0, <1>1, <2>1, <2>3, <2>4, <2>5 DEF V, N
<1> QED BY <1>3, <1>4, <1>5, <1>6, <1>7, <1>8, DiscountRows

(***************************************************************************)
(* However many tills ask and count, a metered discount is used at most    *)
(* its limit and one time more per other till.                             *)
(***************************************************************************)
THEOREM LimitHardlyExceeded == Spec => []FewOverLimit
<1>1. Init => TypeOK /\ MeterInv
  BY InitType DEF Init, PricesInit, MeterInv, LiveDiscs, Vacant
<1>2. TypeOK /\ MeterInv /\ [Next]_vars => (TypeOK /\ MeterInv)'
  BY StepType, MeterStep
<1>3. TypeOK /\ MeterInv => FewOverLimit
  <2> SUFFICES ASSUME TypeOK, MeterInv, NEW d \in LiveDiscs \cap Metered, disc[d].limit # Null
               PROVE  disc[d].count <= disc[d].limit - 1 + Cardinality(Callers)
    BY DEF FewOverLimit
  <2>1. /\ disc[d].count \in Nat /\ disc[d].limit \in Nat
        /\ Cardinality(Users(d)) \in Nat /\ Cardinality(Callers) \in Nat
    BY LivePrices, UserSets DEF Discs, OrNull, TypeOK
  <2>2. disc[d].count + Cardinality(Users(d)) <= disc[d].limit - 1 + Cardinality(Callers)
    BY DEF MeterInv
  <2> QED BY <2>1, <2>2
<1> QED BY <1>1, <1>2, <1>3, PTL DEF Spec

\* Each date is missing or an instant, so both lists make the same cases of it.
LEMMA ListedInForce == TypeOK => ListedAreInForce
<1> SUFFICES ASSUME TypeOK, NEW d \in LiveDiscs
             PROVE  d \in ListedDiscounts <=> InForce(disc[d])
  BY DEF ListedAreInForce, ListedDiscounts
<1> DEFINE row == disc[d]
<1>1. /\ row.active \in BOOLEAN /\ now \in Nat /\ Null \notin Nat
      /\ row.from \in Nat \/ row.from = Null
      /\ row.until \in Nat \/ row.until = Null
  BY LivePrices, PricingAssumption DEF PricingAssumption, TypeOK, PricesTypeOK, Discs, OrNull
<1>2. d \in ListedDiscounts <=>
        /\ row.active
        /\ \/ row.from # Null /\ row.from <= now /\ row.until # Null /\ row.until >= now
           \/ row.from = Null /\ row.until = Null
           \/ row.from # Null /\ row.from <= now /\ row.until = Null
           \/ row.from = Null /\ row.until # Null /\ row.until >= now
  BY DEF ListedDiscounts
<1>3. InForce(disc[d]) <=>
        row.active /\ ~(row.from # Null /\ row.from > now) /\ ~(row.until # Null /\ row.until < now)
  BY DEF InForce
<1> HIDE DEF row
<1> QED BY <1>1, <1>2, <1>3

(***************************************************************************)
(* Whatever is patched and whatever the time, the discounts on offer are   *)
(* those no till is refused for being switched off, early or late.         *)
(***************************************************************************)
THEOREM ListedAlwaysInForce == Spec => []ListedAreInForce
BY TypeCorrect, ListedInForce, PTL

\* What a discount takes before its maximum: more of more, and never more than all
\* that a subtotal grows by, unless it takes the whole of both.
LEMMA NominalGrows ==
  ASSUME NEW row \in Discs, NEW less \in Nat, NEW more \in Nat, less <= more
  PROVE  /\ Nominal(row, less) \in Nat /\ Nominal(row, more) \in Nat
         /\ Nominal(row, less) <= Nominal(row, more)
         /\ \/ 100 * less - Nominal(row, less) <= 100 * more - Nominal(row, more)
            \/ Nominal(row, less) >= 100 * less /\ Nominal(row, more) >= 100 * more
<1>1. row.value \in Nat
  BY DEF Discs
<1>2. CASE row.type = "PERCENTAGE"
  <2>1. Nominal(row, less) = less * row.value /\ Nominal(row, more) = more * row.value
    BY <1>2 DEF Nominal
  <2>2. ASSUME NEW k \in Nat, NEW v \in Nat PROVE k * v \in Nat
    BY <2>2
  <2>3. PICK k \in Nat : more = less + k
    <3>1. more - less \in Nat /\ more = less + (more - less)
      OBVIOUS
    <3> QED BY <3>1
  <2>4. more * row.value = less * row.value + k * row.value
    BY <1>1, <2>3
  <2>5. less * row.value \in Nat /\ k * row.value \in Nat /\ more * row.value \in Nat
    BY <1>1, <2>2
  <2>6. CASE row.value <= 100
    <3>1. PICK w \in Nat : 100 = row.value + w
      <4>1. 100 - row.value \in Nat /\ 100 = row.value + (100 - row.value)
        BY <1>1, <2>6
      <4> QED BY <4>1
    <3>2. 100 * k = k * row.value + k * w
      <4>1. \A u \in Nat : k * (u + w) = k * u + k * w
        OBVIOUS
      <4>2. k * (row.value + w) = k * row.value + k * w
        BY <1>1, <4>1
      <4>3. k * 100 = 100 * k
        OBVIOUS
      <4> QED BY <3>1, <4>2, <4>3
    <3>3. k * w \in Nat
      BY <2>2
    <3> QED BY <2>1, <2>3, <2>4, <2>5, <3>2, <3>3
  <2>7. CASE row.value > 100
    <3>1. PICK w \in Nat : row.value = 100 + w
      <4>1. row.value - 100 \in Nat /\ row.value = 100 + (row.value - 100)
        BY <1>1, <2>7
      <4> QED BY <4>1
    <3>2. \A s \in Nat : s * (100 + w) = 100 * s + s * w
      OBVIOUS
    <3>3. less * w \in Nat /\ more * w \in Nat
      BY <2>2
    <3> QED BY <2>1, <2>4, <2>5, <3>1, <3>2, <3>3
  <2> QED BY <1>1, <2>6, <2>7
<1>3. CASE row.type = "FIXED_AMOUNT"
  BY <1>1, <1>3 DEF Nominal
<1>4. CASE row.type \notin {"PERCENTAGE", "FIXED_AMOUNT"}
  BY <1>4 DEF Nominal
<1> QED BY <1>2, <1>3, <1>4

LEMMA AmountGrows ==
  ASSUME NEW row \in Discs, NEW less \in Nat, NEW more \in Nat, less <= more
  PROVE  /\ Amount(row, less) \in 0..(100 * less)
         /\ Amount(row, less) <= Amount(row, more)
         /\ 100 * less - Amount(row, less) <= 100 * more - Amount(row, more)
<1> DEFINE n == Nominal(row, less)
           m == Nominal(row, more)
<1>1. /\ n \in Nat /\ m \in Nat /\ n <= m
      /\ 100 * less - n <= 100 * more - m \/ (n >= 100 * less /\ m >= 100 * more)
  BY NominalGrows
<1> HIDE DEF n, m
<1>2. /\ Amount(row, less) = IF Capped(row, n) > 100 * less THEN 100 * less ELSE Capped(row, n)
      /\ Amount(row, more) = IF Capped(row, m) > 100 * more THEN 100 * more ELSE Capped(row, m)
  BY DEF Amount, n, m
<1>3. CASE row.max \in {Null, 0}
  <2>1. Capped(row, n) = n /\ Capped(row, m) = m
    BY <1>3 DEF Capped
  <2> QED BY <1>1, <1>2, <2>1
<1>4. CASE row.max \notin {Null, 0}
  <2>1. row.max \in Nat
    BY <1>4 DEF Discs, OrNull
  <2>2. /\ Capped(row, n) = IF n > 100 * row.max THEN 100 * row.max ELSE n
        /\ Capped(row, m) = IF m > 100 * row.max THEN 100 * row.max ELSE m
    BY <1>4 DEF Capped
  <2> QED BY <1>1, <1>2, <2>1, <2>2
<1> QED BY <1>3, <1>4

LEMMA BiggerPaysNoLess == TypeOK => BiggerBasketPaysNoLess
<1> SUFFICES ASSUME TypeOK, NEW d \in LiveDiscs, NEW less \in Subtotals, NEW more \in Subtotals,
                    less <= more, Reaches(disc[d], less)
             PROVE  /\ Reaches(disc[d], more)
                    /\ Amount(disc[d], less) \in 0..(100 * less)
                    /\ Amount(disc[d], less) <= Amount(disc[d], more)
                    /\ 100 * less - Amount(disc[d], less) <= 100 * more - Amount(disc[d], more)
  BY DEF BiggerBasketPaysNoLess
<1>1. disc[d] \in Discs /\ less \in Nat /\ more \in Nat
  BY LivePrices, PricingAssumption DEF PricingAssumption, TypeOK
<1>2. Reaches(disc[d], more)
  <2>1. disc[d].min \in Nat \cup {Null}
    BY <1>1 DEF Discs, OrNull
  <2> QED BY <1>1, <2>1 DEF Reaches
<1> QED BY <1>1, <1>2, AmountGrows

(***************************************************************************)
(* A discount, whatever has become of its columns, takes at most the       *)
(* subtotal, and a bigger basket gets no less off and pays no less.        *)
(***************************************************************************)
THEOREM BiggerAlwaysPaysNoLess == Spec => []BiggerBasketPaysNoLess
BY TypeCorrect, BiggerPaysNoLess, PTL

-----------------------------------------------------------------------------
(* Suppliers and their items *)

\* The steps of the back office, as seen from the stock room.
LEMMA StepKinds ==
  ASSUME TypeOK, [Next]_vars
  PROVE  \/ /\ stocks' = stocks
            /\ \A c \in Callers : call'[c] = call[c] \/ call'[c] \in {Idle} \cup TillCalls
         \/ call' = call /\ (SupplierRequest \/ ItemRequest \/ MovementRequest \/ RecipeRequest)
         \/ \E c \in Callers : SupplierStep(c) \/ ItemStep(c) \/ MovementStep(c) \/ RecipeStep(c)
<1>0. PricesTypeOK /\ StocksTypeOK /\ call \in [Callers -> OfficeCalls]
  BY DEF TypeOK, OfficeCalls
<1>1. CASE PricesNext /\ UNCHANGED stocks
  <2>1. CASE DiscountRequest \/ TaxRequest \/ Tick
    BY <1>0, <1>1, <2>1, DiscountRequestType, TaxRequestType DEF Tick
  <2>2. ASSUME NEW c \in Callers, DiscountUse(c)
        PROVE  \A e \in Callers : call'[e] = call[e] \/ call'[e] \in {Idle} \cup TillCalls
    <3>1. PICK k \in {Idle} \cup TillCalls : CallStep(c, k)
      BY <2>2, DiscountUseType
    <3> QED BY <1>0, <3>1 DEF CallStep
  <2> QED BY <1>1, <2>1, <2>2 DEF PricesNext
<1>2. CASE StocksNext
  <2>1. CASE SupplierRequest \/ ItemRequest \/ MovementRequest \/ RecipeRequest
    BY <1>0, <2>1, SupplierRequestType, ItemRequestType, MovementRequestType, RecipeRequestType
  <2>2. ASSUME NEW c \in Callers, StockAbort(c)
        PROVE  stocks' = stocks /\ \A e \in Callers : call'[e] = call[e] \/ call'[e] = Idle
    BY <1>0, <2>2 DEF StockAbort, Fail, End
  <2> QED BY <1>2, <2>1, <2>2 DEF StocksNext
<1>3. CASE UNCHANGED vars
  BY <1>3 DEF vars
<1> QED BY <1>1, <1>2, <1>3 DEF Next

\* While a supplier that is kept is about to be deleted, no item refers to it.
KeptInv == \A c \in Callers :
  call[c].step = "sup.delete" /\ call[c].id \in Kept => ItemsOf(call[c].id) = {}

\* A request for an item gives none to a supplier that is being removed.
LEMMA ItemRequestKeeps ==
  ASSUME TypeOK, ItemRequest, NEW s \in Kept,
         NEW c \in Callers, call[c].step = "sup.delete", call[c].id = s
  PROVE  ItemsOf(s)' \subseteq ItemsOf(s)
<1>0. StocksTypeOK /\ s \in SupIds /\ s # Null /\ ~Open(s)
  BY StockAssumption DEF StockAssumption, TypeOK, Open
<1>1. ASSUME NEW t \in OrNull(SupIds), ItemCreate(t) PROVE ItemsOf(s)' \subseteq ItemsOf(s)
  <2>1. t # s
    BY <1>0, <1>1 DEF ItemCreate, Supplies
  <2> QED BY <1>0, <1>1, <2>1 DEF ItemCreate, ItemsOf, LiveItems, StocksTypeOK
<1>2. ASSUME NEW i \in ItemIds, NEW t \in Optional(OrNull(SupIds)), NEW active \in Optional(Flags),
             ItemUpdate(i, t, active)
      PROVE  ItemsOf(s)' \subseteq ItemsOf(s)
  <2>1. t # s
    BY <1>0, <1>2, StockAssumption DEF StockAssumption, ItemUpdate, Supplies
  <2>2. PatchedItem(item[i], t, active).sup = Given(item[i].sup, t)
    BY DEF PatchedItem
  <2>3. Given(item[i].sup, t) = s => item[i].sup = s
    BY <2>1 DEF Given
  <2> QED BY <1>0, <1>2, <2>2, <2>3 DEF ItemUpdate, ItemsOf, LiveItems, StocksTypeOK
<1>3. ASSUME NEW i \in ItemIds, NEW stock \in 0..MaxStock, SetStock(i, stock)
      PROVE  ItemsOf(s)' \subseteq ItemsOf(s)
  <2>1. item[i] \in Items
    BY <1>0, <1>3, LiveStocks DEF SetStock
  <2>2. [item[i] EXCEPT !.stock = stock].sup = item[i].sup
    BY <2>1 DEF Items
  <2> QED BY <1>0, <1>3, <2>2 DEF SetStock, ItemsOf, LiveItems, StocksTypeOK
<1> QED BY <1>1, <1>2, <1>3 DEF ItemRequest

\* No later statement gives a supplier an item.
LEMMA StepsKeepSupplied ==
  ASSUME TypeOK, NEW c \in Callers, SupplierStep(c) \/ ItemStep(c), NEW s \in SupIds
  PROVE  ItemsOf(s)' \subseteq ItemsOf(s)
<1>0. StocksTypeOK /\ s # Null
  BY StockAssumption DEF StockAssumption, TypeOK
<1>1. ASSUME stocks' = stocks \/ item' = item PROVE ItemsOf(s)' \subseteq ItemsOf(s)
  BY <1>1 DEF stocks, ItemsOf, LiveItems
<1>2. CASE SupplierDelete(c)
  <2>1. \A i \in ItemIds : item[i] \in Items => [item[i] EXCEPT !.sup = Null].sup = Null
    BY DEF Items
  <2>2. \A i \in ItemsOf(call[c].id) : i \in ItemIds /\ item[i] \in Items
    BY <1>0, LiveStocks DEF ItemsOf
  <2>3. \A i \in ItemIds : item'[i] = item[i] \/ item'[i].sup = Null
    BY <1>0, <1>2, <2>1, <2>2 DEF SupplierDelete, StocksTypeOK
  <2> QED BY <1>0, <2>3 DEF ItemsOf, LiveItems
<1>3. CASE ItemHide(c)
  <2> DEFINE i == call[c].id
  <2>1. ASSUME i \in LiveItems PROVE [item[i] EXCEPT !.active = FALSE].sup = item[i].sup
    <3>1. item[i] \in Items
      BY <1>0, <2>1, LiveStocks
    <3> QED BY <3>1 DEF Items
  <2> QED BY <1>0, <1>3, <2>1 DEF ItemHide, ItemsOf, LiveItems, StocksTypeOK
<1>4. CASE ItemDelete(c)
  BY <1>0, <1>4 DEF ItemDelete, ItemsOf, LiveItems, StocksTypeOK, Vacant
<1> QED BY <1>1, <1>2, <1>3, <1>4
  DEF SupplierStep, ItemStep, SupplierRemoveRead, SupplierHide, ItemRemoveRead

LEMMA KeptStep ==
  ASSUME TypeOK, KeptInv, [Next]_vars
  PROVE  KeptInv'
<1> SUFFICES ASSUME NEW c \in Callers, NEW s \in Kept,
                    call'[c].step = "sup.delete", call'[c].id = s
             PROVE  ItemsOf(s)' = {}
  BY DEF KeptInv, ItemsOf, LiveItems
<1>0. s \in SupIds /\ Idle.step = "idle" /\ \A k \in TillCalls : k.step = "use"
  BY StockAssumption DEF StockAssumption, Idle, TillCalls
<1>1. ASSUME call'[c] = call[c], ItemsOf(s)' \subseteq ItemsOf(s) PROVE ItemsOf(s)' = {}
  BY <1>1 DEF KeptInv
<1>2. ASSUME item' = item PROVE ItemsOf(s)' = ItemsOf(s)
  BY <1>2 DEF ItemsOf, LiveItems
<1>3. CASE /\ stocks' = stocks
           /\ \A e \in Callers : call'[e] = call[e] \/ call'[e] \in {Idle} \cup TillCalls
  BY <1>0, <1>1, <1>2, <1>3 DEF stocks
<1>4. CASE call' = call /\ (SupplierRequest \/ ItemRequest \/ MovementRequest \/ RecipeRequest)
  <2>1. CASE ItemRequest
    <3>1. ItemsOf(s)' \subseteq ItemsOf(s)
      BY <1>4, <2>1, ItemRequestKeeps
    <3> QED BY <1>1, <1>4, <3>1
  <2>2. CASE SupplierRequest \/ MovementRequest \/ RecipeRequest
    <3>1. item' = item
      BY <2>2, MovementRequestType, RecipeRequestType
      DEF TypeOK, SupplierRequest, SupplierCreate, SupplierUpdate
    <3> QED BY <1>1, <1>2, <1>4, <3>1
  <2> QED BY <1>4, <2>1, <2>2
<1>5. ASSUME NEW e \in Callers, SupplierStep(e) PROVE ItemsOf(s)' = {}
  <2>1. ItemsOf(s)' \subseteq ItemsOf(s)
    BY <1>0, <1>5, StepsKeepSupplied
  <2>2. CASE call'[c] = call[c]
    BY <1>1, <2>1, <2>2
  <2>3. CASE call'[c] # call[c]
    <3>1. \E t \in SupIds : SupplierRemoveRead(e, t) /\ e = c
      BY <1>0, <1>5, <2>3
      DEF SupplierStep, SupplierHide, SupplierDelete, SupplierRemoveRead, Start, End, TypeOK
    <3>2. ItemsOf(s) = {}
      BY <3>1 DEF SupplierRemoveRead, Start, TypeOK
    <3> QED BY <2>1, <3>2
  <2> QED BY <2>2, <2>3
<1>6. ASSUME NEW e \in Callers, ItemStep(e) \/ MovementStep(e) \/ RecipeStep(e)
      PROVE  ItemsOf(s)' = {}
  <2>1. PICK k \in ItemCalls \cup MovementCalls \cup RecipeCalls : CallStep(e, k)
    BY <1>6, ItemStepType, MovementStepType, RecipeStepType
  <2>2. k.step # "sup.delete"
    BY DEF ItemCalls, MovementCalls, RecipeCalls, Idle
  <2>3. call'[c] = call[c]
    BY <2>1, <2>2 DEF CallStep, TypeOK
  <2>4. ItemsOf(s)' \subseteq ItemsOf(s)
    BY <1>0, <1>2, <1>6, StepsKeepSupplied, MovementStepType, RecipeStepType
  <2> QED BY <1>1, <2>3, <2>4
<1> QED BY <1>3, <1>4, <1>5, <1>6, StepKinds

\* Only the delete of a supplier makes its row go.
LEMMA GoneSupplier ==
  ASSUME TypeOK, [Next]_vars, NEW s \in LiveSups, sup'[s] = GoneRow
  PROVE  \E c \in Callers :
           call[c].id = s /\ SupplierDelete(c)
<1>0. StocksTypeOK /\ s \in SupIds /\ sup[s] \in Sups /\ GoneRow \notin Sups
  BY LiveStocks, VacantRows DEF TypeOK, Vacant
<1>1. sup'[s] # sup[s]
  BY <1>0
<1>2. CASE SupplierRequest
  <2>1. \A active \in Optional(Flags) : [sup[s] EXCEPT !.active = Given(@, active)] # GoneRow
    BY <1>0 DEF Sups, GoneRow
  <2> QED BY <1>0, <1>1, <1>2, <2>1 DEF SupplierRequest, SupplierCreate, SupplierUpdate, LiveSups,
       Vacant, StocksTypeOK
<1>3. ASSUME NEW c \in Callers, SupplierStep(c)
      PROVE  call[c].id = s /\ SupplierDelete(c)
  <2>1. [sup[s] EXCEPT !.active = FALSE] # GoneRow
    BY <1>0 DEF Sups, GoneRow
  <2> QED BY <1>0, <1>1, <1>3, <2>1
       DEF SupplierStep, SupplierRemoveRead, SupplierHide, SupplierDelete, stocks, StocksTypeOK
<1>4. ASSUME ItemRequest \/ MovementRequest \/ RecipeRequest PROVE sup' = sup
  BY <1>0, <1>4, ItemRequestType, MovementRequestType, RecipeRequestType
<1>5. ASSUME NEW c \in Callers, ItemStep(c) \/ MovementStep(c) \/ RecipeStep(c) PROVE sup' = sup
  BY <1>5, ItemStepType, MovementStepType, RecipeStepType
<1> QED BY <1>1, <1>2, <1>3, <1>4, <1>5, StepKinds DEF stocks

(***************************************************************************)
(* Whatever else is in flight, removing a supplier whose items are left    *)
(* alone takes it from no item.                                            *)
(***************************************************************************)
THEOREM SupplierAlwaysTakesNothing == Spec => SupplierTakesNothing
<1>1. Init => TypeOK /\ KeptInv
  BY InitType DEF Init, HandlersInit, KeptInv, Idle
<1>2. TypeOK /\ KeptInv /\ [Next]_vars => (TypeOK /\ KeptInv)'
  BY StepType, KeptStep
<1>3. TypeOK /\ KeptInv /\ [Next]_vars => TakesNothing
  <2> SUFFICES ASSUME TypeOK, KeptInv, [Next]_vars,
                      NEW s \in Kept, s \in LiveSups, sup'[s] = GoneRow, NEW i \in ItemIds
               PROVE  item'[i] = item[i]
    BY DEF TakesNothing
  <2>1. PICK c \in Callers : call[c].id = s /\ SupplierDelete(c)
    BY GoneSupplier
  <2>2. ItemsOf(s) = {}
    BY <2>1 DEF KeptInv, SupplierDelete
  <2> QED BY <2>1, <2>2 DEF SupplierDelete, TypeOK, StocksTypeOK
<1>4. TypeOK /\ KeptInv /\ [Next]_vars => [TakesNothing]_<<stocks, call>>
  BY <1>3
<1> QED BY <1>1, <1>2, <1>4, PTL DEF Spec, SupplierTakesNothing

-----------------------------------------------------------------------------
(* Recipes and the lists they are made of *)

RecipeSteps == {"rec.clear", "rec.store", "rec.delete"}

\* Requests about to add their list to a recipe.
Storing(r) == {c \in Callers : call[c].step = "rec.store" /\ call[c].id = r}

\* Items that a few lists make up, with room for n lists more.
MadeOf(items, n, bound) == \E few \in SUBSET Lists :
  IsFiniteSet(few) /\ Cardinality(few) + n <= bound /\ items = UNION few

LEMMA MadeOfLess ==
  ASSUME NEW items, NEW n \in Nat, NEW m \in Nat, m <= n, NEW b \in Nat, MadeOf(items, n, b)
  PROVE  MadeOf(items, m, b)
<1>1. PICK few \in SUBSET Lists :
        IsFiniteSet(few) /\ Cardinality(few) + n <= b /\ items = UNION few
  BY DEF MadeOf
<1>2. Cardinality(few) \in Nat
  BY <1>1, FS_CardinalityType
<1>3. Cardinality(few) + m <= b
  BY <1>1, <1>2
<1> QED BY <1>1, <1>3 DEF MadeOf

LEMMA MadeOfNone ==
  ASSUME NEW n \in Nat, NEW b \in Nat, n <= b
  PROVE  MadeOf({}, n, b)
<1>1. IsFiniteSet({}) /\ Cardinality({}) = 0 /\ {} = UNION {} /\ {} \in SUBSET Lists
  BY FS_EmptySet
<1>2. Cardinality({}) + n <= b
  BY <1>1
<1> QED BY <1>1, <1>2 DEF MadeOf

LEMMA MadeOfOne ==
  ASSUME NEW list \in Lists, NEW b \in Nat, b >= 1
  PROVE  MadeOf(list, 0, b)
<1>1. IsFiniteSet({list}) /\ Cardinality({list}) = 1 /\ list = UNION {list} /\ {list} \in SUBSET Lists
  BY FS_Singleton
<1>2. Cardinality({list}) + 0 <= b
  BY <1>1
<1> QED BY <1>1, <1>2 DEF MadeOf

LEMMA MadeOfMore ==
  ASSUME NEW items, NEW list \in Lists, NEW n \in Nat, n >= 1, NEW b \in Nat, MadeOf(items, n, b)
  PROVE  MadeOf(items \cup list, n - 1, b)
<1>1. PICK few \in SUBSET Lists :
        IsFiniteSet(few) /\ Cardinality(few) + n <= b /\ items = UNION few
  BY DEF MadeOf
<1> DEFINE more == few \cup {list}
<1>2. IsFiniteSet(more) /\ Cardinality(more) \in Nat /\ Cardinality(few) \in Nat
      /\ Cardinality(more) <= Cardinality(few) + 1
  <2>1. IsFiniteSet(few)
    BY <1>1
  <2>2. /\ IsFiniteSet(more)
        /\ Cardinality(more) = IF list \in few THEN Cardinality(few) ELSE Cardinality(few) + 1
    BY ONLY <2>1, FS_AddElement
  <2>3. Cardinality(more) \in Nat /\ Cardinality(few) \in Nat
    BY <2>1, <2>2, FS_CardinalityType
  <2> HIDE DEF more
  <2> QED BY <2>2, <2>3
<1>3. more \in SUBSET Lists /\ items \cup list = UNION more
  BY <1>1
<1>4. Cardinality(more) + (n - 1) <= b
  <2> HIDE DEF more
  <2> QED BY <1>1, <1>2
<1> QED BY <1>2, <1>3, <1>4 DEF MadeOf

LEMMA MadeOfBound ==
  ASSUME NEW items, NEW n \in Nat, NEW b \in Nat, MadeOf(items, n, b)
  PROVE  n <= b
<1>1. PICK few \in SUBSET Lists : IsFiniteSet(few) /\ Cardinality(few) + n <= b
  BY DEF MadeOf
<1>2. Cardinality(few) \in Nat
  BY <1>1, FS_CardinalityType
<1> QED BY <1>1, <1>2

\* One request at a time about a guarded recipe; requests are about recipes that exist
\* or have existed; a recipe is made of lists that have been stored, with room for those
\* still to be.
Sole == \A c, e \in Callers : About(c) \cap About(e) # {} => c = e
Known == \A c \in Callers : call[c].step \in RecipeSteps => rec[call[c].id] # NoRow
ListsInv == \A r \in LiveRecs : MadeOf(rec[r].items, Cardinality(Storing(r)), Overlap(r))

LEMMA StoringSets ==
  ASSUME NEW r \in RecIds
  PROVE  /\ IsFiniteSet(Storing(r)) /\ Cardinality(Storing(r)) \in Nat
         /\ Cardinality(Storing(r)) <= Cardinality(Callers) /\ Cardinality(Callers) \in Nat \ {0}
         /\ Overlap(r) \in Nat /\ Overlap(r) >= 1
<1>1. IsFiniteSet(Callers) /\ Callers # {} /\ Storing(r) \subseteq Callers
  BY HandlersAssumption DEF HandlersAssumption, Storing
<1>2. Cardinality(Callers) \in Nat \ {0}
  BY <1>1, FS_CardinalityType, FS_EmptySet
<1> QED BY <1>1, <1>2, FS_Subset, FS_CardinalityType DEF Overlap

\* Steps that are none of a recipe's: its row stays, and no request about it begins or goes on.
LEMMA OtherSteps ==
  ASSUME TypeOK, [Next]_vars, ~RecipeRequest, \A c \in Callers : ~RecipeStep(c)
  PROVE  /\ rec' = rec
         /\ \A c \in Callers : call'[c] = call[c] \/ call'[c].step \notin RecipeSteps
<1>0. StocksTypeOK /\ call \in [Callers -> OfficeCalls]
  BY DEF TypeOK, OfficeCalls
<1>1. \A k \in {Idle} \cup TillCalls \cup SupplierCalls \cup ItemCalls \cup MovementCalls :
        k.step \notin RecipeSteps
  BY DEF Idle, TillCalls, SupplierCalls, ItemCalls, MovementCalls, RecipeSteps
<1>2. CASE /\ stocks' = stocks
           /\ \A c \in Callers : call'[c] = call[c] \/ call'[c] \in {Idle} \cup TillCalls
  BY <1>1, <1>2 DEF stocks
<1>3. CASE call' = call /\ (SupplierRequest \/ ItemRequest \/ MovementRequest)
  <2>1. rec' = rec
    BY <1>0, <1>3, ItemRequestType, MovementRequestType
    DEF SupplierRequest, SupplierCreate, SupplierUpdate
  <2> QED BY <1>3, <2>1
<1>4. ASSUME NEW c \in Callers, SupplierStep(c) \/ ItemStep(c) \/ MovementStep(c)
      PROVE  /\ rec' = rec
             /\ \A e \in Callers : call'[e] = call[e] \/ call'[e].step \notin RecipeSteps
  <2>1. PICK k \in SupplierCalls \cup ItemCalls \cup MovementCalls : CallStep(c, k) /\ rec' = rec
    BY <1>4, SupplierStepType, ItemStepType, MovementStepType
  <2> QED BY <1>0, <1>1, <2>1 DEF CallStep
<1> QED BY <1>2, <1>3, <1>4, StepKinds

\* Where that is so, or no request about a recipe begins, those in flight are as before.
LEMMA FewerAbout ==
  ASSUME \A c \in Callers : call'[c] = call[c] \/ call'[c].step \notin RecipeSteps
  PROVE  /\ \A c \in Callers : About(c)' \subseteq About(c)
         /\ \A r : Storing(r)' \subseteq Storing(r)
         /\ \A c \in Callers : call'[c].step \in RecipeSteps => call[c].step \in RecipeSteps
         /\ Sole => Sole'
<1>1. \A c \in Callers : About(c)' \subseteq About(c)
  BY DEF About, RecipeSteps
<1>2. \A r : Storing(r)' \subseteq Storing(r)
  BY DEF Storing, RecipeSteps
<1>3. \A c \in Callers : call'[c].step \in RecipeSteps => call[c].step \in RecipeSteps
  OBVIOUS
<1>4. Sole => Sole'
  BY <1>1 DEF Sole
<1> QED BY <1>1, <1>2, <1>3, <1>4

LEMMA StoringSetsNext ==
  ASSUME NEW r \in RecIds
  PROVE  /\ IsFiniteSet(Storing(r)') /\ Cardinality(Storing(r)') \in Nat
         /\ Cardinality(Storing(r)') <= Cardinality(Callers)
         /\ Sole' /\ r \in Guarded => Cardinality(Storing(r)') <= 1
<1>1. IsFiniteSet(Callers) /\ Storing(r)' \subseteq Callers
  BY HandlersAssumption DEF HandlersAssumption, Storing
<1>2. ASSUME Sole', r \in Guarded PROVE Cardinality(Storing(r)') <= 1
  <2>1. \A c \in Storing(r)' : c \in Callers /\ r \in About(c)'
    BY <1>2 DEF Storing, About
  <2>2. \A c, e \in Storing(r)' : c = e
    BY <1>2, <2>1 DEF Sole
  <2>3. CASE Storing(r)' = {}
    BY <2>3, FS_EmptySet
  <2>4. ASSUME NEW c \in Storing(r)' PROVE Cardinality(Storing(r)') <= 1
    <3>1. Storing(r)' \subseteq {c} /\ IsFiniteSet({c}) /\ Cardinality({c}) = 1
      BY <2>2, FS_Singleton
    <3> QED BY <3>1, FS_Subset
  <2> QED BY <2>3, <2>4
<1> QED BY <1>1, <1>2, FS_Subset, FS_CardinalityType

\* A recipe whose ingredients stay, or are all deleted, while no request is about to add to
\* it that was not before.
LEMMA ListStays ==
  ASSUME TypeOK, ListsInv, NEW r \in LiveRecs, NEW items, items \in {rec[r].items, {}},
         Storing(r)' \subseteq Storing(r)
  PROVE  MadeOf(items, Cardinality(Storing(r)'), Overlap(r))
<1> DEFINE n == Cardinality(Storing(r))
           m == Cardinality(Storing(r)')
           b == Overlap(r)
<1>1. r \in RecIds /\ MadeOf(rec[r].items, n, b)
  BY DEF ListsInv, LiveRecs
<1>2. n \in Nat /\ m \in Nat /\ m <= n /\ b \in Nat
  BY <1>1, StoringSets, StoringSetsNext, FS_Subset
<1> HIDE DEF n, m, b
<1>3. MadeOf(rec[r].items, m, b)
  BY <1>1, <1>2, MadeOfLess
<1>4. MadeOf({}, m, b)
  BY <1>2, <1>3, MadeOfBound, MadeOfNone
<1> QED BY <1>3, <1>4 DEF m, b

LEMMA SoleStep ==
  ASSUME TypeOK, Sole, [Next]_vars
  PROVE  Sole'
<1>1. CASE RecipeRequest
  BY <1>1, RecipeRequestType DEF TypeOK, Sole, About
<1>2. ASSUME NEW c \in Callers, RecipeStep(c) PROVE Sole'
  <2>1. ASSUME NEW r \in RecIds, Admitted(r),
               \E k : k.id = r /\ call' = [call EXCEPT ![c] = k]
        PROVE  Sole'
    <3>1. \A e \in Callers : e # c => About(e)' = About(e) /\ r \notin About(e)
      BY <2>1 DEF About, Admitted, TypeOK
    <3>2. About(c)' \subseteq {r}
      BY <2>1 DEF About, TypeOK
    <3> QED BY <3>1, <3>2 DEF Sole
  <2>2. ASSUME NEW r \in RecIds, NEW items \in Lists, RecipeRead(c, r, items) PROVE Sole'
    BY <2>1, <2>2 DEF RecipeRead, Start
  <2>3. ASSUME NEW r \in RecIds, RecipeRemoveRead(c, r) PROVE Sole'
    BY <2>1, <2>3 DEF RecipeRemoveRead, Start
  <2>4. CASE RecipeClear(c)
    <3>1. call[c] \in [step: {"rec.clear", "rec.store"}, id: RecIds, items: Lists]
      BY <2>4, CallForms DEF RecipeClear
    <3>2. [call[c] EXCEPT !.step = "rec.store"].id = call[c].id
      BY <3>1
    <3>3. \A e \in Callers : About(e)' \subseteq About(e)
      BY <2>4, <3>2 DEF RecipeClear, Goto, About, TypeOK
    <3> QED BY <3>3 DEF Sole
  <2>5. CASE RecipeStore(c) \/ RecipeRefused(c) \/ RecipeDelete(c)
    <3>1. \A e \in Callers : call'[e] = call[e] \/ call'[e].step \notin RecipeSteps
      BY <2>5 DEF RecipeStore, RecipeRefused, RecipeDelete, End, TypeOK, Idle, RecipeSteps
    <3> QED BY <3>1, FewerAbout
  <2> QED BY <1>2, <2>2, <2>3, <2>4, <2>5 DEF RecipeStep
<1>3. CASE ~RecipeRequest /\ \A c \in Callers : ~RecipeStep(c)
  BY <1>3, OtherSteps, FewerAbout
<1> QED BY <1>1, <1>2, <1>3

\* A recipe that has been created keeps a trace.
LEMMA RecipesStay ==
  ASSUME TypeOK, [Next]_vars, NEW r \in RecIds, rec[r] # NoRow
  PROVE  rec'[r] # NoRow
<1>0. /\ rec \in [RecIds -> Recs \cup Vacant] /\ NoRow \notin Recs /\ NoRow # GoneRow
      /\ StocksTypeOK
  BY VacantRows DEF TypeOK, StocksTypeOK, Vacant
<1>1. \A q \in LiveRecs : /\ [rec[q] EXCEPT !.items = {}] # NoRow
                          /\ \A items : [rec[q] EXCEPT !.items = @ \cup items] # NoRow
  <2>1. \A q \in LiveRecs : rec[q] \in Recs
    BY <1>0, LiveStocks
  <2> QED BY <2>1 DEF Recs, NoRow
<1>2. \A q \in RecIds : Emptied(q)[r] # NoRow
  BY <1>0, <1>1 DEF Emptied
<1>3. CASE RecipeRequest
  BY <1>0, <1>3 DEF RecipeRequest, RecipeCreate, ProductDropped, NoRow, GoneRow
<1>4. ASSUME NEW c \in Callers, RecipeStep(c) PROVE rec'[r] # NoRow
  <2>1. CASE RecipeClear(c)
    BY <1>2, <2>1, CallForms DEF RecipeClear
  <2>2. CASE RecipeStore(c)
    BY <1>0, <1>1, <2>2 DEF RecipeStore
  <2>3. CASE RecipeDelete(c)
    BY <1>0, <2>3 DEF RecipeDelete
  <2> QED BY <1>2, <1>4, <2>1, <2>2, <2>3
    DEF RecipeStep, RecipeRead, RecipeRemoveRead, RecipeRefused, stocks
<1>5. CASE ~RecipeRequest /\ \A c \in Callers : ~RecipeStep(c)
  BY <1>5, OtherSteps
<1> QED BY <1>3, <1>4, <1>5

LEMMA KnownStep ==
  ASSUME TypeOK, Known, [Next]_vars
  PROVE  Known'
<1> SUFFICES ASSUME NEW c \in Callers, NEW r, call'[c].step \in RecipeSteps, call'[c].id = r
             PROVE  rec'[r] # NoRow
  BY DEF Known
<1>1. ASSUME call[c].step \in RecipeSteps, call[c].id = r PROVE rec'[r] # NoRow
  BY <1>1, RecipesStay, CallForms DEF Known, RecipeSteps
<1>2. CASE call'[c] = call[c]
  BY <1>1, <1>2
<1>3. ASSUME NEW e \in Callers, RecipeStep(e), call'[c] # call[c] PROVE rec'[r] # NoRow
  <2>1. c = e
    BY <1>3, RecipeStepType DEF CallStep, TypeOK
  <2>2. ASSUME NEW q \in RecIds, q \in LiveRecs, r = q PROVE rec'[r] # NoRow
    BY <2>2, RecipesStay DEF LiveRecs, Vacant
  <2>3. ASSUME NEW q \in RecIds, NEW items \in Lists, RecipeRead(e, q, items)
        PROVE  rec'[r] # NoRow
    BY <2>1, <2>2, <2>3 DEF RecipeRead, Start, TypeOK
  <2>4. ASSUME NEW q \in RecIds, RecipeRemoveRead(e, q) PROVE rec'[r] # NoRow
    BY <2>1, <2>2, <2>4 DEF RecipeRemoveRead, Start, TypeOK
  <2>5. CASE RecipeClear(e)
    <3>1. call[c] \in [step: {"rec.clear", "rec.store"}, id: RecIds, items: Lists]
      BY <2>1, <2>5, CallForms DEF RecipeClear
    <3>2. call'[c] = [call[c] EXCEPT !.step = "rec.store"]
      BY <2>1, <2>5 DEF RecipeClear, Goto, TypeOK
    <3>3. call'[c].id = call[c].id /\ call[c].step \in RecipeSteps
      BY <2>1, <2>5, <3>1, <3>2 DEF RecipeClear, RecipeSteps
    <3> QED BY <1>1, <3>3
  <2>6. CASE RecipeStore(e) \/ RecipeRefused(e) \/ RecipeDelete(e)
    BY <2>1, <2>6 DEF RecipeStore, RecipeRefused, RecipeDelete, End, TypeOK, Idle, RecipeSteps
  <2> QED BY <1>3, <2>3, <2>4, <2>5, <2>6 DEF RecipeStep
<1>4. CASE RecipeRequest
  BY <1>2, <1>4, RecipeRequestType DEF TypeOK
<1>5. CASE ~RecipeRequest /\ \A e \in Callers : ~RecipeStep(e)
  BY <1>2, <1>5, OtherSteps
<1> QED BY <1>2, <1>3, <1>4, <1>5

LEMMA ListsStep ==
  ASSUME TypeOK, Sole, Known, ListsInv, [Next]_vars
  PROVE  ListsInv'
<1> SUFFICES ASSUME NEW r \in RecIds, rec'[r] \notin Vacant
             PROVE  MadeOf(rec'[r].items, Cardinality(Storing(r)'), Overlap(r))
  BY DEF ListsInv, LiveRecs, Overlap
<1>0. StocksTypeOK /\ Sole' /\ rec \in [RecIds -> Recs \cup Vacant]
  BY SoleStep DEF TypeOK, StocksTypeOK
<1>1. ASSUME rec'[r] = rec[r], Storing(r)' \subseteq Storing(r)
      PROVE  MadeOf(rec'[r].items, Cardinality(Storing(r)'), Overlap(r))
  BY <1>1, ListStays DEF LiveRecs
<1>2. ASSUME NEW q \in RecIds, rec' = Emptied(q), Storing(r)' \subseteq Storing(r)
      PROVE  MadeOf(rec'[r].items, Cardinality(Storing(r)'), Overlap(r))
  <2>1. CASE q = r /\ q \in LiveRecs
    <3>1. rec[r] \in Recs
      BY <1>0, <2>1, LiveStocks
    <3>2. rec'[r].items = {}
      BY <1>0, <1>2, <2>1, <3>1 DEF Emptied, Recs
    <3> QED BY <1>2, <2>1, <3>2, ListStays
  <2>2. CASE ~(q = r /\ q \in LiveRecs)
    BY <1>0, <1>1, <1>2, <2>2 DEF Emptied
  <2> QED BY <2>1, <2>2
<1>3. CASE RecipeRequest
  <2>1. call' = call /\ Storing(r)' = Storing(r)
    BY <1>0, <1>3, RecipeRequestType DEF Storing
  <2>2. ASSUME NEW items \in Lists, RecipeCreate(items)
        PROVE  MadeOf(rec'[r].items, Cardinality(Storing(r)'), Overlap(r))
    <3>1. CASE rec[r] = NoRow /\ rec'[r] = [items |-> items]
      <4>1. Storing(r)' = {}
        BY <2>1, <3>1 DEF Known, Storing, RecipeSteps
      <4>2. Cardinality(Storing(r)') = 0
        BY <4>1, FS_EmptySet
      <4>3. rec'[r].items = items
        BY <3>1
      <4> QED BY <4>2, <4>3, MadeOfOne, StoringSets
    <3>2. CASE rec'[r] = rec[r]
      BY <1>1, <2>1, <3>2
    <3> QED BY <1>0, <2>2, <3>1, <3>2 DEF RecipeCreate
  <2>3. ASSUME NEW q \in RecIds, ProductDropped(q) PROVE rec'[r] = rec[r]
    BY <1>0, <2>3 DEF ProductDropped, Vacant
  <2> QED BY <1>1, <1>3, <2>1, <2>2, <2>3 DEF RecipeRequest
<1>4. ASSUME NEW c \in Callers, RecipeStep(c)
      PROVE  MadeOf(rec'[r].items, Cardinality(Storing(r)'), Overlap(r))
  <2>1. ASSUME NEW q \in RecIds, NEW items \in Lists, RecipeRead(c, q, items)
        PROVE  rec' = rec /\ Storing(r)' \subseteq Storing(r)
    BY <2>1 DEF RecipeRead, Start, Storing, stocks, TypeOK
  <2>2. ASSUME NEW q \in RecIds, RecipeRemoveRead(c, q)
        PROVE  rec' = Emptied(q) /\ Storing(r)' \subseteq Storing(r)
    BY <2>2 DEF RecipeRemoveRead, Start, Storing, TypeOK
  <2>3. CASE RecipeClear(c)
    <3>1. call[c] \in [step: {"rec.clear", "rec.store"}, id: RecIds, items: Lists]
      BY <2>3, CallForms DEF RecipeClear
    <3>2. /\ [call[c] EXCEPT !.step = "rec.store"].id = call[c].id
          /\ rec' = Emptied(call[c].id) /\ call[c].id \in RecIds
      BY <2>3, <3>1 DEF RecipeClear
    <3>3. CASE call[c].id = r /\ r \in LiveRecs
      <4>1. rec[r] \in Recs
        BY <1>0, <3>3, LiveStocks
      <4>2. rec'[r].items = {}
        BY <1>0, <3>2, <3>3, <4>1 DEF Emptied, Recs
      <4>3. Cardinality(Storing(r)') \in Nat /\ Cardinality(Storing(r)') <= Overlap(r)
        BY <1>0, StoringSetsNext DEF Overlap
      <4> QED BY <4>2, <4>3, MadeOfNone, StoringSets
    <3>4. CASE call[c].id # r
      <4>1. Storing(r)' \subseteq Storing(r)
        BY <2>3, <3>2, <3>4 DEF RecipeClear, Goto, Storing, TypeOK
      <4> QED BY <1>2, <3>2, <4>1
    <3>5. CASE r \notin LiveRecs
      BY <1>0, <3>2, <3>5 DEF Emptied, LiveRecs
    <3> QED BY <3>3, <3>4, <3>5
  <2>4. CASE RecipeStore(c)
    <3> DEFINE list == call[c].items
    <3>1. list \in Lists /\ Storing(r)' \subseteq Storing(r)
      BY <2>4, CallForms DEF RecipeStore, End, Storing, Idle, TypeOK
    <3>2. CASE call[c].id = r /\ rec'[r] # rec[r]
      <4>1. r \in LiveRecs /\ rec[r] \in Recs
        BY <1>0, <2>4, <3>2, LiveStocks DEF RecipeStore
      <4>2. rec'[r].items = rec[r].items \cup list
        BY <1>0, <2>4, <3>2, <4>1 DEF RecipeStore, Recs
      <4>3. c \in Storing(r) /\ Storing(r)' = Storing(r) \ {c}
        BY <2>4, <3>2 DEF RecipeStore, End, Storing, Idle, TypeOK
      <4>4. /\ IsFiniteSet(Storing(r)) /\ Cardinality(Storing(r)) \in Nat
            /\ Cardinality(Storing(r)') \in Nat /\ Overlap(r) \in Nat
        BY StoringSets, StoringSetsNext
      <4>5. Cardinality(Storing(r)') = Cardinality(Storing(r)) - 1
        BY <4>3, <4>4, FS_RemoveElement
      <4>6. Cardinality(Storing(r)) >= 1
        BY <4>4, <4>5
      <4>7. MadeOf(rec[r].items, Cardinality(Storing(r)), Overlap(r))
        BY <4>1 DEF ListsInv
      <4>8. MadeOf(rec[r].items \cup list, Cardinality(Storing(r)) - 1, Overlap(r))
        BY <3>1, <4>4, <4>6, <4>7, MadeOfMore
      <4> QED BY <4>2, <4>5, <4>8
    <3>3. CASE call[c].id # r
      BY <1>0, <1>1, <2>4, <3>1, <3>3 DEF RecipeStore
    <3> QED BY <1>1, <3>1, <3>2, <3>3
  <2>5. CASE RecipeRefused(c)
    BY <1>1, <2>5 DEF RecipeRefused, End, Storing, Idle, stocks, TypeOK
  <2>6. CASE RecipeDelete(c)
    <3>1. Storing(r)' \subseteq Storing(r)
      BY <2>6 DEF RecipeDelete, End, Storing, Idle, TypeOK
    <3>2. rec'[r] = rec[r]
      BY <1>0, <2>6 DEF RecipeDelete, Vacant
    <3> QED BY <1>1, <3>1, <3>2
  <2> QED BY <1>1, <1>2, <1>4, <2>1, <2>2, <2>3, <2>4, <2>5, <2>6 DEF RecipeStep
<1>5. CASE ~RecipeRequest /\ \A c \in Callers : ~RecipeStep(c)
  BY <1>1, <1>5, OtherSteps, FewerAbout
<1> QED BY <1>3, <1>4, <1>5

RecipeInv == Sole /\ Known /\ ListsInv

(***************************************************************************)
(* However many requests delete and add the ingredients of one recipe, it  *)
(* is never a mixture of more lists than requests can overlap; of a        *)
(* recipe with one request at a time, it is one list or empty.             *)
(***************************************************************************)
THEOREM FewListsAlwaysMix == Spec => []FewListsMix
<1>1. Init => TypeOK /\ RecipeInv
  <2> SUFFICES ASSUME Init PROVE RecipeInv
    BY InitType
  <2>1. Sole /\ Known
    BY DEF Init, HandlersInit, Idle, Sole, About, Known, RecipeSteps
  <2>2. LiveRecs = {}
    BY DEF Init, StocksInit, LiveRecs, Vacant
  <2> QED BY <2>1, <2>2 DEF ListsInv, RecipeInv
<1>2. TypeOK /\ RecipeInv /\ [Next]_vars => (TypeOK /\ RecipeInv)'
  BY StepType, SoleStep, KnownStep, ListsStep DEF RecipeInv
<1>3. TypeOK /\ RecipeInv => FewListsMix
  <2> SUFFICES ASSUME TypeOK, RecipeInv, NEW r \in LiveRecs
               PROVE  \E few \in SUBSET Lists :
                        Cardinality(few) <= Overlap(r) /\ rec[r].items = UNION few
    BY DEF FewListsMix
  <2>1. r \in RecIds /\ MadeOf(rec[r].items, Cardinality(Storing(r)), Overlap(r))
    BY DEF RecipeInv, ListsInv, LiveRecs
  <2>2. PICK few \in SUBSET Lists :
          /\ IsFiniteSet(few) /\ rec[r].items = UNION few
          /\ Cardinality(few) + Cardinality(Storing(r)) <= Overlap(r)
    BY <2>1 DEF MadeOf
  <2>3. Cardinality(few) \in Nat /\ Cardinality(Storing(r)) \in Nat /\ Overlap(r) \in Nat
    BY <2>1, <2>2, FS_CardinalityType, StoringSets
  <2> QED BY <2>2, <2>3
<1> QED BY <1>1, <1>2, <1>3, PTL DEF Spec

-----------------------------------------------------------------------------
(* Movements and the stock of their items *)

\* An item that has been created is never created again, is not deleted while a movement
\* refers to it, and loses no stock when it is filling.
LEMMA ItemsFill ==
  ASSUME TypeOK, [Next]_vars, NEW i \in ItemIds, item[i] # NoRow
  PROVE  /\ item'[i] # NoRow
         /\ i \in LiveItems' => i \in LiveItems
         /\ i \in LiveItems' /\ i \in Filling => item'[i].stock >= item[i].stock
         /\ i \in LiveItems /\ UsesOf(i) # {} => i \in LiveItems'
<1>0. /\ item \in [ItemIds -> Items \cup Vacant] /\ StocksTypeOK
      /\ NoRow # GoneRow /\ NoRow \notin Items /\ GoneRow \notin Items
  BY VacantRows DEF TypeOK, StocksTypeOK, Vacant
<1>1. i \in LiveItems => item[i] \in Items /\ item[i].stock \in Nat
  BY <1>0, LiveStocks DEF Items
<1>2. ASSUME item'[i] = item[i] PROVE i \in LiveItems' <=> i \in LiveItems
  BY <1>2 DEF LiveItems
<1>3. ASSUME i \in LiveItems, item'[i] \in Items,
             item'[i].stock = item[i].stock \/ (i \in Filling => item'[i].stock >= item[i].stock)
      PROVE  /\ item'[i] # NoRow /\ i \in LiveItems'
             /\ i \in Filling => item'[i].stock >= item[i].stock
  BY <1>0, <1>1, <1>3 DEF LiveItems, Vacant
<1>4. CASE item'[i] = item[i]
  BY <1>1, <1>2, <1>4
<1>5. ASSUME ItemRequest, item'[i] # item[i]
      PROVE  /\ i \in LiveItems /\ item'[i] \in Items
             /\ item'[i].stock = item[i].stock \/ (i \in Filling => item'[i].stock >= item[i].stock)
  <2>1. ASSUME NEW s \in OrNull(SupIds), ItemCreate(s) PROVE FALSE
    BY <1>0, <1>5, <2>1 DEF ItemCreate
  <2>2. ASSUME NEW j \in ItemIds, NEW s \in Optional(OrNull(SupIds)), NEW active \in Optional(Flags),
               ItemUpdate(j, s, active)
        PROVE  i \in LiveItems /\ item'[i] \in Items /\ item'[i].stock = item[i].stock
    <3>1. i = j /\ i \in LiveItems /\ item'[i] = PatchedItem(item[i], s, active)
      BY <1>0, <1>5, <2>2 DEF ItemUpdate
    <3>2. PatchedItem(item[i], s, active) \in Items
      BY <1>1, <3>1, PatchedItemType
    <3> QED BY <3>1, <3>2 DEF PatchedItem
  <2>3. ASSUME NEW j \in ItemIds, NEW stock \in 0..MaxStock, SetStock(j, stock)
        PROVE  /\ i \in LiveItems /\ item'[i] \in Items
               /\ i \in Filling => item'[i].stock >= item[i].stock
    <3>1. i = j /\ i \in LiveItems /\ item'[i] = [item[i] EXCEPT !.stock = stock]
          /\ (i \in Filling => stock >= item[i].stock)
      BY <1>0, <1>5, <2>3 DEF SetStock
    <3>2. item'[i] \in Items /\ item'[i].stock = stock
      BY <1>1, <3>1 DEF Items
    <3> QED BY <3>1, <3>2
  <2> QED BY <1>5, <2>1, <2>2, <2>3 DEF ItemRequest
<1>6. ASSUME NEW c \in Callers, SupplierStep(c), item'[i] # item[i]
      PROVE  i \in LiveItems /\ item'[i] \in Items /\ item'[i].stock = item[i].stock
  <2>1. i \in LiveItems /\ item'[i] = [item[i] EXCEPT !.sup = Null]
    BY <1>0, <1>6
    DEF SupplierStep, SupplierRemoveRead, SupplierHide, SupplierDelete, stocks, ItemsOf
  <2> QED BY <1>1, <2>1 DEF Items, OrNull
<1>7. ASSUME NEW c \in Callers, ItemStep(c), item'[i] # item[i]
      PROVE  \/ i \in LiveItems /\ item'[i] \in Items /\ item'[i].stock = item[i].stock
             \/ i \in LiveItems /\ UsesOf(i) = {} /\ item'[i] = GoneRow
  <2>1. CASE ItemHide(c)
    <3>1. i \in LiveItems /\ item'[i] = [item[i] EXCEPT !.active = FALSE]
      BY <1>0, <1>7, <2>1 DEF ItemHide
    <3> QED BY <1>1, <3>1 DEF Items
  <2>2. CASE ItemDelete(c)
    BY <1>0, <1>7, <2>2 DEF ItemDelete
  <2> QED BY <1>7, <2>1, <2>2 DEF ItemStep, ItemRemoveRead, stocks
<1>8. ASSUME i \in LiveItems, UsesOf(i) = {}, item'[i] = GoneRow
      PROVE  item'[i] # NoRow /\ i \notin LiveItems'
  BY <1>0, <1>8 DEF LiveItems, Vacant
<1>9. ASSUME NEW c \in Callers, MovementStep(c) \/ RecipeStep(c) PROVE item' = item
  BY <1>9, MovementStepType, RecipeStepType
<1>10. ASSUME SupplierRequest \/ MovementRequest \/ RecipeRequest PROVE item' = item
  BY <1>0, <1>10, MovementRequestType, RecipeRequestType
  DEF SupplierRequest, SupplierCreate, SupplierUpdate
<1> QED
  BY <1>3, <1>4, <1>5, <1>6, <1>7, <1>8, <1>9, <1>10, StepKinds DEF stocks

\* Movements refer to items that are there, and what a request is about to take was in
\* stock when it looked.
Refer == \A m \in LiveMoves : move[m].item \in LiveItems
Held == \A c \in Callers : call[c].step = "move.insert" =>
  /\ call[c].row.type = "OUT"
  /\ item[call[c].row.item] # NoRow
  /\ call[c].row.item \in LiveItems \cap Filling =>
       call[c].row.quantity <= item[call[c].row.item].stock

\* How a movement that is there after a step came to be.
LEMMA MovementRows ==
  ASSUME TypeOK, [Next]_vars, NEW m \in LiveMoves'
  PROVE  \/ m \in LiveMoves /\ move'[m] = move[m]
         \/ item' = item /\ move'[m].item \in LiveItems /\ move'[m].type # "OUT"
         \/ /\ item' = item /\ move'[m].item \in LiveItems
            /\ \E c \in Callers : call[c].step = "move.insert" /\ move'[m] = call[c].row
         \/ item' = item /\ m \notin Settled /\ (Refer => move'[m].item \in LiveItems)
<1>0. /\ StocksTypeOK /\ move \in [MoveIds -> Moves \cup Vacant]
      /\ m \in MoveIds /\ move'[m] \notin Vacant
  BY DEF TypeOK, StocksTypeOK, LiveMoves
<1>1. move'[m] = move[m] => m \in LiveMoves
  BY <1>0 DEF LiveMoves
<1>2. CASE MovementRequest
  <2>0. item' = item
    BY <1>0, <1>2, MovementRequestType
  <2>1. ASSUME NEW row \in NewMoves, MovementCreate(row), move'[m] # move[m]
        PROVE  move'[m].item \in LiveItems /\ move'[m].type # "OUT"
    BY <1>0, <2>1 DEF MovementCreate, Recorded
  <2>2. ASSUME NEW n \in MoveIds, NEW patch \in MovePatches, MovementUpdate(n, patch),
               move'[m] # move[m]
        PROVE  m \notin Settled /\ (Refer => move'[m].item \in LiveItems)
    <3>1. m = n /\ m \in LiveMoves \ Settled /\ patch.item \in Optional(LiveItems)
          /\ move'[m] = PatchedMovement(move[m], patch)
      BY <1>0, <2>2 DEF MovementUpdate
    <3>2. move'[m].item = Given(move[m].item, patch.item)
      BY <3>1 DEF PatchedMovement
    <3> QED BY <3>1, <3>2 DEF Refer, Given, Optional
  <2>3. ASSUME NEW n \in MoveIds, MovementRemove(n) PROVE move'[m] = move[m]
    BY <1>0, <2>3 DEF MovementRemove, Vacant
  <2> QED BY <1>1, <1>2, <2>0, <2>1, <2>2, <2>3 DEF MovementRequest
<1>3. ASSUME NEW c \in Callers, MovementStep(c), move'[m] # move[m]
      PROVE  /\ item' = item /\ move'[m].item \in LiveItems
             /\ call[c].step = "move.insert" /\ move'[m] = call[c].row
  BY <1>0, <1>3 DEF MovementStep, MovementRead, MovementInsert, Recorded, stocks
<1>4. ASSUME SupplierRequest \/ ItemRequest \/ RecipeRequest PROVE move' = move
  BY <1>0, <1>4, ItemRequestType, RecipeRequestType
  DEF SupplierRequest, SupplierCreate, SupplierUpdate
<1>5. ASSUME NEW c \in Callers, SupplierStep(c) \/ ItemStep(c) \/ RecipeStep(c) PROVE move' = move
  BY <1>5, SupplierStepType, ItemStepType, RecipeStepType
<1> QED BY <1>1, <1>2, <1>3, <1>4, <1>5, StepKinds DEF stocks

LEMMA ReferStep ==
  ASSUME TypeOK, Refer, [Next]_vars
  PROVE  Refer'
<1> SUFFICES ASSUME NEW m \in LiveMoves' PROVE move'[m].item \in LiveItems'
  BY DEF Refer
<1>1. CASE m \in LiveMoves /\ move'[m] = move[m]
  <2> DEFINE i == move[m].item
  <2>1. i \in LiveItems /\ i \in ItemIds /\ m \in UsesOf(i)
    BY <1>1 DEF Refer, LiveItems, UsesOf
  <2>2. item[i] # NoRow
    BY <2>1 DEF LiveItems, Vacant
  <2> QED BY <1>1, <2>1, <2>2, ItemsFill
<1>2. CASE item' = item /\ move'[m].item \in LiveItems
  BY <1>2 DEF LiveItems
<1> QED BY <1>1, <1>2, MovementRows

LEMMA HeldStep ==
  ASSUME TypeOK, Held, [Next]_vars
  PROVE  Held'
<1> SUFFICES ASSUME NEW c \in Callers, call'[c].step = "move.insert", NEW row, row = call'[c].row
             PROVE  /\ row.type = "OUT"
                    /\ item'[row.item] # NoRow
                    /\ row.item \in LiveItems' /\ row.item \in Filling
                         => row.quantity <= item'[row.item].stock
  BY DEF Held, LiveItems
<1>1. CASE call'[c] = call[c]
  <2>1. row \in Moves /\ row.item \in ItemIds /\ row.quantity \in Nat
    BY <1>1, CallForms DEF Moves
  <2>2. /\ row.type = "OUT" /\ item[row.item] # NoRow
        /\ row.item \in LiveItems \cap Filling => row.quantity <= item[row.item].stock
    BY <1>1 DEF Held
  <2>3. ASSUME row.item \in LiveItems', row.item \in Filling
        PROVE  row.quantity <= item'[row.item].stock
    <3>1. row.item \in LiveItems /\ item'[row.item].stock >= item[row.item].stock
      BY <2>1, <2>2, <2>3, ItemsFill
    <3>2. item[row.item].stock \in Nat
      BY <3>1, LiveStocks DEF TypeOK, Items
    <3>3. item'[row.item].stock \in Nat
      <4>1. StocksTypeOK'
        BY StepType DEF TypeOK
      <4> QED BY <2>1, <2>3, <4>1 DEF StocksTypeOK, LiveItems, Items
    <3> QED BY <2>1, <2>2, <2>3, <3>1, <3>2, <3>3
  <2> QED BY <2>1, <2>2, <2>3, ItemsFill
<1>2. ASSUME NEW e \in Callers, MovementStep(e), call'[c] # call[c]
      PROVE  \E q \in NewMoves : MovementRead(e, q) /\ row = q
  BY <1>2 DEF MovementStep, MovementRead, MovementInsert, Start, End, Idle, TypeOK
<1>3. ASSUME NEW e \in Callers, NEW q \in NewMoves, MovementRead(e, q), row = q
      PROVE  /\ row.type = "OUT" /\ item'[row.item] # NoRow
             /\ row.quantity <= item'[row.item].stock
  <2>1. row.item \in LiveItems /\ item' = item /\ item[row.item].stock >= row.quantity
        /\ row.type = "OUT"
    BY <1>3 DEF MovementRead, stocks
  <2>2. item[row.item].stock \in Nat /\ row.quantity \in Nat
    BY <1>3, <2>1, LiveStocks, StockAssumption DEF StockAssumption, TypeOK, Items, NewMoves
  <2> QED BY <2>1, <2>2 DEF LiveItems, Vacant
<1>4. ASSUME NEW e \in Callers, SupplierStep(e) \/ ItemStep(e) \/ RecipeStep(e)
      PROVE  call'[c] = call[c]
  <2>1. PICK k \in SupplierCalls \cup ItemCalls \cup RecipeCalls : CallStep(e, k)
    BY <1>4, SupplierStepType, ItemStepType, RecipeStepType
  <2>2. k.step # "move.insert"
    BY DEF SupplierCalls, ItemCalls, RecipeCalls, Idle
  <2> QED BY <2>1, <2>2 DEF CallStep, TypeOK
<1>5. ASSUME call'[c] \in {Idle} \cup TillCalls PROVE FALSE
  BY <1>5 DEF Idle, TillCalls
<1> QED BY <1>1, <1>2, <1>3, <1>4, <1>5, StepKinds

LEMMA OutsFitStep ==
  ASSUME TypeOK, Refer, Held, OutsFitStock, [Next]_vars
  PROVE  OutsFitStock'
<1> SUFFICES ASSUME NEW m \in LiveMoves', m \in Settled,
                    move'[m].type = "OUT", move'[m].item \in Filling
             PROVE  move'[m].quantity <= item'[move'[m].item].stock
  BY DEF OutsFitStock, LiveMoves
<1>1. CASE m \in LiveMoves /\ move'[m] = move[m]
  <2> DEFINE i == move[m].item
  <2>1. /\ i \in LiveItems /\ i \in ItemIds /\ m \in UsesOf(i)
        /\ move[m].quantity \in Nat /\ move[m].quantity <= item[i].stock
    BY <1>1, LiveStocks DEF Refer, LiveItems, UsesOf, OutsFitStock, TypeOK, Moves
  <2>2. item[i] # NoRow /\ item[i].stock \in Nat
    BY <2>1, LiveStocks DEF LiveItems, Vacant, TypeOK, Items
  <2>3. i \in LiveItems' /\ item'[i].stock >= item[i].stock
    BY <1>1, <2>1, <2>2, ItemsFill
  <2>4. item'[i].stock \in Nat
    <3>1. StocksTypeOK'
      BY StepType DEF TypeOK
    <3> QED BY <2>1, <2>3, <3>1 DEF StocksTypeOK, LiveItems, Items
  <2> QED BY <1>1, <2>1, <2>2, <2>3, <2>4
<1>2. ASSUME item' = item, move'[m].item \in LiveItems,
             NEW c \in Callers, call[c].step = "move.insert", move'[m] = call[c].row
      PROVE  move'[m].quantity <= item'[move'[m].item].stock
  BY <1>2 DEF Held
<1> QED BY <1>1, <1>2, MovementRows

(***************************************************************************)
(* A movement out that clients never change is covered by the stock of its *)
(* item, for as long as the item exists and is only filled.                *)
(***************************************************************************)
THEOREM OutsAlwaysFit == Spec => []OutsFitStock
<1> DEFINE Inv == Refer /\ Held /\ OutsFitStock
<1>1. Init => TypeOK /\ Inv
  <2> SUFFICES ASSUME Init PROVE Inv
    BY InitType
  <2>1. LiveMoves = {}
    BY DEF Init, StocksInit, LiveMoves, Vacant
  <2>2. Held
    BY DEF Init, HandlersInit, Idle, Held
  <2> QED BY <2>1, <2>2 DEF Refer, OutsFitStock
<1>2. TypeOK /\ Inv /\ [Next]_vars => (TypeOK /\ Inv)'
  BY StepType, ReferStep, HeldStep, OutsFitStep
<1> QED BY <1>1, <1>2, PTL DEF Spec

-----------------------------------------------------------------------------
(***************************************************************************)
(* Sums over a finite set, as MapThenSumSet computes them: a function of   *)
(* the subsets that takes out one chosen element after the other.          *)
(***************************************************************************)
One(s) == CHOOSE x \in s : TRUE
Adds(g, w, S) == g = [s \in SUBSET S |-> IF s = {} THEN 0 ELSE w[One(s)] + g[s \ {One(s)}]]

\* Among subsets of a finite set there are smallest ones.
LEMMA SmallestSubset ==
  ASSUME NEW S, IsFiniteSet(S), NEW T, T \subseteq SUBSET S, T # {}
  PROVE  \E s \in T : \A r \in T : ~ (r \subseteq s /\ r # s)
<1>1. IsWellFoundedOn(StrictSubsetOrdering(S), SUBSET S)
  BY FS_StrictSubsetOrderingWellFounded, FS_FiniteSubsetsOfFinite
<1>2. PICK s \in T : \A r \in T : ~ (<<r, s>> \in StrictSubsetOrdering(S))
  BY <1>1, WFMin
<1>3. ASSUME NEW r \in T, r \subseteq s, r # s PROVE FALSE
  <2>1. <<r, s>> \in (SUBSET S) \X (SUBSET S)
    BY <1>3
  <2>2. <<r, s>> \in StrictSubsetOrdering(S)
    BY <2>1, <1>3 DEF StrictSubsetOrdering
  <2> QED BY <1>2, <2>2
<1> QED BY <1>2, <1>3

LEMMA OneIsIn ==
  ASSUME NEW s, s # {}
  PROVE  One(s) \in s
BY DEF One

\* What the sum of a subset is made of.
LEMMA AddsStep ==
  ASSUME NEW g, NEW w, NEW S, Adds(g, w, S), NEW s \in SUBSET S
  PROVE  /\ s = {} => g[s] = 0
         /\ s # {} => One(s) \in s /\ g[s] = w[One(s)] + g[s \ {One(s)}]
<1>1. g[s] = IF s = {} THEN 0 ELSE w[One(s)] + g[s \ {One(s)}]
  BY DEF Adds
<1> QED BY <1>1, OneIsIn

\* A sum depends on the elements summed up only.
LEMMA SumsAgree ==
  ASSUME NEW S, IsFiniteSet(S), NEW g, NEW v, NEW A, Adds(g, v, A), NEW h, NEW w, NEW B, Adds(h, w, B),
         S \subseteq A, S \subseteq B, \A x \in S : v[x] = w[x]
  PROVE  g[S] = h[S]
<1> DEFINE T == {s \in SUBSET S : g[s] # h[s]}
<1>1. SUFFICES ASSUME T # {} PROVE FALSE
  OBVIOUS
<1>2. PICK s \in T : \A r \in T : ~ (r \subseteq s /\ r # s)
  <2>1. T \subseteq SUBSET S
    OBVIOUS
  <2> HIDE DEF T
  <2> QED BY <1>1, <2>1, SmallestSubset
<1>3. s \in SUBSET A /\ s \in SUBSET B
  BY <1>2
<1>4. s # {}
  BY <1>2, <1>3, AddsStep
<1>5. One(s) \in s /\ v[One(s)] = w[One(s)]
  BY <1>4, OneIsIn, <1>2
<1>6. g[s \ {One(s)}] = h[s \ {One(s)}]
  BY <1>2, <1>5
<1>7. g[s] = v[One(s)] + g[s \ {One(s)}]
  BY <1>3, <1>4, AddsStep
<1>8. h[s] = w[One(s)] + h[s \ {One(s)}]
  BY <1>3, <1>4, AddsStep
<1> QED BY <1>2, <1>5, <1>6, <1>7, <1>8

\* The function exists: the sums of smaller sets make up those of a set.
LEMMA SumsExist ==
  ASSUME NEW S, IsFiniteSet(S), NEW w
  PROVE  \E g : Adds(g, w, S)
<1> DEFINE T == {s \in SUBSET S : ~ \E g : Adds(g, w, s)}
<1>1. SUFFICES ASSUME T # {} PROVE FALSE
  BY DEF Adds
<1>2. PICK s \in T : \A r \in T : ~ (r \subseteq s /\ r # s)
  <2>1. T \subseteq SUBSET S
    OBVIOUS
  <2> HIDE DEF T
  <2> QED BY <1>1, <2>1, SmallestSubset
<1> DEFINE Of(r) == CHOOSE g : Adds(g, w, r)
           Value(r) == Of(r)[r]
           all == [r \in SUBSET s |-> IF r = {} THEN 0 ELSE w[One(r)] + Value(r \ {One(r)})]
<1>3. \A r \in SUBSET s : r # s => Adds(Of(r), w, r)
  <2> SUFFICES ASSUME NEW r \in SUBSET s, r # s PROVE Adds(Of(r), w, r)
    OBVIOUS
  <2>1. \E g : Adds(g, w, r)
    BY <1>2
  <2> QED BY <2>1
<1> HIDE DEF T, Of
<1>4. ASSUME NEW r \in SUBSET s, r # s PROVE all[r] = Value(r)
  <2>1. Adds(Of(r), w, r) /\ r \in SUBSET r
    BY <1>3, <1>4
  <2>2. CASE r = {}
    BY <2>1, <2>2, AddsStep
  <2>3. CASE r # {}
    <3> DEFINE q == r \ {One(r)}
    <3>1. One(r) \in r /\ Of(r)[r] = w[One(r)] + Of(r)[q]
      BY <2>1, <2>3, AddsStep
    <3>2. q \in SUBSET s /\ q # s /\ q \subseteq r /\ q \subseteq q
      BY <3>1
    <3>3. Adds(Of(q), w, q)
      BY <3>2, <1>3
    <3>4. IsFiniteSet(q)
      <4>1. q \subseteq S
        BY <3>2, <1>2 DEF T
      <4> HIDE DEF q
      <4> QED BY <4>1, FS_Subset
    <3>5. Of(r)[q] = Of(q)[q]
      <4> HIDE DEF q
      <4> QED BY <2>1, <3>2, <3>3, <3>4, SumsAgree
    <3>6. all[r] = w[One(r)] + Value(q)
      BY <2>3
    <3> QED BY <3>1, <3>5, <3>6
  <2> QED BY <2>2, <2>3
<1>5. Adds(all, w, s)
  <2>1. ASSUME NEW r \in SUBSET s
        PROVE  all[r] = IF r = {} THEN 0 ELSE w[One(r)] + all[r \ {One(r)}]
    <3>1. CASE r = {}
      BY <3>1
    <3>2. CASE r # {}
      <4>1. One(r) \in r
        BY <3>2, OneIsIn
      <4>2. r \ {One(r)} \in SUBSET s /\ r \ {One(r)} # s
        BY <4>1
      <4>3. all[r \ {One(r)}] = Value(r \ {One(r)})
        BY <4>2, <1>4
      <4> QED BY <3>2, <4>3
    <3> QED BY <3>1, <3>2
  <2>2. all = [r \in SUBSET s |-> all[r]]
    OBVIOUS
  <2> HIDE DEF all
  <2> QED BY <2>1, <2>2 DEF Adds
<1> QED BY <1>2, <1>5 DEF T

LEMMA SumIsInteger ==
  ASSUME NEW S, IsFiniteSet(S), NEW w, \A x \in S : w[x] \in Int, NEW g, Adds(g, w, S)
  PROVE  \A s \in SUBSET S : g[s] \in Int
<1> DEFINE T == {s \in SUBSET S : g[s] \notin Int}
<1>1. SUFFICES ASSUME T # {} PROVE FALSE
  OBVIOUS
<1>2. PICK s \in T : \A r \in T : ~ (r \subseteq s /\ r # s)
  <2>1. T \subseteq SUBSET S
    OBVIOUS
  <2> HIDE DEF T
  <2> QED BY <1>1, <2>1, SmallestSubset
<1>3. s # {}
  <2>1. s = {} => g[s] = 0
    BY <1>2, AddsStep
  <2> QED BY <1>2, <2>1
<1>4. One(s) \in s /\ g[s] = w[One(s)] + g[s \ {One(s)}]
  BY <1>2, <1>3, AddsStep
<1>5. g[s \ {One(s)}] \in Int /\ w[One(s)] \in Int
  BY <1>2, <1>4
<1> QED BY <1>2, <1>4, <1>5

\* Any element may be added last, because addition does not mind the order.
LEMMA AnyLast ==
  ASSUME NEW S, IsFiniteSet(S), NEW w, \A x \in S : w[x] \in Int, NEW g, Adds(g, w, S)
  PROVE  \A s \in SUBSET S : \A x \in s : g[s] = w[x] + g[s \ {x}]
<1> DEFINE T == {s \in SUBSET S : \E x \in s : g[s] # w[x] + g[s \ {x}]}
<1>1. SUFFICES ASSUME T # {} PROVE FALSE
  OBVIOUS
<1>2. PICK s \in T : \A r \in T : ~ (r \subseteq s /\ r # s)
  <2>1. T \subseteq SUBSET S
    OBVIOUS
  <2> HIDE DEF T
  <2> QED BY <1>1, <2>1, SmallestSubset
<1>3. PICK x \in s : g[s] # w[x] + g[s \ {x}]
  BY <1>2
<1> DEFINE c == One(s)
<1>4. c \in s /\ g[s] = w[c] + g[s \ {c}]
  BY <1>2, <1>3, AddsStep
<1>5. c # x
  BY <1>3, <1>4
<1> DEFINE rest == s \ {c, x}
<1> HIDE DEF c
<1>6. g[s \ {c}] = w[x] + g[rest]
  <2>1. s \ {c} \in SUBSET S /\ s \ {c} # s /\ x \in s \ {c} /\ (s \ {c}) \ {x} = rest
    BY <1>4, <1>5, <1>2
  <2> QED BY <2>1, <1>2
<1>7. g[s \ {x}] = w[c] + g[rest]
  <2>1. s \ {x} \in SUBSET S /\ s \ {x} # s /\ c \in s \ {x} /\ (s \ {x}) \ {c} = rest
    BY <1>4, <1>5, <1>2
  <2> QED BY <2>1, <1>2
<1>8. w[c] \in Int /\ w[x] \in Int /\ g[rest] \in Int
  BY <1>2, <1>4, SumIsInteger
<1> QED BY <1>3, <1>4, <1>6, <1>7, <1>8

\* What adds nothing may be left out.
LEMMA ZerosDropped ==
  ASSUME NEW S, IsFiniteSet(S), NEW w, \A x \in S : w[x] \in Int, NEW g, Adds(g, w, S),
         NEW u \in SUBSET S, \A x \in S \ u : w[x] = 0
  PROVE  g[S] = g[u]
<1> DEFINE T == {s \in SUBSET S : u \subseteq s /\ g[s] # g[u]}
<1>1. SUFFICES ASSUME T # {} PROVE FALSE
  OBVIOUS
<1>2. PICK s \in T : \A r \in T : ~ (r \subseteq s /\ r # s)
  <2>1. T \subseteq SUBSET S
    OBVIOUS
  <2> HIDE DEF T
  <2> QED BY <1>1, <2>1, SmallestSubset
<1>3. PICK x \in s : x \notin u
  <2>1. u \subseteq s /\ s # u
    BY <1>2
  <2> QED BY <2>1
<1>4. g[s] = w[x] + g[s \ {x}] /\ w[x] = 0 /\ g[s \ {x}] \in Int
  <2>1. g[s] = w[x] + g[s \ {x}]
    BY <1>2, AnyLast
  <2>2. g[s \ {x}] \in Int
    BY <1>2, SumIsInteger
  <2> QED BY <2>1, <2>2, <1>2, <1>3
<1>5. g[s \ {x}] = g[u]
  BY <1>2, <1>3
<1> QED BY <1>2, <1>4, <1>5

-----------------------------------------------------------------------------
(***************************************************************************)
(* Several taxes cost what they cost one by one.  A client may name any    *)
(* number of them, but only finitely many are ever on record.              *)
(***************************************************************************)
TaxRows == IsFiniteSet(LiveTaxes)

LEMMA FewTaxes ==
  ASSUME TypeOK, TaxRows, [Next]_vars
  PROVE  TaxRows'
<1>1. CASE \E rate \in Rates, active \in BOOLEAN : TaxCreate(rate, active)
  <2>1. PICK t \in TaxIds : \E row : tax' = [tax EXCEPT ![t] = row]
    BY <1>1 DEF TaxCreate
  <2>2. LiveTaxes' \subseteq LiveTaxes \cup {t}
    BY <2>1 DEF TypeOK, PricesTypeOK, LiveTaxes
  <2> QED BY <2>2, FS_Subset, FS_AddElement DEF TaxRows
<1>2. ASSUME NEW t \in TaxIds,
             \/ TaxRemove(t)
             \/ \E rate \in Optional(Rates), active \in Optional(BOOLEAN) : TaxUpdate(t, rate, active)
      PROVE  TaxRows'
  <2>1. PICK row : t \in LiveTaxes /\ tax' = [tax EXCEPT ![t] = row]
    BY <1>2 DEF TaxUpdate, TaxRemove
  <2>2. LiveTaxes' \subseteq LiveTaxes
    BY <2>1 DEF TypeOK, PricesTypeOK, LiveTaxes
  <2> QED BY <2>2, FS_Subset DEF TaxRows
<1>3. CASE tax' = tax
  BY <1>3 DEF TaxRows, LiveTaxes
<1>4. DiscountRequest => tax' = tax
  BY DEF DiscountRequest, DiscountCreate, DiscountUpdate, DiscountSwitch, DiscountRemove
<1>5. \A c \in Callers : DiscountUse(c) => tax' = tax
  BY DEF DiscountUse, CalculateDiscount, IncrementUsage, Abandon
<1> QED BY <1>1, <1>2, <1>3, <1>4, <1>5 DEF Next, PricesNext, TaxRequest, Tick, vars, prices

\* The function by which the model adds up, as the CHOOSE it stands for.
LEMMA TotalIsSum ==
  ASSUME NEW ids, NEW subtotal, IsFiniteSet(Charged(ids))
  PROVE  \E g : /\ Adds(g, Breakdown(ids, subtotal), Charged(ids))
                /\ Total(ids, subtotal) = g[Charged(ids)]
<1> DEFINE parts == Breakdown(ids, subtotal)
           S == Charged(ids)
           Body(g) == [s \in SUBSET S |-> IF s = {} THEN 0
                         ELSE LET x == CHOOSE x \in s : TRUE IN parts[x] + g[s \ {x}]]
           sum == CHOOSE g : g = Body(g)
<1>1. DOMAIN parts = S
  BY DEF Breakdown
<1>2. Total(ids, subtotal) = sum[S]
  BY <1>1 DEF Total, MapThenSumSet, MapThenFoldSet
<1>3. \A g : g = Body(g) <=> Adds(g, parts, S)
  BY DEF Adds, One
<1>4. \E g : g = Body(g)
  <2>1. PICK g : Adds(g, parts, S)
    BY SumsExist
  <2>2. g = Body(g)
    BY <2>1, <1>3
  <2> QED BY <2>2
<1>5. sum = Body(sum)
  <2> HIDE DEF Body
  <2> QED BY <1>4
<1>6. Adds(sum, parts, S)
  <2> HIDE DEF sum, Body
  <2> QED BY <1>3, <1>5
<1> QED BY <1>2, <1>6

\* A tax that is off answers nothing, and is not charged.
LEMMA OneByOneAddsUp ==
  ASSUME TypeOK, TaxRows, NEW ids \in SUBSET TaxIds, NEW subtotal \in Subtotals
  PROVE  LET Alone(t) == CalculateTax(t, subtotal) IN
         Total(ids, subtotal) = MapThenSumSet(Alone, ids \cap LiveTaxes)
<1> DEFINE Alone(t) == CalculateTax(t, subtotal)
           S == ids \cap LiveTaxes
           w == [t \in S |-> CalculateTax(t, subtotal)]
<1>1. IsFiniteSet(S)
  BY FS_Subset DEF TaxRows
<1>2. Charged(ids) \subseteq S /\ IsFiniteSet(Charged(ids))
  <2>1. Charged(ids) \subseteq S
    BY DEF Charged
  <2> QED BY <2>1, <1>1, FS_Subset
<1>3. \A t \in S : /\ w[t] \in Int
                   /\ t \in Charged(ids) => w[t] = Breakdown(ids, subtotal)[t]
                   /\ t \notin Charged(ids) => w[t] = 0
  <2> SUFFICES ASSUME NEW t \in S
               PROVE  /\ w[t] \in Int
                      /\ t \in Charged(ids) => w[t] = Breakdown(ids, subtotal)[t]
                      /\ t \notin Charged(ids) => w[t] = 0
    OBVIOUS
  <2>1. tax[t] \in Taxes
    BY LivePrices DEF TypeOK
  <2>2. tax[t].rate \in Int /\ tax[t].active \in BOOLEAN
    BY <2>1 DEF Taxes
  <2>3. subtotal \in Int
    BY PricingAssumption DEF PricingAssumption
  <2>4. subtotal * tax[t].rate \in Int
    BY <2>2, <2>3
  <2>5. w[t] = IF tax[t].active THEN subtotal * tax[t].rate ELSE 0
    BY DEF CalculateTax
  <2>6. t \in Charged(ids) <=> tax[t].active
    BY DEF Charged
  <2>7. t \in Charged(ids) => Breakdown(ids, subtotal)[t] = subtotal * tax[t].rate
    BY DEF Breakdown
  <2> HIDE DEF w, S
  <2>8. CASE tax[t].active
    BY <2>4, <2>5, <2>6, <2>7, <2>8
  <2>9. CASE ~tax[t].active
    BY <2>5, <2>6, <2>9
  <2> QED BY <2>8, <2>9
<1>4. PICK r : Adds(r, Breakdown(ids, subtotal), Charged(ids)) /\ Total(ids, subtotal) = r[Charged(ids)]
  BY <1>2, TotalIsSum
<1>5. PICK h : Adds(h, w, S) /\ MapThenSumSet(Alone, S) = h[S]
  <2> DEFINE Body(g) == [s \in SUBSET S |-> IF s = {} THEN 0
                           ELSE LET x == CHOOSE x \in s : TRUE IN Alone(x) + g[s \ {x}]]
             sum == CHOOSE g : g = Body(g)
  <2>1. MapThenSumSet(Alone, S) = sum[S]
    <3> HIDE DEF Alone, S
    <3> QED BY DEF MapThenSumSet, MapThenFoldSet
  <2>2. ASSUME NEW g PROVE g = Body(g) <=> Adds(g, w, S)
    <3>1. Body(g) = [s \in SUBSET S |-> IF s = {} THEN 0 ELSE w[One(s)] + g[s \ {One(s)}]]
      <4>1. ASSUME NEW s \in SUBSET S, s # {} PROVE Alone(One(s)) = w[One(s)]
        <5>1. One(s) \in S
          BY <4>1, OneIsIn
        <5> QED BY <5>1
      <4> HIDE DEF Alone, w
      <4> QED BY <4>1 DEF One
    <3> HIDE DEF Body, w
    <3> QED BY <3>1 DEF Adds
  <2>3. \E g : g = Body(g)
    <3>1. PICK g : Adds(g, w, S)
      BY <1>1, SumsExist
    <3>2. g = Body(g)
      BY <3>1, <2>2
    <3> QED BY <3>2
  <2>4. sum = Body(sum)
    <3> HIDE DEF Body
    <3> QED BY <2>3
  <2>5. Adds(sum, w, S)
    <3> HIDE DEF sum, Body
    <3> QED BY <2>2, <2>4
  <2> HIDE DEF sum
  <2> QED BY <2>1, <2>5
<1> HIDE DEF w, S
<1>6. h[S] = h[Charged(ids)]
  BY <1>1, <1>2, <1>3, <1>5, ZerosDropped
<1>7. r[Charged(ids)] = h[Charged(ids)]
  <2>1. \A t \in Charged(ids) : Breakdown(ids, subtotal)[t] = w[t]
    BY <1>2, <1>3
  <2> QED BY <1>2, <1>4, <1>5, <2>1, SumsAgree
<1>8. Total(ids, subtotal) = MapThenSumSet(Alone, S)
  BY <1>4, <1>5, <1>6, <1>7
<1> QED BY <1>8 DEF S

(***************************************************************************)
(* Asked for several taxes at once or for each alone, the service charges  *)
(* the same, however many taxes there are (calculateTax, 82-90;            *)
(* calculateMultipleTaxes, 92-114).                                        *)
(***************************************************************************)
THEOREM TaxesAlwaysAddUp == Spec => []TaxesAddUp
<1>1. Init => TaxRows
  <2> SUFFICES ASSUME Init PROVE TaxRows
    OBVIOUS
  <2>1. LiveTaxes = {}
    BY DEF Init, PricesInit, LiveTaxes, Vacant
  <2> QED BY <2>1, FS_EmptySet DEF TaxRows
<1>2. TypeOK /\ TaxRows /\ [Next]_vars => TaxRows'
  BY FewTaxes
<1>3. TypeOK /\ TaxRows => TaxesAddUp
  BY OneByOneAddsUp DEF TaxesAddUp
<1> QED BY <1>1, <1>2, <1>3, TypeCorrect, PTL DEF Spec
=============================================================================
