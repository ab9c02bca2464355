----------------------------- MODULE OrdersProofs -----------------------------
(***************************************************************************)
(* Theorems about Orders, for any number of orders, tills, staff and       *)
(* requests in flight.                                                     *)
(***************************************************************************)
EXTENDS Orders, FiniteSetTheorems, TLAPS

LEMMA VacantRows ==
  /\ NoRow.status \notin OrderStatus /\ GoneRow.status \notin OrderStatus
  /\ NoRow.status \notin Closed /\ GoneRow.status \notin Closed
BY DEF NoRow, GoneRow, OrderStatus, Closed

LEMMA LiveOrdRow ==
  ASSUME TypeOK, NEW o \in Ords, LiveOrd(o)
  PROVE  ord[o] \in Rows
BY VacantRows DEF TypeOK, LiveOrd

LEMMA DayTypes ==
  ASSUME NEW h \in Nat
  PROVE  LocalDay(h) \in Nat /\ UtcDate(h) \in Nat
BY OrdersAssumption DEF OrdersAssumption, LocalDay, UtcDate

LEMMA CountType ==
  ASSUME NEW day
  PROVE  IsFiniteSet(CreatedSince(day)) /\ Cardinality(CreatedSince(day)) \in Nat
BY MovesAssumption, FS_Subset, FS_CardinalityType DEF MovesAssumption, CreatedSince

LEMMA MoveTypes ==
  ASSUME NEW move \in Moves
  PROVE  move.to \in OrderStatus /\ move.stamp \in Stamps /\ move.from \subseteq OrderStatus
BY DEF Moves, StartOrder, MarkReady, MarkServed, Cancel, OrderStatus, Stamps, Closed

\* The locals of a handler, by the statement it sends next.
LEMMA CallTypes ==
  ASSUME NEW k \in Calls
  PROVE  /\ k.step = "idle" => k = Idle
         /\ k.step = "ord.count" => k.sale \in Txs \cup {Absent} /\ k.at \in Nat
         /\ k.step = "ord.insert" =>
              k.sale \in Txs \cup {Absent} /\ k.at \in Nat /\ k.number \in Numbers
         /\ k.step = "ord.move" => k.ord \in Ords /\ k.move \in Moves
         /\ k.step = "ord.patch" =>
              k.ord \in Ords /\ k.status \in PatchStatuses /\ k.sale \in Txs \cup {Absent}
         /\ k.step = "ord.delete" => k.ord \in Ords
BY DEF Calls, Idle

LEMMA MovedType ==
  ASSUME NEW row \in Rows, NEW move \in Moves
  PROVE  Moved(row, move) \in Rows
<1>1. row.stamps \cup {move.stamp} \in SUBSET Stamps /\ move.to \in OrderStatus
  BY MoveTypes DEF Rows
<1> QED BY <1>1 DEF Moved, Rows

LEMMA TypeStep ==
  ASSUME TypeOK, [Next]_vars
  PROVE  TypeOK'
<1> USE DEF TypeOK
<1>end. ASSUME NEW c \in Callers, End(c) PROVE call' \in [Callers -> Calls]
  BY <1>end DEF End, Calls
<1>1. ASSUME NEW c \in Callers, BeginCall(c) PROVE TypeOK'
  <2>1. ASSUME NEW sale \in Txs \cup {Absent}, CreateRead(c, sale) PROVE TypeOK'
    BY <2>1 DEF CreateRead, Start, Calls
  <2>2. ASSUME NEW o \in Ords, NEW move \in Moves, MoveRead(c, o, move) PROVE TypeOK'
    BY <2>2 DEF MoveRead, Start, Calls
  <2>3. ASSUME NEW o \in Ords, NEW status \in PatchStatuses, NEW sale \in Txs \cup {Absent},
               PatchRead(c, o, status, sale)
        PROVE  TypeOK'
    BY <2>3 DEF PatchRead, Start, Calls
  <2>4. ASSUME NEW o \in Ords, RemoveRead(c, o) PROVE TypeOK'
    BY <2>4 DEF RemoveRead, Start, Calls
  <2> QED BY <1>1, <2>1, <2>2, <2>3, <2>4 DEF BeginCall
<1>2. ASSUME NEW c \in Callers, CountOrders(c) PROVE TypeOK'
  <2> DEFINE k == call[c]
             n == NumberAt(k.at, 1)
  <2>1. k.sale \in Txs \cup {Absent} /\ k.at \in Nat
    BY <1>2, CallTypes DEF CountOrders
  <2>2. n \in Numbers
    BY <2>1, DayTypes, CountType DEF NumberAt, Numbers
  <2> HIDE DEF n
  <2>3. [step |-> "ord.insert", sale |-> k.sale, at |-> k.at, number |-> n] \in Calls
    BY <2>1, <2>2 DEF Calls
  <2>4. call' = [call EXCEPT ![c] = [step |-> "ord.insert", sale |-> k.sale, at |-> k.at, number |-> n]]
    BY <1>2 DEF CountOrders, n
  <2> QED BY <1>2, <2>3, <2>4 DEF CountOrders
<1>3. ASSUME NEW c \in Callers, InsertOrder(c) PROVE TypeOK'
  <2>1. call[c].number \in Numbers
    BY <1>3, CallTypes DEF InsertOrder
  <2>2. NewOrd(call[c].number) \in Rows
    BY <2>1, DayTypes DEF NewOrd, Rows, OrderStatus
  <2> QED BY <1>3, <1>end, <2>2 DEF InsertOrder
<1>4. ASSUME NEW c \in Callers, MoveWrite(c) PROVE TypeOK'
  <2>1. call[c].ord \in Ords /\ call[c].move \in Moves
    BY <1>4, CallTypes DEF MoveWrite
  <2>2. LiveOrd(call[c].ord) => Moved(ord[call[c].ord], call[c].move) \in Rows
    BY <2>1, LiveOrdRow, MovedType
  <2> QED BY <1>4, <1>end, <2>1, <2>2 DEF MoveWrite
<1>5. ASSUME NEW c \in Callers, PatchWrite(c) PROVE TypeOK'
  <2>1. call[c].ord \in Ords /\ call[c].status \in OrderStatus
    BY <1>5, CallTypes, MovesAssumption DEF PatchWrite, MovesAssumption
  <2>2. LiveOrd(call[c].ord) => [ord[call[c].ord] EXCEPT !.status = call[c].status] \in Rows
    BY <2>1, LiveOrdRow DEF Rows
  <2> QED BY <1>5, <1>end, <2>1, <2>2 DEF PatchWrite
<1>6. ASSUME NEW c \in Callers, RemoveWrite(c) PROVE TypeOK'
  BY <1>6, <1>end DEF RemoveWrite
<1>7. ASSUME NEW c \in Callers, Abort(c) PROVE TypeOK'
  BY <1>7, <1>end DEF Abort, Fail
<1>8. ASSUME NEW t \in Txs, SaleCreated(t) \/ SaleRemoved(t) PROVE TypeOK'
  BY <1>8 DEF SaleCreated, SaleRemoved
<1>9. CASE Tick
  BY <1>9 DEF Tick
<1>10. CASE UNCHANGED vars
  BY <1>10 DEF vars
<1> QED BY <1>1, <1>2, <1>3, <1>4, <1>5, <1>6, <1>7, <1>8, <1>9, <1>10 DEF Next, Step

(***************************************************************************)
(* Rows have all their columns with their types, and every handler carries *)
(* the locals its next statement needs, in every environment.              *)
(***************************************************************************)
THEOREM TypeCorrect == Spec => []TypeOK
<1>1. Init => TypeOK
  BY DEF Init, HandlersInit, TypeOK, Calls
<1> QED BY <1>1, TypeStep, PTL DEF Spec
-----------------------------------------------------------------------------
(* What one step can do to an order, and to a request *)

OrdEffect(o) ==
  \/ ord'[o] = ord[o]
  \/ \E c \in Callers :
       /\ call'[c] = Idle
       /\ \/ /\ call[c].step = "ord.insert" /\ ord[o] = NoRow
             /\ ord'[o] = NewOrd(call[c].number)
          \/ /\ LiveOrd(o) /\ call[c].step = "ord.move" /\ call[c].ord = o
             /\ ord'[o] = Moved(ord[o], call[c].move)
          \/ /\ LiveOrd(o) /\ call[c].step = "ord.patch" /\ call[c].ord = o
             /\ ord'[o] = [ord[o] EXCEPT !.status = call[c].status]
          \/ /\ LiveOrd(o) /\ call[c].step = "ord.delete" /\ call[c].ord = o
             /\ ord'[o] = GoneRow

LEMMA OrdEffects ==
  ASSUME TypeOK, [Next]_vars, NEW o \in Ords
  PROVE  OrdEffect(o)
<1> USE DEF TypeOK
<1>1. ASSUME NEW c \in Callers, InsertOrder(c) PROVE OrdEffect(o)
  BY <1>1 DEF InsertOrder, End, OrdEffect
<1>2. ASSUME NEW c \in Callers, MoveWrite(c) PROVE OrdEffect(o)
  BY <1>2 DEF MoveWrite, End, OrdEffect
<1>3. ASSUME NEW c \in Callers, PatchWrite(c) PROVE OrdEffect(o)
  BY <1>3 DEF PatchWrite, End, OrdEffect
<1>4. ASSUME NEW c \in Callers, RemoveWrite(c) PROVE OrdEffect(o)
  BY <1>4 DEF RemoveWrite, End, OrdEffect
<1>5. ASSUME NEW c \in Callers, BeginCall(c) \/ CountOrders(c) \/ Abort(c) PROVE OrdEffect(o)
  BY <1>5
  DEF BeginCall, CreateRead, MoveRead, PatchRead, RemoveRead, CountOrders, Abort, OrdEffect
<1>6. CASE Tick \/ UNCHANGED vars \/ \E t \in Txs : SaleCreated(t) \/ SaleRemoved(t)
  BY <1>6 DEF Tick, SaleCreated, SaleRemoved, vars, OrdEffect
<1> QED BY <1>1, <1>2, <1>3, <1>4, <1>5, <1>6 DEF Next, Step

OnOrder == {"ord.move", "ord.patch", "ord.delete"}

\* A request that is about an order after a step was so before, or has just read it.
LEMMA OrderReads ==
  ASSUME TypeOK, [Next]_vars, NEW d \in Callers, call'[d].step \in OnOrder
  PROVE  \/ call'[d] = call[d]
         \/ /\ ord' = ord
            /\ About(call'[d].ord)
            /\ \A c \in Callers \ {d} : call'[c] = call[c]
            /\ \/ MoveRead(d, call'[d].ord, call'[d].move)
               \/ PatchRead(d, call'[d].ord, call'[d].status, call'[d].sale)
               \/ RemoveRead(d, call'[d].ord)
<1> USE DEF TypeOK, OnOrder
<1> DEFINE Fresh ==
      /\ ord' = ord
      /\ About(call'[d].ord)
      /\ \A c \in Callers \ {d} : call'[c] = call[c]
      /\ \/ MoveRead(d, call'[d].ord, call'[d].move)
         \/ PatchRead(d, call'[d].ord, call'[d].status, call'[d].sale)
         \/ RemoveRead(d, call'[d].ord)
<1>1. ASSUME NEW c \in Callers, NEW sale \in Txs \cup {Absent}, CreateRead(c, sale)
      PROVE  call'[d] = call[d]
  BY <1>1 DEF CreateRead, Start
<1>2. ASSUME NEW c \in Callers, NEW o \in Ords, NEW move \in Moves, MoveRead(c, o, move)
      PROVE  call'[d] = call[d] \/ Fresh
  <2>1. CASE c # d
    BY <1>2, <2>1 DEF MoveRead, Start
  <2>2. CASE c = d
    <3>1. call'[d] = [step |-> "ord.move", ord |-> o, move |-> move]
      BY <1>2, <2>2 DEF MoveRead, Start
    <3>2. call'[d].ord = o /\ call'[d].move = move
      BY <3>1
    <3> QED BY <1>2, <2>2, <3>2 DEF MoveRead, Start
  <2> QED BY <2>1, <2>2
<1>3. ASSUME NEW c \in Callers, NEW o \in Ords, NEW status \in PatchStatuses,
             NEW sale \in Txs \cup {Absent}, PatchRead(c, o, status, sale)
      PROVE  call'[d] = call[d] \/ Fresh
  <2>1. CASE c # d
    BY <1>3, <2>1 DEF PatchRead, Start
  <2>2. CASE c = d
    <3>1. call'[d] = [step |-> "ord.patch", ord |-> o, status |-> status, sale |-> sale]
      BY <1>3, <2>2 DEF PatchRead, Start
    <3>2. call'[d].ord = o /\ call'[d].status = status /\ call'[d].sale = sale
      BY <3>1
    <3> QED BY <1>3, <2>2, <3>2 DEF PatchRead, Start
  <2> QED BY <2>1, <2>2
<1>4. ASSUME NEW c \in Callers, NEW o \in Ords, RemoveRead(c, o)
      PROVE  call'[d] = call[d] \/ Fresh
  <2>1. CASE c # d
    BY <1>4, <2>1 DEF RemoveRead, Start
  <2>2. CASE c = d
    <3>1. call'[d] = [step |-> "ord.delete", ord |-> o]
      BY <1>4, <2>2 DEF RemoveRead, Start
    <3>2. call'[d].ord = o
      BY <3>1
    <3> QED BY <1>4, <2>2, <3>2 DEF RemoveRead, Start
  <2> QED BY <2>1, <2>2
<1>5. ASSUME NEW c \in Callers, CountOrders(c) PROVE call'[d] = call[d]
  BY <1>5 DEF CountOrders
<1>6. ASSUME NEW c \in Callers, End(c) PROVE call'[d] = call[d]
  BY <1>6 DEF End, Idle
<1>7. ASSUME NEW c \in Callers,
             InsertOrder(c) \/ MoveWrite(c) \/ PatchWrite(c) \/ RemoveWrite(c) \/ Abort(c)
      PROVE  call'[d] = call[d]
  BY <1>6, <1>7 DEF InsertOrder, MoveWrite, PatchWrite, RemoveWrite, Abort, Fail
<1>8. CASE Tick \/ UNCHANGED vars \/ \E t \in Txs : SaleCreated(t) \/ SaleRemoved(t)
  BY <1>8 DEF Tick, SaleCreated, SaleRemoved, vars
<1> QED BY <1>1, <1>2, <1>3, <1>4, <1>5, <1>7, <1>8 DEF Next, BeginCall, Step
-----------------------------------------------------------------------------
(* The dates of an order *)

\* The date a move relies on has been written.
Prepared(row, move) ==
  /\ move = MarkReady => "startedAt" \in row.stamps
  /\ move = MarkServed => "readyAt" \in row.stamps

LEMMA AcceptedIsPrepared ==
  ASSUME NEW row \in Rows, InOrder(row), NEW move \in Moves, row.status \in move.from
  PROVE  Prepared(row, move)
<1>1. move = MarkReady => row.status = StartOrder.to
  BY DEF MarkReady, StartOrder
<1>2. move = MarkServed => row.status = MarkReady.to
  BY DEF MarkServed, MarkReady
<1>3. StartOrder.stamp = "startedAt" /\ MarkReady.stamp = "readyAt"
  BY DEF StartOrder, MarkReady
<1> QED BY <1>1, <1>2, <1>3 DEF Prepared, InOrder, Moves

LEMMA MovedInOrder ==
  ASSUME NEW row \in Rows, InOrder(row), NEW move \in Moves, Prepared(row, move)
  PROVE  InOrder(Moved(row, move))
<1> DEFINE stamps == row.stamps \cup {move.stamp}
<1>1. Moved(row, move).stamps = stamps /\ Moved(row, move).status = move.to
  BY DEF Moved, Rows
<1>2. /\ "servedAt" \in stamps => "readyAt" \in stamps
      /\ "readyAt" \in stamps => "startedAt" \in stamps
  BY DEF InOrder, Prepared, Moves, StartOrder, MarkReady, MarkServed, Cancel
<1>3. \A other \in Moves : other.to = move.to => other = move
  BY DEF Moves, StartOrder, MarkReady, MarkServed, Cancel
<1>4. \A other \in Moves : Moved(row, move).status = other.to => other.stamp \in stamps
  BY <1>1, <1>3
<1> QED BY <1>1, <1>2, <1>4 DEF InOrder

\* Every move in flight is about an order that exists or existed, and is prepared.
MovesPrepared == \A c \in Callers : call[c].step = "ord.move" =>
  /\ ord[call[c].ord] # NoRow
  /\ LiveOrd(call[c].ord) => Prepared(ord[call[c].ord], call[c].move)

StoryInv == PatchStatuses = {} => StoryInOrder /\ MovesPrepared

LEMMA StampsStay ==
  ASSUME TypeOK, [Next]_vars, PatchStatuses = {}, NEW o \in Ords, ord[o] # NoRow, LiveOrd(o)'
  PROVE  LiveOrd(o) /\ ord[o].stamps \subseteq ord'[o].stamps
<1>1. CASE ord'[o] = ord[o]
  BY <1>1 DEF LiveOrd
<1>2. CASE ord'[o] # ord[o]
  <2>1. PICK c \in Callers :
          /\ LiveOrd(o)
          /\ \/ call[c].step = "ord.move" /\ ord'[o] = Moved(ord[o], call[c].move)
             \/ call[c].step = "ord.patch"
    BY <1>2, OrdEffects, VacantRows DEF OrdEffect, LiveOrd
  <2>2. call[c].step # "ord.patch"
    BY CallTypes DEF TypeOK
  <2>3. ord[o] \in Rows
    BY <2>1, LiveOrdRow
  <2> QED BY <2>1, <2>2, <2>3 DEF Moved, Rows
<1> QED BY <1>1, <1>2

\* An id is handed out once: no row becomes vacant again.
LEMMA RowsStay ==
  ASSUME TypeOK, [Next]_vars, NEW o \in Ords, ord[o] # NoRow
  PROVE  ord'[o] # NoRow
<1>1. CASE ord'[o] = ord[o]
  BY <1>1
<1>2. CASE ord'[o] = GoneRow
  BY <1>2 DEF GoneRow, NoRow
<1>3. ASSUME NEW c \in Callers, LiveOrd(o), call[c].step = "ord.move",
             ord'[o] = Moved(ord[o], call[c].move)
      PROVE  ord'[o] # NoRow
  BY <1>3, LiveOrdRow, CallTypes, MovedType DEF TypeOK, Rows, NoRow, OrderStatus
<1>4. ASSUME NEW c \in Callers, LiveOrd(o), call[c].step = "ord.patch",
             ord'[o] = [ord[o] EXCEPT !.status = call[c].status]
      PROVE  ord'[o] # NoRow
  BY <1>4, LiveOrdRow DEF Rows, NoRow
<1> QED BY <1>1, <1>2, <1>3, <1>4, OrdEffects DEF OrdEffect

LEMMA StoryStep ==
  ASSUME TypeOK, StoryInv, [Next]_vars
  PROVE  StoryInv'
<1> SUFFICES ASSUME PatchStatuses = {} PROVE StoryInOrder' /\ MovesPrepared'
  BY DEF StoryInv
<1>0. StoryInOrder /\ MovesPrepared
  BY DEF StoryInv
<1>1. ASSUME NEW o \in Ords, LiveOrd(o)' PROVE InOrder(ord[o])'
  <2>1. LiveOrd(o) => ord[o] \in Rows /\ InOrder(ord[o])
    BY <1>0, LiveOrdRow DEF StoryInOrder
  <2>2. CASE ord'[o] = ord[o]
    BY <1>1, <2>1, <2>2 DEF LiveOrd, InOrder
  <2>3. ASSUME NEW c \in Callers, call[c].step = "ord.insert", ord'[o] = NewOrd(call[c].number)
        PROVE  InOrder(ord[o])'
    <3>1. ord'[o].status = "PENDING" /\ ord'[o].stamps = {}
      BY <2>3 DEF NewOrd
    <3> QED BY <3>1 DEF InOrder, Moves, StartOrder, MarkReady, MarkServed, Cancel
  <2>4. ASSUME NEW c \in Callers, LiveOrd(o), call[c].step = "ord.move", call[c].ord = o,
               ord'[o] = Moved(ord[o], call[c].move)
        PROVE  InOrder(ord[o])'
    <3>1. PICK move \in Moves : move = call[c].move
      BY <2>4, CallTypes DEF TypeOK
    <3>2. Prepared(ord[o], move)
      BY <1>0, <2>4, <3>1 DEF MovesPrepared
    <3>3. InOrder(Moved(ord[o], move))
      BY <2>1, <2>4, <3>2, MovedInOrder
    <3> QED BY <2>4, <3>1, <3>3 DEF InOrder
  <2>5. ~\E c \in Callers : call[c].step = "ord.patch"
    BY CallTypes DEF TypeOK
  <2>6. ord'[o] # GoneRow
    BY <1>1, VacantRows DEF LiveOrd
  <2> QED BY <2>2, <2>3, <2>4, <2>5, <2>6, OrdEffects DEF OrdEffect
<1>2. ASSUME NEW d \in Callers, call'[d].step = "ord.move"
      PROVE  /\ ord'[call'[d].ord] # NoRow
             /\ LiveOrd(call[d].ord)' => Prepared(ord[call[d].ord], call[d].move)'
  <2>0. TypeOK'
    BY TypeStep
  <2>1. PICK o \in Ords, move \in Moves : o = call'[d].ord /\ move = call'[d].move
    BY <1>2, <2>0, CallTypes DEF TypeOK
  <2>2. ord[o] # NoRow /\ (LiveOrd(o) => Prepared(ord[o], move))
    <3>1. CASE call'[d] = call[d]
      BY <1>0, <1>2, <2>1, <3>1 DEF MovesPrepared
    <3>2. CASE MoveRead(d, o, move)
      <4>1. LiveOrd(o) /\ ord[o].status \in move.from
        BY <3>2 DEF MoveRead, About
      <4>2. ord[o] \in Rows /\ InOrder(ord[o])
        BY <1>0, <4>1, LiveOrdRow DEF StoryInOrder
      <4> QED BY <4>1, <4>2, AcceptedIsPrepared, VacantRows DEF LiveOrd
    <3>3. ASSUME NEW p, NEW status, NEW sale, PatchRead(d, p, status, sale) \/ RemoveRead(d, p)
          PROVE  FALSE
      BY <1>2, <3>3 DEF PatchRead, RemoveRead, Start, TypeOK
    <3> QED BY <1>2, <2>1, <3>1, <3>2, <3>3, OrderReads DEF OnOrder
  <2>3. ord'[o] # NoRow
    BY <2>2, OrdEffects, RowsStay, VacantRows
  <2>4. ASSUME LiveOrd(o)' PROVE Prepared(ord'[o], move)
    BY <2>2, <2>4, StampsStay DEF Prepared
  <2> QED BY <2>1, <2>3, <2>4 DEF Prepared
<1> QED BY <1>1, <1>2 DEF StoryInOrder, MovesPrepared

(***************************************************************************)
(* However requests overtake each other, as long as no client sets a       *)
(* status by hand, the dates of an order tell its story in order.          *)
(***************************************************************************)
THEOREM DatesTellTheStory == Spec => []StoryInOrder
<1>1. Init => StoryInv
  BY VacantRows DEF Init, HandlersInit, StoryInv, StoryInOrder, MovesPrepared, LiveOrd, Idle
<1>2. TypeOK /\ StoryInv /\ [Next]_vars => StoryInv'
  BY StoryStep
<1>3. StoryInv => StoryInOrder
  BY DEF StoryInv, StoryInOrder
<1> QED BY <1>1, <1>2, <1>3, TypeCorrect, PTL DEF Spec
-----------------------------------------------------------------------------
(* Guarded orders *)

\* Two requests in flight are never about one guarded order.
DisjointOrders == \A c, d \in Callers :
  c # d /\ call[c].step \in OnOrder /\ call[d].step \in OnOrder /\ call[c].ord = call[d].ord
    => call[c].ord \notin Guarded

\* What the handler c read of a guarded order is still so.
Checked(c) ==
  LET k == call[c] IN
  k.step \in OnOrder /\ k.ord \in Guarded =>
    /\ LiveOrd(k.ord)
    /\ k.step = "ord.move" => ord[k.ord].status \in k.move.from
    /\ k.step = "ord.patch" => ord[k.ord].status \notin Closed
    /\ k.step = "ord.delete" => ord[k.ord].status # "SERVED"

OrdersInv == DisjointOrders /\ \A c \in Callers : Checked(c)

LEMMA StillDisjoint ==
  ASSUME TypeOK, [Next]_vars, DisjointOrders
  PROVE  DisjointOrders'
<1> SUFFICES ASSUME NEW c \in Callers, NEW d \in Callers, c # d,
                    call'[c].step \in OnOrder, call'[d].step \in OnOrder,
                    call'[c].ord \in Guarded
             PROVE  call'[c].ord # call'[d].ord
  BY DEF DisjointOrders
<1>1. CASE call'[c] = call[c] /\ call'[d] = call[d]
  BY <1>1 DEF DisjointOrders
<1>2. ASSUME NEW x \in {c, d}, NEW y \in {c, d}, x # y, About(call'[x].ord),
             \A e \in Callers \ {x} : call'[e] = call[e]
      PROVE  call'[x].ord # call'[y].ord
  BY <1>2 DEF About, OnOrder
<1> QED BY <1>1, <1>2, OrderReads

LEMMA StillChecked ==
  ASSUME TypeOK, [Next]_vars, DisjointOrders, NEW d \in Callers, Checked(d)
  PROVE  Checked(d)'
<1>1. CASE call'[d].step \notin OnOrder
  BY <1>1 DEF Checked, OnOrder
<1>0. CASE call'[d].ord \notin Guarded
  BY <1>0 DEF Checked
<1>2. CASE call'[d].step \in OnOrder /\ call'[d] = call[d] /\ call'[d].ord \in Guarded
  <2>1. PICK o \in Ords : o = call[d].ord
    BY <1>2, CallTypes DEF TypeOK, OnOrder
  <2>2. LiveOrd(o) /\ call[d] # Idle
    BY <1>2, <2>1 DEF Checked, OnOrder, Idle
  <2>3. ord'[o] = ord[o]
    <3>1. ASSUME NEW c \in Callers, call[c].step \in OnOrder, call[c].ord = o, call'[c] = Idle
          PROVE  FALSE
      <4>1. c # d
        BY <1>2, <2>2, <3>1
      <4> QED BY <1>2, <2>1, <3>1, <4>1 DEF DisjointOrders
    <3> QED BY <2>2, <3>1, OrdEffects, VacantRows DEF OrdEffect, OnOrder, LiveOrd
  <2> QED BY <1>2, <2>1, <2>3 DEF Checked, LiveOrd
<1>3. ASSUME NEW o, NEW move, MoveRead(d, o, move) PROVE Checked(d)'
  <2>1. call'[d] = [step |-> "ord.move", ord |-> o, move |-> move] /\ ord' = ord
    BY <1>3 DEF MoveRead, Start, TypeOK
  <2> QED BY <1>3, <2>1 DEF MoveRead, About, Checked, LiveOrd
<1>4. ASSUME NEW o, NEW status, NEW sale, PatchRead(d, o, status, sale) PROVE Checked(d)'
  <2>1. call'[d] = [step |-> "ord.patch", ord |-> o, status |-> status, sale |-> sale]
        /\ ord' = ord
    BY <1>4 DEF PatchRead, Start, TypeOK
  <2> QED BY <1>4, <2>1 DEF PatchRead, About, Checked, LiveOrd
<1>5. ASSUME NEW o, RemoveRead(d, o) PROVE Checked(d)'
  <2>1. call'[d] = [step |-> "ord.delete", ord |-> o] /\ ord' = ord
    BY <1>5 DEF RemoveRead, Start, TypeOK
  <2> QED BY <1>5, <2>1 DEF RemoveRead, About, Checked, LiveOrd
<1> QED BY <1>0, <1>1, <1>2, <1>3, <1>4, <1>5, OrderReads

LEMMA OrdersInvariant == Spec => []OrdersInv
<1>1. Init => OrdersInv
  BY DEF Init, HandlersInit, OrdersInv, DisjointOrders, Checked, OnOrder, Idle
<1>2. TypeOK /\ OrdersInv /\ [Next]_vars => OrdersInv'
  BY StillDisjoint, StillChecked DEF OrdersInv
<1> QED BY <1>1, <1>2, TypeCorrect, PTL DEF Spec

(***************************************************************************)
(* Whatever happens to the others, a guarded order that is served never    *)
(* changes and a cancelled one can only be deleted.                        *)
(***************************************************************************)
THEOREM ClosedOrderIsFinal == Spec => ClosedIsFinal
<1>1. ASSUME TypeOK, OrdersInv, [Next]_vars, NEW o \in Guarded, ord[o].status \in Closed,
             ord'[o] # ord[o]
      PROVE  ord[o].status = "CANCELLED" /\ ord'[o] = GoneRow
  <2>1. LiveOrd(o) /\ o \in Ords
    BY <1>1, OrdersAssumption DEF LiveOrd, Closed, OrderStatus, OrdersAssumption
  <2>2. PICK c \in Callers :
          /\ call[c].ord = o
          /\ \/ call[c].step \in {"ord.move", "ord.patch"}
             \/ call[c].step = "ord.delete" /\ ord'[o] = GoneRow
    BY <1>1, <2>1, OrdEffects, VacantRows DEF OrdEffect, LiveOrd
  <2>3. Checked(c) /\ call[c].step \in OnOrder
    BY <1>1, <2>2 DEF OrdersInv, OnOrder
  <2>4. call[c].step # "ord.move"
    <3>1. \A move \in Moves : move.from \cap Closed = {}
      BY DEF Moves, StartOrder, MarkReady, MarkServed, Cancel, Closed
    <3> QED BY <1>1, <2>2, <2>3, <3>1, CallTypes DEF Checked, TypeOK
  <2>5. call[c].step = "ord.delete" /\ ord[o].status # "SERVED"
    BY <1>1, <2>2, <2>3, <2>4 DEF Checked
  <2> QED BY <1>1, <2>2, <2>5 DEF Closed
<1>2. TypeOK /\ OrdersInv /\ [Next]_vars => [ClosedStays]_vars
  BY <1>1 DEF ClosedStays, Closed
<1> QED BY <1>2, OrdersInvariant, TypeCorrect, PTL DEF Spec, ClosedIsFinal

-----------------------------------------------------------------------------
(* Refinement of the atomic board *)

LEMMA OneOrderAtATime ==
  ASSUME TypeOK, [Next]_vars, ord' # ord
  PROVE  \E o \in Ords : ord' = [ord EXCEPT ![o] = ord'[o]]
<1> USE DEF TypeOK
<1>1. ASSUME NEW c \in Callers, InsertOrder(c)
      PROVE  \E o \in Ords : ord' = [ord EXCEPT ![o] = ord'[o]]
  BY <1>1 DEF InsertOrder
<1>2. ASSUME NEW c \in Callers, MoveWrite(c) \/ PatchWrite(c) \/ RemoveWrite(c)
      PROVE  \E o \in Ords : ord' = [ord EXCEPT ![o] = ord'[o]]
  <2>1. call[c].ord \in Ords
    BY <1>2, CallTypes DEF MoveWrite, PatchWrite, RemoveWrite
  <2> QED BY <1>2, <2>1 DEF MoveWrite, PatchWrite, RemoveWrite
<1>3. ASSUME NEW c \in Callers, BeginCall(c) \/ CountOrders(c) \/ Abort(c) PROVE FALSE
  BY <1>3 DEF BeginCall, CreateRead, MoveRead, PatchRead, RemoveRead, CountOrders, Abort
<1>4. ASSUME Tick \/ UNCHANGED vars \/ \E t \in Txs : SaleCreated(t) \/ SaleRemoved(t)
      PROVE  FALSE
  BY <1>4 DEF Tick, SaleCreated, SaleRemoved, vars
<1> QED BY <1>1, <1>2, <1>3, <1>4 DEF Next, Step

\* The board speaks of the same statuses and moves.
LEMMA SameMoves ==
  /\ Lifecycle!NoRow = NoRow /\ Lifecycle!GoneRow = GoneRow
  /\ Lifecycle!OrderStatus = OrderStatus /\ Lifecycle!Closed = Closed
  /\ Lifecycle!Moves = Moves
BY DEF Lifecycle!NoRow, NoRow, Lifecycle!GoneRow, GoneRow, Lifecycle!OrderStatus, OrderStatus,
       Lifecycle!Closed, Closed, Lifecycle!Moves, Moves, Lifecycle!StartOrder, StartOrder,
       Lifecycle!MarkReady, MarkReady, Lifecycle!MarkServed, MarkServed, Lifecycle!Cancel, Cancel

\* A card of the board after a move.
LEMMA MovedOnBoard ==
  ASSUME NEW status \in OrderStatus, NEW stamps \in SUBSET Stamps, NEW move \in Moves
  PROVE  Lifecycle!Moved([status |-> status, stamps |-> stamps], move)
           = [status |-> move.to, stamps |-> stamps \cup {move.stamp}]
<1> DEFINE Cards == [status: OrderStatus, stamps: SUBSET Stamps]
           card == [status |-> status, stamps |-> stamps]
           moved == [card EXCEPT !.status = move.to, !.stamps = @ \cup {move.stamp}]
<1>1. card \in Cards /\ card.stamps = stamps
  OBVIOUS
<1> HIDE DEF card
<1>2. moved \in Cards /\ moved.status = move.to /\ moved.stamps = stamps \cup {move.stamp}
  BY <1>1, MoveTypes
<1>3. Lifecycle!Moved(card, move) = moved
  BY DEF Lifecycle!Moved
<1> HIDE DEF moved
<1>4. moved = [status |-> move.to, stamps |-> stamps \cup {move.stamp}]
  BY <1>2
<1> QED BY <1>3, <1>4 DEF card

LEMMA BoardStep ==
  ASSUME TypeOK, OrdersInv, [Next]_vars, Board' # Board
  PROVE  Lifecycle!BoardNext
<1>0. ord' # ord
  BY DEF Board, Shown
<1>1. PICK o \in Ords : ord' = [ord EXCEPT ![o] = ord'[o]]
  BY <1>0, OneOrderAtATime
<1>guarded. o \in Guarded
  BY <1>1, OrdersAssumption DEF OrdersAssumption, TypeOK, Board, Shown
<1>2. \A row : ord'[o] = row => Board' = [Board EXCEPT ![o] = Shown(row)]
  BY <1>1, OrdersAssumption DEF OrdersAssumption, TypeOK, Board, Shown
<1>3. Board[o] = Shown(ord[o]) /\ Board[o].status = ord[o].status
  BY <1>guarded DEF Board, Shown
<1>4. ord'[o] # ord[o]
  BY <1>0, <1>1 DEF TypeOK
<1>5. ASSUME NEW c \in Callers, call[c].step = "ord.insert", ord[o] = NoRow,
             ord'[o] = NewOrd(call[c].number)
      PROVE  Lifecycle!BoardNext
  <2>1. Shown(NewOrd(call[c].number)) = [status |-> "PENDING", stamps |-> {}]
    BY DEF Shown, NewOrd, OrderStatus
  <2>2. Shown(ord[o]) = NoRow
    BY <1>5, VacantRows DEF Shown
  <2>3. Lifecycle!Place(o)
    BY <1>2, <1>3, <1>5, <2>1, <2>2, SameMoves DEF Lifecycle!Place
  <2> QED BY <1>guarded, <2>3 DEF Lifecycle!BoardNext
<1>6. ASSUME NEW c \in Callers, LiveOrd(o), call[c].step = "ord.move", call[c].ord = o,
             ord'[o] = Moved(ord[o], call[c].move)
      PROVE  Lifecycle!BoardNext
  <2>1. PICK move \in Moves : move = call[c].move
    BY <1>6, CallTypes DEF TypeOK
  <2>2. ord[o].status \in move.from
    BY <1>6, <1>guarded, <2>1 DEF OrdersInv, Checked, OnOrder
  <2>3. ord[o] \in Rows /\ move.to \in OrderStatus
    BY <1>6, LiveOrdRow, MoveTypes
  <2>4. Shown(ord[o]) = [status |-> ord[o].status, stamps |-> ord[o].stamps]
    BY <1>6 DEF Shown, LiveOrd
  <2>5. /\ Moved(ord[o], move).status = move.to
        /\ Moved(ord[o], move).stamps = ord[o].stamps \cup {move.stamp}
    BY <2>3 DEF Moved, Rows
  <2>6. Shown(Moved(ord[o], move))
          = [status |-> move.to, stamps |-> ord[o].stamps \cup {move.stamp}]
    BY <2>3, <2>5 DEF Shown
  <2>7. Shown(Moved(ord[o], move)) = Lifecycle!Moved(Shown(ord[o]), move)
    BY <2>3, <2>4, <2>6, MovedOnBoard DEF Rows
  <2>8. Lifecycle!Move(o, move)
    BY <1>2, <1>3, <1>6, <2>1, <2>2, <2>7 DEF Lifecycle!Move
  <2> QED BY <1>guarded, <2>8, SameMoves DEF Lifecycle!BoardNext
<1>7. ASSUME NEW c \in Callers, LiveOrd(o), call[c].step = "ord.patch", call[c].ord = o,
             ord'[o] = [ord[o] EXCEPT !.status = call[c].status]
      PROVE  Lifecycle!BoardNext
  <2>1. PICK status \in PatchStatuses : status = call[c].status
    BY <1>7, CallTypes DEF TypeOK
  <2>2. ord[o].status \in OrderStatus \ Closed
    BY <1>7, <1>guarded DEF OrdersInv, Checked, LiveOrd, OnOrder
  <2>3. ord[o] \in Rows /\ status \in OrderStatus
    BY <1>7, LiveOrdRow, MovesAssumption DEF MovesAssumption
  <2>4. Shown([ord[o] EXCEPT !.status = status]) = [Shown(ord[o]) EXCEPT !.status = status]
    <3> DEFINE row == [ord[o] EXCEPT !.status = status]
    <3>1. row.status = status /\ row.stamps = ord[o].stamps
      BY <2>3 DEF Rows
    <3> HIDE DEF row
    <3>2. Shown(row) = [status |-> status, stamps |-> ord[o].stamps]
      BY <2>3, <3>1 DEF Shown
    <3>3. Shown(ord[o]) = [status |-> ord[o].status, stamps |-> ord[o].stamps]
      BY <2>2 DEF Shown
    <3> QED BY <3>2, <3>3 DEF row
  <2>5. Lifecycle!Patch(o, status)
    BY <1>2, <1>3, <1>7, <2>1, <2>2, <2>4, SameMoves DEF Lifecycle!Patch
  <2> QED BY <1>guarded, <2>5 DEF Lifecycle!BoardNext
<1>8. ASSUME NEW c \in Callers, LiveOrd(o), call[c].step = "ord.delete", call[c].ord = o,
             ord'[o] = GoneRow
      PROVE  Lifecycle!BoardNext
  <2>1. ord[o].status # "SERVED" /\ ord[o].status \in OrderStatus
    BY <1>8, <1>guarded DEF OrdersInv, Checked, LiveOrd, OnOrder
  <2>2. Shown(GoneRow) = GoneRow
    BY VacantRows DEF Shown
  <2>3. Lifecycle!Delete(o)
    BY <1>2, <1>3, <1>8, <2>1, <2>2, SameMoves DEF Lifecycle!Delete, Lifecycle!Live
  <2> QED BY <1>guarded, <2>3 DEF Lifecycle!BoardNext
<1> QED BY <1>4, <1>5, <1>6, <1>7, <1>8, OrdEffects DEF OrdEffect

(***************************************************************************)
(* To the guarded orders, whatever happens to the others, the handlers of  *)
(* OrdersService implement the board on which every request is one step.   *)
(***************************************************************************)
THEOREM OrdersImplementLifecycle == Spec => ImplementsLifecycle
<1>1. Init => Lifecycle!BoardInit
  BY VacantRows, SameMoves, OrdersAssumption DEF OrdersAssumption, Init, Lifecycle!BoardInit, Board, Shown
<1>2. TypeOK /\ OrdersInv /\ [Next]_vars
        => [Lifecycle!BoardNext]_Board
  BY BoardStep
<1> QED BY <1>1, <1>2, OrdersInvariant, TypeCorrect, PTL
        DEF Spec, ImplementsLifecycle, Lifecycle!BoardSpec

-----------------------------------------------------------------------------
(***************************************************************************)
(* Order numbers.  A row does not say for which local day its number was   *)
(* counted, so the invariant says that there are such days for all rows.   *)
(***************************************************************************)

\* Orders and requests whose number was counted for a day and is the seq-th of it.
CountedFor(since, day, seq) ==
  {o \in Ords : LiveOrd(o) /\ since[o] = day /\ ord[o].number.seq = seq}
ClaimedFor(day, seq) ==
  {c \in Callers : call[c].step = "ord.insert" /\ LocalDay(call[c].at) = day
                     /\ call[c].number.seq = seq}

\* What a create in flight has counted.
CreatesCount == \A c \in Callers :
  /\ call[c].step \in {"ord.count", "ord.insert"} => c \in Tills /\ call[c].at <= clock
  /\ call[c].step = "ord.insert" => call[c].number.date = UtcDate(call[c].at)

\* What a stored order was numbered by.
RowsCount(since) == \A o \in Ords : LiveOrd(o) =>
  ord[o].number.date \in {since[o], since[o] + ZoneShift}

\* How many orders deletions let share a number, beside one per till.
Spare == Cardinality(Deleted) * Cardinality(Tills)

(***************************************************************************)
(* Holders h and claims c of a number: one per till and those to spare.    *)
(* When the count is about to give out the number once more, the tills     *)
(* have none of it that they could not lose; and when the count is below   *)
(* even that, no claim of it is new.                                       *)
(***************************************************************************)
Fits(h, c, count, seq, spare, tills) ==
  /\ h + c <= spare + tills
  /\ count + 1 = seq => h <= spare
  /\ count + 1 < seq => h + c <= spare

FewOfADay(since) == \A day \in Int, seq \in Nat :
  Fits(Cardinality(CountedFor(since, day, seq)), Cardinality(ClaimedFor(day, seq)),
       Cardinality(CreatedSince(day)), seq, Spare, Cardinality(Tills))

NumbersInv ==
  CreatesCount /\ \E since \in [Ords -> Nat] : RowsCount(since) /\ FewOfADay(since)

LEMMA NumberSets ==
  ASSUME NEW since, NEW day, NEW seq
  PROVE  /\ IsFiniteSet(CountedFor(since, day, seq)) /\ IsFiniteSet(ClaimedFor(day, seq))
         /\ Cardinality(CountedFor(since, day, seq)) \in Nat
         /\ Cardinality(ClaimedFor(day, seq)) \in Nat
         /\ IsFiniteSet(Tills) /\ Cardinality(Tills) \in Nat
BY MovesAssumption, OrdersAssumption, HandlersAssumption, FS_Subset, FS_CardinalityType
DEF MovesAssumption, OrdersAssumption, HandlersAssumption, CountedFor, ClaimedFor

LEMMA NumberSetsNext ==
  ASSUME NEW since, NEW day, NEW seq
  PROVE  /\ IsFiniteSet(CountedFor(since, day, seq)') /\ IsFiniteSet(ClaimedFor(day, seq)')
         /\ Cardinality(CountedFor(since, day, seq)') \in Nat
         /\ Cardinality(ClaimedFor(day, seq)') \in Nat
         /\ IsFiniteSet(CreatedSince(day)') /\ Cardinality(CreatedSince(day)') \in Nat
BY MovesAssumption, OrdersAssumption, HandlersAssumption, FS_Subset, FS_CardinalityType
DEF MovesAssumption, OrdersAssumption, HandlersAssumption, CountedFor, ClaimedFor, CreatedSince

LEMMA SpareType ==
  /\ IsFiniteSet(Deleted) /\ Cardinality(Deleted) \in Nat
  /\ Spare \in Nat
<1>1. IsFiniteSet(Deleted) /\ Cardinality(Deleted) \in Nat
  BY MovesAssumption, FS_Subset, FS_CardinalityType DEF MovesAssumption, Deleted
<1>2. ASSUME NEW k \in Nat, NEW v \in Nat PROVE k * v \in Nat
  BY <1>2
<1> QED BY <1>1, <1>2, NumberSets DEF Spare

LEMMA HalfDays ==
  ASSUME NEW h \in Nat
  PROVE  /\ LocalDay(h) \in Nat
         /\ UtcDate(h) \in {LocalDay(h), LocalDay(h) + ZoneShift}
         /\ \A g \in Nat : g <= h => LocalDay(g) <= LocalDay(h)
BY OrdersAssumption DEF OrdersAssumption, LocalDay, UtcDate

\* Fewer claims, or a count that only grew, fit as well.
LEMMA StillFits ==
  ASSUME NEW h \in Nat, NEW c \in Nat, NEW count \in Nat, NEW seq \in Nat, NEW spare \in Nat,
         NEW tills \in Nat, Fits(h, c, count, seq, spare, tills),
         NEW c2 \in Nat, c2 <= c, NEW count2 \in Nat, count <= count2
  PROVE  Fits(h, c2, count2, seq, spare, tills)
<1>1. h + c2 <= h + c
  OBVIOUS
<1>2. h <= h + c
  OBVIOUS
<1>3. count2 + 1 = seq => count + 1 = seq \/ count + 1 < seq
  OBVIOUS
<1>4. count2 + 1 < seq => count + 1 < seq
  OBVIOUS
<1> QED BY <1>1, <1>2, <1>3, <1>4 DEF Fits

\* The number just counted: claimed by tills only, and held by those to spare.
LEMMA CountFits ==
  ASSUME NEW h \in Nat, NEW c \in Nat, NEW count \in Nat, NEW spare \in Nat,
         NEW tills \in Nat, Fits(h, c, count, count + 1, spare, tills),
         NEW c2 \in Nat, c2 <= tills
  PROVE  Fits(h, c2, count, count + 1, spare, tills)
BY DEF Fits

\* A claim becomes a holder, and the count goes up.
LEMMA InsertFits ==
  ASSUME NEW h \in Nat, NEW c \in Nat, NEW count \in Nat, NEW seq \in Nat, NEW spare \in Nat,
         NEW tills \in Nat, Fits(h, c, count, seq, spare, tills),
         NEW h2, h2 = h + 1, NEW c2 \in Nat, c2 = c - 1, NEW count2, count2 = count + 1
  PROVE  Fits(h2, c2, count2, seq, spare, tills)
<1>1. h2 + c2 = h + c
  OBVIOUS
<1>2. h2 <= h + c
  OBVIOUS
<1> QED BY <1>1, <1>2 DEF Fits

\* A deletion takes the count down by one at most, and makes room for one more per till.
LEMMA DeleteFits ==
  ASSUME NEW h \in Nat, NEW c \in Nat, NEW count \in Nat, NEW seq \in Nat, NEW spare \in Nat,
         NEW tills \in Nat, Fits(h, c, count, seq, spare, tills), c <= tills,
         NEW h2 \in Nat, h2 <= h, NEW c2 \in Nat, c2 <= c, NEW count2 \in Nat, count <= count2 + 1
  PROVE  Fits(h2, c2, count2, seq, spare + tills, tills)
<1>1. h2 + c2 <= h + c /\ h2 <= h + c
  OBVIOUS
<1>2. h + c <= spare + tills
  BY DEF Fits
<1>3. h2 + c2 <= (spare + tills) + tills /\ h2 <= spare + tills
  BY <1>1, <1>2
<1>4. ASSUME count2 + 1 < seq PROVE h2 + c2 <= spare + tills
  BY <1>1, <1>2
<1> QED BY <1>3, <1>4 DEF Fits

\* Rows keep number and day, none is deleted and no create counts: most of the steps.
RowsKeep == \A o \in Ords :
  /\ LiveOrd(o)' <=> LiveOrd(o)
  /\ ord'[o] = GoneRow <=> ord[o] = GoneRow
  /\ LiveOrd(o) => ord'[o].number = ord[o].number /\ ord'[o].day = ord[o].day

LEMMA KeptCounts ==
  ASSUME RowsKeep
  PROVE  /\ \A day : CreatedSince(day)' = CreatedSince(day)
         /\ \A since, day, seq : CountedFor(since, day, seq)' = CountedFor(since, day, seq)
         /\ \A since : RowsCount(since) => RowsCount(since)'
         /\ Spare' = Spare
<1>1. \A day : CreatedSince(day)' = CreatedSince(day)
  BY DEF RowsKeep, CreatedSince
<1>2. \A since, day, seq : CountedFor(since, day, seq)' = CountedFor(since, day, seq)
  BY DEF RowsKeep, CountedFor
<1>3. \A since : RowsCount(since) => RowsCount(since)'
  BY DEF RowsKeep, RowsCount
<1>4. Deleted' = Deleted
  BY DEF RowsKeep, Deleted
<1> QED BY <1>1, <1>2, <1>3, <1>4 DEF Spare

\* Calls that go on as creates are creates that were; a create that begins has counted nothing.
CreatesKeep == \A c \in Callers :
  \/ call'[c] = call[c]
  \/ call'[c].step \notin {"ord.count", "ord.insert"}
  \/ call'[c].step = "ord.count" /\ c \in Tills /\ call'[c].at = clock

LEMMA CreatesStillCount ==
  ASSUME TypeOK, CreatesCount, CreatesKeep, clock' \in {clock, clock + 1}
  PROVE  /\ CreatesCount'
         /\ \A day, seq : ClaimedFor(day, seq)' \subseteq ClaimedFor(day, seq)
<1>0. clock \in Nat /\ \A c \in Callers : call[c] \in Calls
  BY DEF TypeOK
<1>1. CreatesCount'
  <2> SUFFICES ASSUME NEW c \in Callers, NEW k, k = call'[c]
               PROVE  /\ k.step \in {"ord.count", "ord.insert"} => c \in Tills /\ k.at <= clock'
                      /\ k.step = "ord.insert" => k.number.date = UtcDate(k.at)
    BY DEF CreatesCount
  <2>1. CASE k = call[c]
    <3>1. k.step \in {"ord.count", "ord.insert"} => k.at \in Nat
      BY <1>0, <2>1, CallTypes
    <3> QED BY <1>0, <2>1, <3>1 DEF CreatesCount
  <2>2. CASE k.step \notin {"ord.count", "ord.insert"}
    BY <2>2
  <2>3. CASE k.step = "ord.count" /\ c \in Tills /\ k.at = clock
    BY <1>0, <2>3
  <2> QED BY <2>1, <2>2, <2>3 DEF CreatesKeep
<1>2. \A day, seq : ClaimedFor(day, seq)' \subseteq ClaimedFor(day, seq)
  BY DEF CreatesKeep, ClaimedFor
<1> QED BY <1>1, <1>2

LEMMA QuietNumbers ==
  ASSUME TypeOK, NumbersInv, RowsKeep, CreatesKeep, clock' \in {clock, clock + 1}
  PROVE  NumbersInv'
<1>1. PICK since \in [Ords -> Nat] : RowsCount(since) /\ FewOfADay(since)
  BY DEF NumbersInv
<1>2. RowsCount(since)'
  BY <1>1, KeptCounts
<1>3. FewOfADay(since)'
  <2> SUFFICES ASSUME NEW day \in Int, NEW seq \in Nat
               PROVE  Fits(Cardinality(CountedFor(since, day, seq)'),
                           Cardinality(ClaimedFor(day, seq)'),
                           Cardinality(CreatedSince(day)'), seq, Spare', Cardinality(Tills))
    BY DEF FewOfADay, Fits
  <2>1. /\ CountedFor(since, day, seq)' = CountedFor(since, day, seq)
        /\ CreatedSince(day)' = CreatedSince(day) /\ Spare' = Spare
    BY KeptCounts
  <2>2. Cardinality(ClaimedFor(day, seq)') <= Cardinality(ClaimedFor(day, seq))
    BY CreatesStillCount, NumberSets, FS_Subset DEF NumbersInv
  <2>3. Fits(Cardinality(CountedFor(since, day, seq)), Cardinality(ClaimedFor(day, seq)),
             Cardinality(CreatedSince(day)), seq, Spare, Cardinality(Tills))
    BY <1>1 DEF FewOfADay
  <2>4. /\ Cardinality(CountedFor(since, day, seq)) \in Nat /\ Cardinality(ClaimedFor(day, seq)) \in Nat
        /\ Cardinality(CreatedSince(day)) \in Nat /\ Spare \in Nat /\ Cardinality(Tills) \in Nat
        /\ Cardinality(ClaimedFor(day, seq)') \in Nat /\ Cardinality(CreatedSince(day)') \in Nat
    BY NumberSets, NumberSetsNext, CountType, SpareType
  <2>5. Cardinality(CreatedSince(day)) <= Cardinality(CreatedSince(day)')
    BY <2>1, <2>4
  <2> QED BY <2>1, <2>2, <2>3, <2>4, <2>5, StillFits
<1> QED BY <1>1, <1>2, <1>3, CreatesStillCount DEF NumbersInv

\* A count comes to one more than the orders since midnight.
LEMMA CountNumbers ==
  ASSUME TypeOK, NumbersInv, NEW c \in Callers, CountOrders(c)
  PROVE  NumbersInv'
<1> DEFINE at == call[c].at
           L == LocalDay(at)
           C == Cardinality(CreatedSince(L))
           n == NumberAt(at, 1)
           k == [step |-> "ord.insert", sale |-> call[c].sale, at |-> at, number |-> n]
<1>0. /\ clock' = clock /\ ord' = ord /\ call[c].step = "ord.count"
      /\ call' = [call EXCEPT ![c] = k]
  BY DEF CountOrders
<1>1. at \in Nat /\ L \in Nat /\ C \in Nat
  BY <1>0, CallTypes, CountType, HalfDays DEF TypeOK
<1>2. n.date = UtcDate(at) /\ n.seq = C + 1
  BY DEF NumberAt
<1>3. call'[c] = k /\ \A d \in Callers : d # c => call'[d] = call[d]
  BY <1>0 DEF TypeOK
<1>4. k.step = "ord.insert" /\ k.at = at /\ k.number = n
  OBVIOUS
<1>5. RowsKeep
  BY <1>0 DEF RowsKeep, LiveOrd
<1>6. c \in Tills /\ at <= clock
  BY <1>0 DEF NumbersInv, CreatesCount
<1> HIDE DEF n, k
<1>7. CreatesCount'
  <2> SUFFICES ASSUME NEW d \in Callers, NEW q, q = call'[d]
               PROVE  /\ q.step \in {"ord.count", "ord.insert"} => d \in Tills /\ q.at <= clock
                      /\ q.step = "ord.insert" => q.number.date = UtcDate(q.at)
    BY <1>0 DEF CreatesCount
  <2>1. CASE d = c
    BY <1>2, <1>3, <1>4, <1>6, <2>1
  <2>2. CASE d # c
    BY <1>3, <2>2 DEF NumbersInv, CreatesCount
  <2> QED BY <2>1, <2>2
<1>8. PICK since \in [Ords -> Nat] : RowsCount(since) /\ FewOfADay(since)
  BY DEF NumbersInv
<1>9. RowsCount(since)'
  BY <1>5, <1>8, KeptCounts
<1>10. FewOfADay(since)'
  <2> SUFFICES ASSUME NEW day \in Int, NEW seq \in Nat
               PROVE  Fits(Cardinality(CountedFor(since, day, seq)'),
                           Cardinality(ClaimedFor(day, seq)'),
                           Cardinality(CreatedSince(day)'), seq, Spare', Cardinality(Tills))
    BY DEF FewOfADay, Fits
  <2>1. /\ CountedFor(since, day, seq)' = CountedFor(since, day, seq)
        /\ CreatedSince(day)' = CreatedSince(day) /\ Spare' = Spare
    BY <1>5, KeptCounts
  <2>2. Fits(Cardinality(CountedFor(since, day, seq)), Cardinality(ClaimedFor(day, seq)),
             Cardinality(CreatedSince(day)), seq, Spare, Cardinality(Tills))
    BY <1>8 DEF FewOfADay
  <2>3. CASE day = L /\ seq = n.seq
    <3>1. ClaimedFor(day, seq)' \subseteq Tills
      BY <1>7 DEF ClaimedFor, CreatesCount
    <3>2. Cardinality(ClaimedFor(day, seq)') <= Cardinality(Tills)
      BY <3>1, NumberSets, FS_Subset
    <3>3. seq = Cardinality(CreatedSince(day)) + 1
      BY <1>2, <2>3
    <3> QED BY <2>1, <2>2, <3>2, <3>3, CountFits, NumberSets, NumberSetsNext, CountType, SpareType
  <2>4. CASE ~(day = L /\ seq = n.seq)
    <3>1. ClaimedFor(day, seq)' \subseteq ClaimedFor(day, seq)
      BY <1>3, <1>4, <2>4 DEF ClaimedFor
    <3>2. Cardinality(ClaimedFor(day, seq)') <= Cardinality(ClaimedFor(day, seq))
      BY <3>1, NumberSets, FS_Subset
    <3>3. /\ Cardinality(CountedFor(since, day, seq)) \in Nat /\ Cardinality(ClaimedFor(day, seq)) \in Nat
          /\ Cardinality(CreatedSince(day)) \in Nat /\ Spare \in Nat /\ Cardinality(Tills) \in Nat
          /\ Cardinality(ClaimedFor(day, seq)') \in Nat /\ Cardinality(CreatedSince(day)') \in Nat
      BY NumberSets, NumberSetsNext, CountType, SpareType
    <3>4. Cardinality(CreatedSince(day)) <= Cardinality(CreatedSince(day)')
      BY <2>1, <3>3
    <3> QED BY <2>1, <2>2, <3>2, <3>3, <3>4, StillFits
  <2> QED BY <2>3, <2>4
<1> QED BY <1>7, <1>8, <1>9, <1>10 DEF NumbersInv

\* An insert turns a claim of a number into a holder of it, and is itself counted from then on.
LEMMA InsertNumbers ==
  ASSUME TypeOK, NumbersInv, NEW c \in Callers, call[c].step = "ord.insert",
         NEW o \in Ords, ord[o] = NoRow, ord' = [ord EXCEPT ![o] = NewOrd(call[c].number)],
         End(c), clock' = clock
  PROVE  NumbersInv'
<1> DEFINE at == call[c].at
           n == call[c].number
           row == NewOrd(n)
<1>0. at \in Nat /\ LocalDay(at) \in Nat
  BY CallTypes, HalfDays DEF TypeOK
<1> PICK L \in Nat : L = LocalDay(at)
  BY <1>0
<1>1. at \in Nat /\ n \in Numbers /\ clock \in Nat
  BY CallTypes, HalfDays DEF TypeOK
<1>2. c \in Tills /\ at <= clock /\ n.date = UtcDate(at)
  BY DEF NumbersInv, CreatesCount
<1>3. row.number = n /\ row.day = LocalDay(clock) /\ row.status \in OrderStatus
  BY DEF NewOrd, OrderStatus
<1>4. L <= LocalDay(clock) /\ LocalDay(clock) \in Nat
  BY <1>1, <1>2, HalfDays
<1> HIDE DEF row
<1>5. ord'[o] = row /\ \A p \in Ords : p # o => ord'[p] = ord[p]
  BY DEF row, TypeOK
<1>6. ~LiveOrd(o) /\ LiveOrd(o)' /\ \A p \in Ords : p # o => (LiveOrd(p)' <=> LiveOrd(p))
  BY <1>3, <1>5, VacantRows DEF LiveOrd
<1>7. call'[c] = Idle /\ \A d \in Callers : d # c => call'[d] = call[d]
  BY DEF End, TypeOK
<1>8. Spare' = Spare
  <2>1. ord[o] # GoneRow /\ ord'[o] # GoneRow
    BY <1>3, <1>5, VacantRows DEF NoRow, GoneRow
  <2>2. Deleted' = Deleted
    BY <1>5, <2>1 DEF Deleted
  <2> QED BY <2>2 DEF Spare
<1>9. ASSUME NEW day PROVE Cardinality(CreatedSince(day)) <= Cardinality(CreatedSince(day)')
  <2>1. CreatedSince(day) \subseteq CreatedSince(day)'
    BY <1>5, <1>6 DEF CreatedSince
  <2> QED BY <2>1, CountType, NumberSetsNext, FS_Subset
<1>10. Cardinality(CreatedSince(L)') = Cardinality(CreatedSince(L)) + 1
  <2>1. o \in CreatedSince(L)'
    BY <1>3, <1>4, <1>5, <1>6 DEF CreatedSince
  <2>2. o \notin CreatedSince(L) /\ CreatedSince(L)' = CreatedSince(L) \cup {o}
    BY <1>5, <1>6, <2>1 DEF CreatedSince
  <2> QED BY <2>2, CountType, FS_AddElement
<1>11. CreatesCount'
  <2>1. CreatesKeep
    BY <1>7 DEF CreatesKeep, Idle
  <2> QED BY <2>1, CreatesStillCount DEF NumbersInv
<1>12. PICK since \in [Ords -> Nat] : RowsCount(since) /\ FewOfADay(since)
  BY DEF NumbersInv
<1>13. PICK from \in [Ords -> Nat] : from[o] = L /\ \A p \in Ords : p # o => from[p] = since[p]
  <2>1. [since EXCEPT ![o] = L] \in [Ords -> Nat]
    OBVIOUS
  <2> QED BY <2>1
<1>14. RowsCount(from)'
  <2> SUFFICES ASSUME NEW p \in Ords, LiveOrd(p)'
               PROVE  ord'[p].number.date \in {from[p], from[p] + ZoneShift}
    BY DEF RowsCount
  <2>1. CASE p = o
    <3>1. n.date \in {L, L + ZoneShift}
      BY <1>1, <1>2, HalfDays
    <3> QED BY <1>3, <1>5, <1>13, <2>1, <3>1
  <2>2. CASE p # o
    BY <1>5, <1>6, <1>12, <1>13, <2>2 DEF RowsCount
  <2> QED BY <2>1, <2>2
<1>15. FewOfADay(from)'
  <2> SUFFICES ASSUME NEW day \in Int, NEW seq \in Nat
               PROVE  Fits(Cardinality(CountedFor(from, day, seq)'),
                           Cardinality(ClaimedFor(day, seq)'),
                           Cardinality(CreatedSince(day)'), seq, Spare, Cardinality(Tills))
    BY <1>8 DEF FewOfADay, Fits
  <2>1. Fits(Cardinality(CountedFor(since, day, seq)), Cardinality(ClaimedFor(day, seq)),
             Cardinality(CreatedSince(day)), seq, Spare, Cardinality(Tills))
    BY <1>12 DEF FewOfADay
  <2>2. CASE day = L /\ seq = n.seq
    <3>1. /\ CountedFor(from, day, seq)' = CountedFor(since, day, seq) \cup {o}
          /\ o \notin CountedFor(since, day, seq)
      BY <1>3, <1>5, <1>6, <1>13, <2>2 DEF CountedFor
    <3>2. ClaimedFor(day, seq)' = ClaimedFor(day, seq) \ {c} /\ c \in ClaimedFor(day, seq)
      BY <1>7, <2>2 DEF ClaimedFor, Idle
    <3>3. Cardinality(CountedFor(from, day, seq)') = Cardinality(CountedFor(since, day, seq)) + 1
      BY <3>1, NumberSets, FS_AddElement
    <3>4. Cardinality(ClaimedFor(day, seq)') = Cardinality(ClaimedFor(day, seq)) - 1
      BY <3>2, NumberSets, FS_RemoveElement
    <3>5. /\ Cardinality(CountedFor(since, day, seq)) \in Nat /\ Cardinality(ClaimedFor(day, seq)) \in Nat
          /\ Cardinality(CreatedSince(day)) \in Nat /\ Spare \in Nat /\ Cardinality(Tills) \in Nat
          /\ Cardinality(ClaimedFor(day, seq)') \in Nat /\ Cardinality(CreatedSince(day)') \in Nat
      BY NumberSets, NumberSetsNext, CountType, SpareType
    <3>6. Cardinality(CreatedSince(day)') = Cardinality(CreatedSince(day)) + 1
      BY <1>10, <2>2
    <3> QED BY <2>1, <3>3, <3>4, <3>5, <3>6, InsertFits
  <2>3. CASE ~(day = L /\ seq = n.seq)
    <3>1. CountedFor(from, day, seq)' = CountedFor(since, day, seq)
      BY <1>3, <1>5, <1>6, <1>13, <2>3 DEF CountedFor
    <3>2. ClaimedFor(day, seq)' \subseteq ClaimedFor(day, seq)
      BY <1>7 DEF ClaimedFor, Idle
    <3>3. Cardinality(ClaimedFor(day, seq)') <= Cardinality(ClaimedFor(day, seq))
      BY <3>2, NumberSets, FS_Subset
    <3> QED BY <1>9, <2>1, <3>1, <3>3, StillFits, NumberSets, NumberSetsNext, CountType, SpareType
  <2> QED BY <2>2, <2>3
<1> QED BY <1>11, <1>13, <1>14, <1>15 DEF NumbersInv

\* A deletion lets the count give out a number again, to each till once.
LEMMA DeleteNumbers ==
  ASSUME TypeOK, NumbersInv, NEW c \in Callers, End(c), clock' = clock,
         NEW o \in Ords, LiveOrd(o), ord' = [ord EXCEPT ![o] = GoneRow]
  PROVE  NumbersInv'
<1>1. ord'[o] = GoneRow /\ \A p \in Ords : p # o => ord'[p] = ord[p]
  BY DEF TypeOK
<1>2. ~LiveOrd(o)' /\ \A p \in Ords : p # o => (LiveOrd(p)' <=> LiveOrd(p))
  BY <1>1, VacantRows DEF LiveOrd
<1>3. Spare' = Spare + Cardinality(Tills)
  <2>1. Deleted' = Deleted \cup {o} /\ o \notin Deleted
    BY <1>1, VacantRows DEF Deleted, LiveOrd
  <2>2. Cardinality(Deleted') = Cardinality(Deleted) + 1
    BY <2>1, SpareType, FS_AddElement
  <2>3. ASSUME NEW a \in Nat, NEW t \in Nat PROVE (a + 1) * t = a * t + t
    BY <2>3
  <2> QED BY <2>2, <2>3, SpareType, NumberSets DEF Spare
<1>4. CreatesKeep
  BY DEF CreatesKeep, End, Idle, TypeOK
<1>5. CreatesCount'
  BY <1>4, CreatesStillCount DEF NumbersInv
<1>6. PICK since \in [Ords -> Nat] : RowsCount(since) /\ FewOfADay(since)
  BY DEF NumbersInv
<1>7. RowsCount(since)'
  BY <1>1, <1>2, <1>6 DEF RowsCount
<1>8. FewOfADay(since)'
  <2> SUFFICES ASSUME NEW day \in Int, NEW seq \in Nat
               PROVE  Fits(Cardinality(CountedFor(since, day, seq)'),
                           Cardinality(ClaimedFor(day, seq)'),
                           Cardinality(CreatedSince(day)'), seq, Spare', Cardinality(Tills))
    BY DEF FewOfADay, Fits
  <2>1. Fits(Cardinality(CountedFor(since, day, seq)), Cardinality(ClaimedFor(day, seq)),
             Cardinality(CreatedSince(day)), seq, Spare, Cardinality(Tills))
    BY <1>6 DEF FewOfADay
  <2>2. Cardinality(CountedFor(since, day, seq)') <= Cardinality(CountedFor(since, day, seq))
    <3>1. CountedFor(since, day, seq)' \subseteq CountedFor(since, day, seq)
      BY <1>1, <1>2 DEF CountedFor
    <3> QED BY <3>1, NumberSets, FS_Subset
  <2>3. /\ Cardinality(ClaimedFor(day, seq)') <= Cardinality(ClaimedFor(day, seq))
        /\ Cardinality(ClaimedFor(day, seq)) <= Cardinality(Tills)
    <3>1. ClaimedFor(day, seq)' \subseteq ClaimedFor(day, seq)
      BY <1>4, CreatesStillCount DEF NumbersInv
    <3>2. ClaimedFor(day, seq) \subseteq Tills
      BY DEF ClaimedFor, NumbersInv, CreatesCount
    <3> QED BY <3>1, <3>2, NumberSets, FS_Subset
  <2>4. Cardinality(CreatedSince(day)) <= Cardinality(CreatedSince(day)') + 1
    <3>1. CreatedSince(day) \subseteq CreatedSince(day)' \cup {o}
      BY <1>1, <1>2 DEF CreatedSince
    <3>2. /\ IsFiniteSet(CreatedSince(day)' \cup {o})
          /\ Cardinality(CreatedSince(day)' \cup {o}) \in
               {Cardinality(CreatedSince(day)'), Cardinality(CreatedSince(day)') + 1}
      BY NumberSetsNext, FS_AddElement
    <3>3. Cardinality(CreatedSince(day)) <= Cardinality(CreatedSince(day)' \cup {o})
      BY <3>1, <3>2, FS_Subset
    <3> QED BY <3>2, <3>3, CountType, NumberSetsNext
  <2> QED BY <1>3, <2>1, <2>2, <2>3, <2>4, DeleteFits, NumberSets, NumberSetsNext, CountType, SpareType
<1> QED BY <1>5, <1>6, <1>7, <1>8 DEF NumbersInv

LEMMA NumbersStep ==
  ASSUME TypeOK, NumbersInv, [Next]_vars
  PROVE  NumbersInv'
<1>0. clock \in Nat /\ call \in [Callers -> Calls]
  BY DEF TypeOK
<1>quiet. ASSUME ord' = ord, CreatesKeep, clock' \in {clock, clock + 1} PROVE NumbersInv'
  <2>1. RowsKeep
    BY <1>quiet DEF RowsKeep, LiveOrd
  <2> QED BY <1>quiet, <2>1, QuietNumbers
<1>end. ASSUME NEW c \in Callers, End(c) PROVE CreatesKeep
  BY <1>0, <1>end DEF End, Idle, CreatesKeep
<1>1. ASSUME NEW c \in Callers, BeginCall(c) PROVE NumbersInv'
  <2>1. ASSUME NEW sale \in Txs \cup {Absent}, CreateRead(c, sale) PROVE CreatesKeep
    BY <1>0, <2>1 DEF CreateRead, Start, CreatesKeep
  <2>2. ASSUME NEW o \in Ords, NEW move \in Moves, MoveRead(c, o, move) PROVE CreatesKeep
    BY <1>0, <2>2 DEF MoveRead, Start, CreatesKeep
  <2>3. ASSUME NEW o \in Ords, NEW status \in PatchStatuses, NEW sale \in Txs \cup {Absent},
               PatchRead(c, o, status, sale)
        PROVE  CreatesKeep
    BY <1>0, <2>3 DEF PatchRead, Start, CreatesKeep
  <2>4. ASSUME NEW o \in Ords, RemoveRead(c, o) PROVE CreatesKeep
    BY <1>0, <2>4 DEF RemoveRead, Start, CreatesKeep
  <2>5. CreatesKeep
    BY <1>1, <2>1, <2>2, <2>3, <2>4 DEF BeginCall
  <2>6. ord' = ord /\ clock' = clock
    BY <1>1 DEF BeginCall, CreateRead, MoveRead, PatchRead, RemoveRead
  <2> QED BY <1>quiet, <2>5, <2>6
<1>2. ASSUME NEW c \in Callers, CountOrders(c) PROVE NumbersInv'
  BY <1>2, CountNumbers
<1>3. ASSUME NEW c \in Callers, InsertOrder(c) PROVE NumbersInv'
  <2>1. CASE ord' = ord
    BY <1>3, <1>end, <1>quiet, <2>1 DEF InsertOrder
  <2>2. CASE ord' # ord
    <3>1. PICK o \in Ords : ord[o] = NoRow /\ ord' = [ord EXCEPT ![o] = NewOrd(call[c].number)]
      BY <1>3, <2>2 DEF InsertOrder
    <3>2. call[c].step = "ord.insert" /\ End(c) /\ clock' = clock
      BY <1>3 DEF InsertOrder
    <3> QED BY <3>1, <3>2, InsertNumbers
  <2> QED BY <2>1, <2>2
<1>4. ASSUME NEW c \in Callers, MoveWrite(c) PROVE NumbersInv'
  <2>1. PICK o \in Ords, move \in Moves : o = call[c].ord /\ move = call[c].move
    BY <1>0, <1>4, CallTypes DEF MoveWrite
  <2>2. ord' = IF LiveOrd(o) THEN [ord EXCEPT ![o] = Moved(ord[o], move)] ELSE ord
    BY <1>4, <2>1 DEF MoveWrite
  <2>3. CASE LiveOrd(o)
    <3>1. ord[o] \in Rows /\ move.to \in OrderStatus
      BY <2>3, LiveOrdRow, MoveTypes
    <3>2. /\ Moved(ord[o], move).status = move.to
          /\ Moved(ord[o], move).number = ord[o].number
          /\ Moved(ord[o], move).day = ord[o].day
      BY <3>1 DEF Moved, Rows
    <3>3. ord'[o] = Moved(ord[o], move) /\ \A p \in Ords : p # o => ord'[p] = ord[p]
      BY <2>2, <2>3 DEF TypeOK
    <3>4. ord[o] # GoneRow /\ ord'[o] # GoneRow
      BY <2>3, <3>1, <3>2, <3>3, VacantRows DEF LiveOrd
    <3>5. RowsKeep
      BY <2>3, <3>1, <3>2, <3>3, <3>4 DEF RowsKeep, LiveOrd
    <3> QED BY <1>4, <1>end, <3>5, QuietNumbers DEF MoveWrite
  <2>4. CASE ~LiveOrd(o)
    BY <1>4, <1>end, <1>quiet, <2>2, <2>4 DEF MoveWrite
  <2> QED BY <2>3, <2>4
<1>5. ASSUME NEW c \in Callers, PatchWrite(c) PROVE NumbersInv'
  <2>1. PICK o \in Ords, status \in OrderStatus : o = call[c].ord /\ status = call[c].status
    BY <1>0, <1>5, CallTypes, MovesAssumption DEF PatchWrite, MovesAssumption
  <2>2. \/ ord' = ord
        \/ LiveOrd(o) /\ ord' = [ord EXCEPT ![o].status = status]
    BY <1>5, <2>1 DEF PatchWrite
  <2>3. CASE ord' = ord
    BY <1>5, <1>end, <1>quiet, <2>3 DEF PatchWrite
  <2>4. CASE LiveOrd(o) /\ ord' = [ord EXCEPT ![o].status = status]
    <3>1. ord[o] \in Rows
      BY <2>4, LiveOrdRow
    <3>2. ord'[o] = [ord[o] EXCEPT !.status = status] /\ \A p \in Ords : p # o => ord'[p] = ord[p]
      BY <2>4 DEF TypeOK
    <3>3. ord'[o].status = status /\ ord'[o].number = ord[o].number /\ ord'[o].day = ord[o].day
      BY <3>1, <3>2 DEF Rows
    <3>4. ord[o] # GoneRow /\ ord'[o] # GoneRow
      BY <2>4, <3>3, VacantRows DEF LiveOrd
    <3>5. RowsKeep
      BY <2>4, <3>2, <3>3, <3>4 DEF RowsKeep, LiveOrd
    <3> QED BY <1>5, <1>end, <3>5, QuietNumbers DEF PatchWrite
  <2> QED BY <2>2, <2>3, <2>4
<1>6. ASSUME NEW c \in Callers, RemoveWrite(c) PROVE NumbersInv'
  <2>1. PICK o \in Ords : o = call[c].ord
    BY <1>0, <1>6, CallTypes DEF RemoveWrite
  <2>2. CASE LiveOrd(o)
    BY <1>6, <2>1, <2>2, DeleteNumbers DEF RemoveWrite
  <2>3. CASE ~LiveOrd(o)
    BY <1>6, <1>end, <1>quiet, <2>1, <2>3 DEF RemoveWrite
  <2> QED BY <2>2, <2>3
<1>7. ASSUME NEW c \in Callers, Abort(c) PROVE NumbersInv'
  BY <1>7, <1>end, <1>quiet DEF Abort, Fail
<1>8. ASSUME NEW t \in Txs, SaleCreated(t) \/ SaleRemoved(t) PROVE NumbersInv'
  BY <1>8, <1>quiet DEF SaleCreated, SaleRemoved, CreatesKeep
<1>9. CASE Tick
  BY <1>9, <1>quiet DEF Tick, CreatesKeep
<1>10. CASE UNCHANGED vars
  BY <1>10, <1>quiet DEF vars, CreatesKeep
<1> QED BY <1>1, <1>2, <1>3, <1>4, <1>5, <1>6, <1>7, <1>8, <1>9, <1>10 DEF Next, Step

LEMMA NumbersInit ==
  ASSUME Init
  PROVE  NumbersInv
<1>1. \A o \in Ords : ~LiveOrd(o)
  BY VacantRows DEF Init, LiveOrd
<1>2. \A c \in Callers : call[c].step = "idle"
  BY DEF Init, HandlersInit, Idle
<1>3. CreatesCount
  BY <1>2 DEF CreatesCount
<1>4. PICK since \in [Ords -> Nat] : TRUE
  <2>1. [o \in Ords |-> 0] \in [Ords -> Nat]
    OBVIOUS
  <2> QED BY <2>1
<1>5. RowsCount(since)
  BY <1>1 DEF RowsCount
<1>6. FewOfADay(since)
  <2> SUFFICES ASSUME NEW day \in Int, NEW seq \in Nat
               PROVE  Fits(Cardinality(CountedFor(since, day, seq)),
                           Cardinality(ClaimedFor(day, seq)),
                           Cardinality(CreatedSince(day)), seq, Spare, Cardinality(Tills))
    BY DEF FewOfADay
  <2>1. CountedFor(since, day, seq) = {} /\ ClaimedFor(day, seq) = {}
    BY <1>1, <1>2 DEF CountedFor, ClaimedFor
  <2>2. Cardinality({}) = 0 /\ Cardinality(Tills) \in Nat /\ Spare \in Nat
    BY FS_EmptySet, NumberSets, SpareType
  <2> QED BY <2>1, <2>2 DEF Fits
<1> QED BY <1>3, <1>5, <1>6 DEF NumbersInv

\* A date spans one local day, or two west of Greenwich.
LEMMA DateSpansDays ==
  ASSUME TypeOK, CreatesCount, NEW since \in [Ords -> Nat], RowsCount(since),
         NEW n \in Numbers
  PROVE  /\ Holders(n) \subseteq CountedFor(since, n.date, n.seq)
                        \cup CountedFor(since, n.date - ZoneShift, n.seq)
         /\ Claims(n) \subseteq ClaimedFor(n.date, n.seq)
                        \cup ClaimedFor(n.date - ZoneShift, n.seq)
<1> ZoneShift \in {0, 1} /\ n.date \in Nat
  BY OrdersAssumption DEF OrdersAssumption, Numbers
<1>1. ASSUME NEW o \in Holders(n)
      PROVE  o \in CountedFor(since, n.date, n.seq)
                     \cup CountedFor(since, n.date - ZoneShift, n.seq)
  <2>1. o \in Ords /\ LiveOrd(o) /\ ord[o].number = n /\ since[o] \in Nat
    BY <1>1 DEF Holders
  <2>2. n.date \in {since[o], since[o] + ZoneShift}
    BY <2>1 DEF RowsCount
  <2>3. since[o] = n.date \/ since[o] = n.date - ZoneShift
    BY <2>1, <2>2
  <2> QED BY <2>1, <2>3 DEF CountedFor
<1>2. ASSUME NEW c \in Claims(n)
      PROVE  c \in ClaimedFor(n.date, n.seq) \cup ClaimedFor(n.date - ZoneShift, n.seq)
  <2>1. c \in Callers /\ call[c].step = "ord.insert" /\ call[c].number = n
    BY <1>2 DEF Claims
  <2>2. PICK at \in Nat : at = call[c].at
    BY <2>1, CallTypes DEF TypeOK
  <2>3. n.date = UtcDate(at)
    BY <2>1, <2>2 DEF CreatesCount
  <2>4. LocalDay(at) = n.date \/ LocalDay(at) = n.date - ZoneShift
    BY <2>3, HalfDays
  <2> QED BY <2>1, <2>2, <2>4 DEF ClaimedFor
<1> QED BY <1>1, <1>2

LEMMA NumbersInUseType ==
  ASSUME TypeOK
  PROVE  NumbersInUse \subseteq Numbers
<1>1. \A o \in Ords : LiveOrd(o) => ord[o].number \in Numbers
  BY LiveOrdRow DEF Rows
<1>2. \A c \in Callers : call[c].step = "ord.insert" => call[c].number \in Numbers
  BY CallTypes DEF TypeOK
<1> QED BY <1>1, <1>2 DEF NumbersInUse

LEMMA NumbersBound ==
  ASSUME TypeOK, NumbersInv
  PROVE  FewShareANumber
<1> DEFINE T == (1 + Cardinality(Deleted)) * Cardinality(Tills)
<1> SUFFICES ASSUME NEW n \in NumbersInUse
             PROVE  Cardinality(Holders(n)) + Cardinality(Claims(n)) <= (1 + ZoneShift) * T
  BY DEF FewShareANumber
<1>0. CreatesCount /\ n \in Numbers /\ n.date \in Nat /\ n.seq \in Nat /\ ZoneShift \in {0, 1}
  BY NumbersInUseType, OrdersAssumption DEF NumbersInv, OrdersAssumption, Numbers
<1>1. PICK since \in [Ords -> Nat] : RowsCount(since) /\ FewOfADay(since)
  BY DEF NumbersInv
<1> DEFINE early == n.date - ZoneShift
           A == CountedFor(since, n.date, n.seq)
           B == CountedFor(since, early, n.seq)
           P == ClaimedFor(n.date, n.seq)
           Q == ClaimedFor(early, n.seq)
<1>t. T = Spare + Cardinality(Tills) /\ T \in Nat
  <2>1. ASSUME NEW d \in Nat, NEW t \in Nat PROVE (1 + d) * t = d * t + t
    BY <2>1
  <2>2. T = Cardinality(Deleted) * Cardinality(Tills) + Cardinality(Tills)
    BY <2>1, SpareType, NumberSets
  <2>3. T = Spare + Cardinality(Tills)
    BY <2>2 DEF Spare
  <2> HIDE DEF T
  <2> QED BY <2>3, SpareType, NumberSets
<1>2. IsFiniteSet(A) /\ IsFiniteSet(B) /\ IsFiniteSet(P) /\ IsFiniteSet(Q) /\ T \in Nat
  BY <1>t, NumberSets
<1>3. Cardinality(A) + Cardinality(P) <= T /\ Cardinality(B) + Cardinality(Q) <= T
  BY <1>0, <1>1, <1>t DEF FewOfADay, Fits
<1>4. Holders(n) \subseteq A \cup B /\ Claims(n) \subseteq P \cup Q
  BY <1>0, <1>1, DateSpansDays
<1>5. ZoneShift = 0 => A = B /\ P = Q
  BY <1>0
<1> HIDE DEF A, B, P, Q, T
<1>6. /\ IsFiniteSet(A \cup B) /\ IsFiniteSet(P \cup Q)
      /\ Cardinality(A \cup B) <= Cardinality(A) + Cardinality(B)
      /\ Cardinality(P \cup Q) <= Cardinality(P) + Cardinality(Q)
  <2>1. Cardinality(A) \in Nat /\ Cardinality(B) \in Nat /\ Cardinality(A \cap B) \in Nat
    BY <1>2, FS_CardinalityType, FS_Intersection
  <2>2. Cardinality(P) \in Nat /\ Cardinality(Q) \in Nat /\ Cardinality(P \cap Q) \in Nat
    BY <1>2, FS_CardinalityType, FS_Intersection
  <2>3. /\ IsFiniteSet(A \cup B)
        /\ Cardinality(A \cup B) = Cardinality(A) + Cardinality(B) - Cardinality(A \cap B)
    BY <1>2, FS_Union
  <2>4. /\ IsFiniteSet(P \cup Q)
        /\ Cardinality(P \cup Q) = Cardinality(P) + Cardinality(Q) - Cardinality(P \cap Q)
    BY <1>2, FS_Union
  <2> QED BY <2>1, <2>2, <2>3, <2>4
<1>7. /\ Cardinality(Holders(n)) <= Cardinality(A \cup B)
      /\ Cardinality(Claims(n)) <= Cardinality(P \cup Q)
      /\ Cardinality(Holders(n)) \in Nat /\ Cardinality(Claims(n)) \in Nat
  BY <1>4, <1>6, FS_Subset, FS_CardinalityType
<1>8. /\ Cardinality(A) \in Nat /\ Cardinality(B) \in Nat
      /\ Cardinality(P) \in Nat /\ Cardinality(Q) \in Nat
      /\ Cardinality(A \cup B) \in Nat /\ Cardinality(P \cup Q) \in Nat
  BY <1>2, <1>6, FS_CardinalityType
<1>9. CASE ZoneShift = 0
  <2>1. A \cup B = A /\ P \cup Q = P
    BY <1>5, <1>9
  <2>2. Cardinality(Holders(n)) <= Cardinality(A) /\ Cardinality(Claims(n)) <= Cardinality(P)
    BY <1>7, <2>1
  <2>3. Cardinality(Holders(n)) + Cardinality(Claims(n)) <= T
    BY <1>2, <1>3, <1>7, <1>8, <2>2
  <2> QED BY <1>2, <1>9, <2>3 DEF T
<1>10. CASE ZoneShift = 1
  <2>1. Cardinality(Holders(n)) + Cardinality(Claims(n)) <= 2 * T
    BY <1>2, <1>3, <1>6, <1>7, <1>8
  <2> QED BY <1>2, <1>10, <2>1 DEF T
<1> QED BY <1>0, <1>9, <1>10

(***************************************************************************)
(* No number is held, stored or about to be, by more orders than there are *)
(* tills, and as many again per order that was ever deleted; or twice that *)
(* west of Greenwich, where one date spans two local days: the numbers of  *)
(* generateOrderNumber (362-375) and the count that remove (340-358)       *)
(* lowers, for any number of orders, tills and requests in flight.         *)
(***************************************************************************)
THEOREM FewOrdersShareANumber == Spec => []FewShareANumber
<1>1. Init => NumbersInv
  BY NumbersInit
<1>2. TypeOK /\ NumbersInv /\ [Next]_vars => NumbersInv'
  BY NumbersStep
<1>3. TypeOK /\ NumbersInv => FewShareANumber
  BY NumbersBound
<1> QED BY <1>1, <1>2, <1>3, TypeCorrect, PTL DEF Spec
=============================================================================
