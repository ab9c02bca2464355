-------------------------------- MODULE Orders --------------------------------
(***************************************************************************)
(* OrdersService: create with its order number, the requests that move an  *)
(* order along, update and remove, several of them in flight together.     *)
(*                                                                         *)
(* Time is counted in half-days of the server's clock.  An order number is *)
(* a date and a sequence number: the date is that of the UTC clock, the    *)
(* sequence counts the orders of the server's local day.                   *)
(*                                                                         *)
(* Clients are careful about the orders of Guarded: at most one request    *)
(* about such an order is in flight.  About the others they do as they     *)
(* please.                                                                 *)
(***************************************************************************)
EXTENDS Integers, OrderMoves, Handlers

CONSTANTS
  Txs,              \* ids of sales an order may name
  Tills,            \* callers that send POST /orders
  Staff,            \* callers that move an order along or update it
  Managers,         \* callers that send DELETE /orders/:id
  Guarded,          \* orders with at most one request in flight
  ZoneShift,        \* half-days by which UTC is ahead: 0, or 1 west of Greenwich
  MaxClock,         \* bound on the clock
  MaxDeleted,       \* bound on the orders deleted
  Absent            \* a request that names no sale

ASSUME OrdersAssumption ==
  /\ Tills \subseteq Callers /\ Staff \subseteq Callers /\ Managers \subseteq Callers
  /\ Guarded \subseteq Ords
  /\ ZoneShift \in {0, 1}
  /\ MaxClock \in Nat /\ MaxDeleted \in Nat
  /\ Absent \notin Txs

VARIABLES
  ord,      \* the Order table
  sales,    \* sales that exist, kept by TransactionsService
  clock     \* half-days of local time

vars == <<ord, sales, clock, call>>

LocalDay(h) == h \div 2
UtcDate(h) == (h + ZoneShift) \div 2

Numbers == [date: Nat, seq: Nat \ {0}]
Rows == [status: OrderStatus, stamps: SUBSET Stamps, number: Numbers, day: Nat]
Calls ==
  {Idle}
  \cup [step: {"ord.count"}, sale: Txs \cup {Absent}, at: Nat]
  \cup [step: {"ord.insert"}, sale: Txs \cup {Absent}, at: Nat, number: Numbers]
  \cup [step: {"ord.move"}, ord: Ords, move: Moves]
  \cup [step: {"ord.patch"}, ord: Ords, status: PatchStatuses, sale: Txs \cup {Absent}]
  \cup [step: {"ord.delete"}, ord: Ords]

TypeOK ==
  /\ ord \in [Ords -> Rows \cup {NoRow, GoneRow}]
  /\ sales \subseteq Txs
  /\ clock \in Nat
  /\ call \in [Callers -> Calls]

LiveOrd(o) == ord[o].status \in OrderStatus
\* Mutant: "gt" instead of "gte".
CreatedAfter(day) == {o \in Ords : LiveOrd(o) /\ ord[o].day > day}
CreatedSince(day) == {o \in Ords : LiveOrd(o) /\ ord[o].day >= day}

\* The number that a count made at h gives.
NumberAt(h, first) ==
  [date |-> UtcDate(h), seq |-> Cardinality(CreatedSince(LocalDay(h))) + first]

\* A request about an existing order: its first statement reads the row.
About(o) ==
  /\ LiveOrd(o)
  /\ o \in Guarded =>
       \A d \in Callers : call[d].step \in {"ord.move", "ord.patch", "ord.delete"} => call[d].ord # o

-----------------------------------------------------------------------------
(* create *)

\* Bound: the Order table hands out the ids of Ords and no more.
RoomForOrder ==
  Cardinality({c \in Callers : call[c].step \in {"ord.count", "ord.insert"}})
    < Cardinality({o \in Ords : ord[o] = NoRow})

\* The sale is looked up when the request names one; the clock is read next.
CreateRead(c, sale) ==
  /\ c \in Tills
  /\ RoomForOrder
  /\ sale = Absent \/ sale \in sales
  /\ Start(c, [step |-> "ord.count", sale |-> sale, at |-> clock])
  /\ UNCHANGED <<ord, sales, clock>>

\* Mutant: the first order of a day is number 0.
CountOrdersFromZero(c) ==
  LET k == call[c] IN
  /\ k.step = "ord.count"
  /\ call' = [call EXCEPT ![c] =
       [step |-> "ord.insert", sale |-> k.sale, at |-> k.at, number |-> NumberAt(k.at, 0)]]
  /\ UNCHANGED <<ord, sales, clock>>

\* generateOrderNumber: the statement counts the orders since the midnight of k.at.
CountOrders(c) ==
  LET k == call[c] IN
  /\ k.step = "ord.count"
  /\ call' = [call EXCEPT ![c] =
       [step |-> "ord.insert", sale |-> k.sale, at |-> k.at, number |-> NumberAt(k.at, 1)]]
  /\ UNCHANGED <<ord, sales, clock>>

NewOrd(number) ==
  [status |-> "PENDING", stamps |-> {}, number |-> number, day |-> LocalDay(clock)]

\* The insert; the foreign key throws when the sale is gone by now.
InsertOrder(c) ==
  LET k == call[c] IN
  /\ k.step = "ord.insert"
  /\ IF k.sale = Absent \/ k.sale \in sales
       THEN \E o \in Ords :
              /\ ord[o] = NoRow
              /\ ord' = [ord EXCEPT ![o] = NewOrd(k.number)]
       ELSE ord' = ord
  /\ End(c)
  /\ UNCHANGED <<sales, clock>>

-----------------------------------------------------------------------------
(* startOrder, markReady, markServed and cancel *)

MoveRead(c, o, move) ==
  /\ c \in Staff
  /\ About(o)
  /\ ord[o].status \in move.from
  /\ Start(c, [step |-> "ord.move", ord |-> o, move |-> move])
  /\ UNCHANGED <<ord, sales, clock>>

MoveWrite(c) ==
  LET o == call[c].ord IN
  /\ call[c].step = "ord.move"
  /\ ord' = IF LiveOrd(o) THEN [ord EXCEPT ![o] = Moved(@, call[c].move)] ELSE ord
  /\ End(c)
  /\ UNCHANGED <<sales, clock>>

-----------------------------------------------------------------------------
(***************************************************************************)
(* update and remove.  An update without a status changes no column that   *)
(* is modelled, so only updates that carry one are enumerated.             *)
(***************************************************************************)

\* Mutant: cancelled orders are updated too.
PatchReadCancelled(c, o, status, sale) ==
  /\ c \in Staff
  /\ About(o)
  /\ ord[o].status # "SERVED"
  /\ Start(c, [step |-> "ord.patch", ord |-> o, status |-> status, sale |-> sale])
  /\ UNCHANGED <<ord, sales, clock>>

PatchRead(c, o, status, sale) ==
  /\ c \in Staff
  /\ About(o)
  /\ ord[o].status \notin Closed
  /\ Start(c, [step |-> "ord.patch", ord |-> o, status |-> status, sale |-> sale])
  /\ UNCHANGED <<ord, sales, clock>>

\* The update statement: its foreign key throws when the sale does not exist.
PatchWrite(c) ==
  LET k == call[c] IN
  /\ k.step = "ord.patch"
  /\ ord' = IF LiveOrd(k.ord) /\ (k.sale = Absent \/ k.sale \in sales)
              THEN [ord EXCEPT ![k.ord].status = k.status]
              ELSE ord
  /\ End(c)
  /\ UNCHANGED <<sales, clock>>

\* Bound: orders deleted, and those about to be.
Deleted == {o \in Ords : ord[o] = GoneRow}
RoomForDeletion ==
  Cardinality(Deleted) + Cardinality({c \in Callers : call[c].step = "ord.delete"}) < MaxDeleted

\* Mutant: served orders are deleted too.
RemoveReadServed(c, o) ==
  /\ c \in Managers
  /\ RoomForDeletion
  /\ About(o)
  /\ Start(c, [step |-> "ord.delete", ord |-> o])
  /\ UNCHANGED <<ord, sales, clock>>

RemoveRead(c, o) ==
  /\ c \in Managers
  /\ RoomForDeletion
  /\ About(o)
  /\ ord[o].status # "SERVED"
  /\ Start(c, [step |-> "ord.delete", ord |-> o])
  /\ UNCHANGED <<ord, sales, clock>>

RemoveWrite(c) ==
  LET o == call[c].ord IN
  /\ call[c].step = "ord.delete"
  /\ ord' = IF LiveOrd(o) THEN [ord EXCEPT ![o] = GoneRow] ELSE ord
  /\ End(c)
  /\ UNCHANGED <<sales, clock>>

-----------------------------------------------------------------------------
\* The surroundings: sales come and go, time passes.
SaleCreated(t) == sales' = sales \cup {t} /\ UNCHANGED <<ord, clock, call>>
SaleRemoved(t) == sales' = sales \ {t} /\ UNCHANGED <<ord, clock, call>>
Tick == clock < MaxClock /\ clock' = clock + 1 /\ UNCHANGED <<ord, sales, call>>
Abort(c) == Fail(c) /\ UNCHANGED <<ord, sales, clock>>

BeginCall(c) ==
  \/ \E sale \in Txs \cup {Absent} : CreateRead(c, sale)
  \/ \E o \in Ords :
       \/ \E move \in Moves : MoveRead(c, o, move)
       \/ \E status \in PatchStatuses, sale \in Txs \cup {Absent} : PatchRead(c, o, status, sale)
       \/ RemoveRead(c, o)

Step(c) ==
  \/ CountOrders(c)
  \/ InsertOrder(c)
  \/ MoveWrite(c)
  \/ PatchWrite(c)
  \/ RemoveWrite(c)

Init ==
  /\ ord = [o \in Ords |-> NoRow]
  /\ sales = {}
  /\ clock = 0
  /\ HandlersInit

Next ==
  \/ \E c \in Callers : BeginCall(c) \/ Step(c) \/ Abort(c)
  \/ \E t \in Txs : SaleCreated(t) \/ SaleRemoved(t)
  \/ Tick

Spec == Init /\ [][Next]_vars

-----------------------------------------------------------------------------
(* Properties of every environment *)

(***************************************************************************)
(* Numbers are handed out by counting, and two creates that count before   *)
(* either inserts get the same one.  No number is held by more orders,     *)
(* stored or about to be, than tills can take at once: one till numbers    *)
(* its orders uniquely, whatever the staff does to them and even across    *)
(* midnight.  A deletion takes the count back to a number already given    *)
(* out, but only once: each adds one more order per till to the bound.     *)
(* West of Greenwich a UTC date spans two local days, whose counts both    *)
(* start at one, and the bound doubles (generateOrderNumber, 362-375).     *)
(***************************************************************************)
Holders(n) == {o \in Ords : LiveOrd(o) /\ ord[o].number = n}
Claims(n) == {c \in Callers : call[c].step = "ord.insert" /\ call[c].number = n}
NumbersInUse ==
  {ord[o].number : o \in {o \in Ords : LiveOrd(o)}}
  \cup {call[c].number : c \in {c \in Callers : call[c].step = "ord.insert"}}
FewShareANumber == \A n \in NumbersInUse :
  Cardinality(Holders(n)) + Cardinality(Claims(n))
    <= (1 + ZoneShift) * ((1 + Cardinality(Deleted)) * Cardinality(Tills))

(***************************************************************************)
(* However requests overtake each other, while no client sets a status by  *)
(* hand the dates of an order tell its story in order: served only if made *)
(* ready, ready only if started, and an order is in a status only if it    *)
(* carries that status's date.  Even an order that a late write brought    *)
(* back from CANCELLED went through every step (208-305).                  *)
(***************************************************************************)
InOrder(row) ==
  /\ "servedAt" \in row.stamps => "readyAt" \in row.stamps
  /\ "readyAt" \in row.stamps => "startedAt" \in row.stamps
  /\ \A move \in Moves : row.status = move.to => move.stamp \in row.stamps
StoryInOrder == PatchStatuses = {} => \A o \in Ords : LiveOrd(o) => InOrder(ord[o])

-----------------------------------------------------------------------------
(* Properties of guarded orders *)

(***************************************************************************)
(* A guarded order that is served never changes again, and a cancelled one *)
(* can only be deleted, whatever happens to the other orders: the checks   *)
(* of update, cancel, remove and the three steps of the kitchen, each made *)
(* one statement before the write it protects.                             *)
(***************************************************************************)
ClosedStays == \A o \in Guarded :
  /\ ord[o].status = "SERVED" => ord'[o] = ord[o]
  /\ ord[o].status = "CANCELLED" => ord'[o] \in {ord[o], GoneRow}
ClosedIsFinal == [][ClosedStays]_vars

(***************************************************************************)
(* To the guarded orders the handlers implement the atomic board of        *)
(* OrderLifecycle: each request is one step of an order, taken from a      *)
(* status the service accepts, although it was read earlier.               *)
(***************************************************************************)
Shown(row) ==
  IF row.status \in OrderStatus THEN [status |-> row.status, stamps |-> row.stamps] ELSE row
Board == [o \in Guarded |-> Shown(ord[o])]
Lifecycle == INSTANCE OrderLifecycle WITH Ords <- Guarded, board <- Board
ImplementsLifecycle == Lifecycle!BoardSpec
=============================================================================
