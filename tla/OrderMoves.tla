------------------------------ MODULE OrderMoves ------------------------------
(***************************************************************************)
(* The state machine of an order, as OrdersService has it: the statuses,   *)
(* the dates a row may carry, and the four requests that move an order     *)
(* along, each with the statuses it accepts, the one it sets and the date  *)
(* it writes.                                                              *)
(***************************************************************************)
EXTENDS FiniteSets

CONSTANTS
  Ords,             \* ids the Order table may ever hand out
  PatchStatuses     \* statuses clients send with PATCH /orders/:id

OrderStatus == {"PENDING", "IN_PROGRESS", "READY", "SERVED", "CANCELLED"}
Stamps == {"startedAt", "readyAt", "servedAt", "cancelledAt"}

ASSUME MovesAssumption ==
  /\ IsFiniteSet(Ords)
  /\ PatchStatuses \subseteq OrderStatus

\* Statuses in which neither update nor cancel touches an order.
Closed == {"SERVED", "CANCELLED"}

\* Mutant: an order nobody has prepared is served.
ServeUnstarted == [from |-> {"PENDING", "READY"}, to |-> "SERVED", stamp |-> "servedAt"]

StartOrder == [from |-> {"PENDING"}, to |-> "IN_PROGRESS", stamp |-> "startedAt"]
MarkReady == [from |-> {"IN_PROGRESS"}, to |-> "READY", stamp |-> "readyAt"]
MarkServed == [from |-> {"READY"}, to |-> "SERVED", stamp |-> "servedAt"]
Cancel == [from |-> OrderStatus \ Closed, to |-> "CANCELLED", stamp |-> "cancelledAt"]
Moves == {StartOrder, MarkReady, MarkServed, Cancel}

Moved(row, move) == [row EXCEPT !.status = move.to, !.stamps = @ \cup {move.stamp}]

\* An id not handed out yet, and the id of a deleted row: cuids are never reused.
NoRow == [status |-> "NONE"]
GoneRow == [status |-> "GONE"]
=============================================================================
