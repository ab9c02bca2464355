---------------------------- MODULE OrderLifecycle ----------------------------
(***************************************************************************)
(* What the orders API promises the kitchen: the board of orders changes   *)
(* one whole request at a time.  One action per request, guarded by the    *)
(* rule OrdersService enforces.                                            *)
(***************************************************************************)
EXTENDS OrderMoves

VARIABLE board   \* per order, its status and the dates it carries

Live(o) == board[o].status \in OrderStatus

Place(o) ==
  /\ board[o] = NoRow
  /\ board' = [board EXCEPT ![o] = [status |-> "PENDING", stamps |-> {}]]

Move(o, move) ==
  /\ board[o].status \in move.from
  /\ board' = [board EXCEPT ![o] = Moved(@, move)]

Patch(o, status) ==
  /\ board[o].status \in OrderStatus \ Closed
  /\ board' = [board EXCEPT ![o].status = status]

Delete(o) ==
  /\ Live(o)
  /\ board[o].status # "SERVED"
  /\ board' = [board EXCEPT ![o] = GoneRow]

BoardInit == board = [o \in Ords |-> NoRow]

BoardNext == \E o \in Ords :
  \/ Place(o)
  \/ \E move \in Moves : Move(o, move)
  \/ \E status \in PatchStatuses : Patch(o, status)
  \/ Delete(o)

BoardSpec == BoardInit /\ [][BoardNext]_board
=============================================================================
