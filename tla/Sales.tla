-------------------------------- MODULE Sales --------------------------------
(***************************************************************************)
(* The point of sale: TransactionsService and PaymentsService over one     *)
(* database, requests of several clients in flight together.               *)
(*                                                                         *)
(* Clients are careful about the sales of Guarded: such a sale has one     *)
(* register, which waits for an answer before its next request about that  *)
(* sale or about a payment that is moved to it.  About the others clients  *)
(* do as they please.                                                      *)
(***************************************************************************)
EXTENDS Transactions, Payments

CreateSale ==
  \E t \in Txs, items \in ItemInputs, adjust \in NewAdjustments :
    CreateTransaction(t, items, adjust)

BeginCall(c) == TransactionBegin(c) \/ PaymentBegin(c)
Step(c) == TransactionStep(c) \/ PaymentStep(c)

Next ==
  \/ CreateSale
  \/ \E c \in Callers : BeginCall(c) \/ Step(c) \/ Abort(c)

Spec == Init /\ [][Next]_vars

-----------------------------------------------------------------------------
(* Properties of every environment *)

\* Item lists still to be stored for t: update has deleted the old ones already.
PendingLists(t) ==
  {c \in Callers : /\ call[c].step = "tx.write"
                   /\ call[c].tx = t
                   /\ call[c].patch.items # NoItems}

(***************************************************************************)
(* Concurrent updates of one sale each delete the old line items and then  *)
(* add their own, so lists can pile up; but a sale never holds more item   *)
(* lists than requests can be in flight, because every update that adds    *)
(* one has deleted everything stored before it (update, 234-264).          *)
(***************************************************************************)
ListsBounded ==
  \A t \in Txs : LiveTx(t) =>
    tx[t].lists + Cardinality(PendingLists(t)) <= Cardinality(Callers)

-----------------------------------------------------------------------------
(* Properties of guarded sales *)

\* What the handler c has validated, or read and is going to rely on.
Validated(c) ==
  LET k == call[c] IN
  /\ k.step \in {"tx.clear", "tx.write", "tx.rmLines", "tx.rmPays", "tx.rmRow"} =>
       LiveTx(k.tx) /\ tx[k.tx].status # "COMPLETED"
  /\ k.step = "tx.readLines" => LiveTx(k.tx) /\ k.owed = tx[k.tx].adjust
  /\ k.step = "tx.readPays" => LiveTx(k.tx) /\ k.owed = tx[k.tx].subtotal + tx[k.tx].adjust
  /\ k.step = "tx.complete" => LiveTx(k.tx) /\ Balance(k.tx) <= 0
  /\ k.step = "pay.insert" => LiveTx(k.tx)
  /\ k.step \in {"pay.write", "pay.refund", "pay.delete"} =>
       LivePay(k.pay) /\ pay[k.pay].tx = k.tx
  /\ k.step = "pay.write" => pay[k.pay].status \notin {"COMPLETED", "REFUNDED"}
  /\ k.step = "pay.refund" => pay[k.pay].status = "COMPLETED"
  /\ k.step = "pay.delete" => pay[k.pay].status # "COMPLETED"

\* What the statements it already sent have achieved.
Achieved(c) ==
  LET k == call[c] IN
  /\ k.step = "tx.write" /\ k.patch.items # NoItems => tx[k.tx].lists = 0
  /\ k.step \in {"tx.rmPays", "tx.rmRow"} => tx[k.tx].lists = 0
  /\ k.step = "tx.rmRow" => PaysOf(k.tx) = {}

(***************************************************************************)
(* Whenever a handler is about to send a statement about a guarded sale,   *)
(* everything it has validated or read of it is still true, and what it    *)
(* deleted has not come back: no check of either service is stale when it  *)
(* is acted on, whatever clients do to the other sales.  In particular the *)
(* three SELECTs of complete read one state of the sale, and a removal is  *)
(* never refused by a foreign key half-way.                                *)
(***************************************************************************)
ChecksHold == \A c \in Callers : AboutGuarded(call[c]) => Validated(c) /\ Achieved(c)

(***************************************************************************)
(* A guarded sale that is completed is final: its status, line items, tax  *)
(* and discount never change again and its row is never deleted (the       *)
(* COMPLETED checks of update, cancel and remove, each made a statement or *)
(* more before the write it protects).                                     *)
(***************************************************************************)
CompletedStays == \A t \in Guarded : tx[t].status = "COMPLETED" =>
  /\ tx'[t].status = "COMPLETED"
  /\ tx'[t].lists = tx[t].lists
  /\ tx'[t].subtotal = tx[t].subtotal
  /\ tx'[t].adjust = tx[t].adjust
  /\ tx[t].completedAt => tx'[t].completedAt
CompletedIsFinal == [][CompletedStays]_vars

(***************************************************************************)
(* The balance of a guarded sale is covered at the moment it is stamped    *)
(* complete, although complete put it together from three SELECTs and      *)
(* stamps in a fourth statement (calculateTotal, 157-204; complete,        *)
(* 305-321).                                                               *)
(***************************************************************************)
StampedIsCovered == [][\A t \in Guarded :
  tx'[t].status = "COMPLETED" /\ tx'[t].completedAt /\ tx'[t] # tx[t]
    => Balance(t)' <= 0]_vars

(***************************************************************************)
(* A guarded sale holds at most one item list: replacing the items never   *)
(* doubles them, even when an earlier update died between its two writes.  *)
(***************************************************************************)
AtMostOneList == \A t \in Guarded : LiveTx(t) => tx[t].lists <= 1

PaymentOfGuarded(p) == LivePay(p) /\ pay[p].tx \in Guarded

(***************************************************************************)
(* A completed payment of a guarded sale keeps its amount and its sale; it *)
(* can only become refunded, with the date recorded, or go when the whole  *)
(* sale is removed (update, refund and remove of PaymentsService check     *)
(* COMPLETED one statement before they write).                             *)
(***************************************************************************)
SettledStays == \A p \in Pays : PaymentOfGuarded(p) /\ pay[p].status = "COMPLETED" =>
  \/ pay'[p] = pay[p]
  \/ pay'[p] = RefundedPay(pay[p])
  \/ /\ pay'[p] = GoneRow
     /\ \E c \in Callers : call[c].step = "tx.rmPays" /\ call[c].tx = pay[p].tx
SettledPaymentIsFinal == [][SettledStays]_vars

(***************************************************************************)
(* A refund date appears once, on a payment that is COMPLETED at that very *)
(* moment, so no payment of a guarded sale is refunded twice or unpaid.    *)
(***************************************************************************)
RefundOnce == [][\A p \in Pays :
  PaymentOfGuarded(p) /\ LivePay(p)' /\ pay'[p].refundedAt # pay[p].refundedAt
    => pay[p].status = "COMPLETED" /\ pay'[p].status = "REFUNDED"]_vars
=============================================================================
