----------------------------- MODULE AtomicSales -----------------------------
(***************************************************************************)
(* What the sales API promises its clients: every request takes effect at  *)
(* once, on the tables as they are, or not at all.  One action per request *)
(* of TransactionsService and PaymentsService, with the rule the service   *)
(* enforces as its guard.                                                  *)
(*                                                                         *)
(* There may be other sales than Txs, about which nothing is promised.     *)
(* All that is seen of those is that payments are made there, too, and     *)
(* that an update may move a payment from one of them to one of these, or  *)
(* away.                                                                   *)
(***************************************************************************)
EXTENDS SalesTables

CONSTANT Others     \* whether there are other sales than Txs

\* What is seen of a payment of another sale.
ElsewhereRow == [status |-> "ELSEWHERE"]

CreateTransaction(t, items, adjust) ==
  /\ tx[t] = NoRow
  /\ tx' = [tx EXCEPT ![t] = NewTx(items, adjust)]
  /\ UNCHANGED pay

ReplacedTx(row, patch) ==
  PatchedTx(IF patch.items = NoItems THEN row ELSE ClearedTx(row), patch)

UpdateTransaction(t, patch) ==
  /\ LiveTx(t)
  /\ tx[t].status # "COMPLETED"
  /\ tx' = [tx EXCEPT ![t] = ReplacedTx(@, patch)]
  /\ UNCHANGED pay

CancelTransaction(t) == UpdateTransaction(t, CancelPatch)

CompleteTransaction(t) ==
  /\ LiveTx(t)
  /\ Balance(t) <= 0
  /\ tx' = [tx EXCEPT ![t] = CompletedTx(@)]
  /\ UNCHANGED pay

RemoveTransaction(t) ==
  /\ LiveTx(t)
  /\ tx[t].status # "COMPLETED"
  /\ pay' = WithoutPaysOf(t)
  /\ tx' = [tx EXCEPT ![t] = GoneRow]

CreatePayment(p, t, amount) ==
  /\ LiveTx(t)
  /\ pay[p] = NoRow
  /\ pay' = [pay EXCEPT ![p] = NewPay(t, amount)]
  /\ UNCHANGED tx

\* It may move the payment to another of these sales.
UpdatePayment(p, patch) ==
  /\ LivePay(p)
  /\ pay[p].status \notin {"COMPLETED", "REFUNDED"}
  /\ patch.tx # Absent => patch.tx \in Txs /\ LiveTx(patch.tx)
  /\ pay' = [pay EXCEPT ![p] = PatchedPay(@, patch)]
  /\ UNCHANGED tx

RefundPayment(p) ==
  /\ LivePay(p)
  /\ pay[p].status = "COMPLETED"
  /\ pay' = [pay EXCEPT ![p] = RefundedPay(@)]
  /\ UNCHANGED tx

RemovePayment(p) ==
  /\ LivePay(p)
  /\ pay[p].status # "COMPLETED"
  /\ pay' = [pay EXCEPT ![p] = GoneRow]
  /\ UNCHANGED tx

\* The settled ones stay; of what happened to a payment elsewhere nothing is promised but
\* that it was not settled when it was moved.
PaymentLeaves(p) ==
  /\ LivePay(p)
  /\ pay[p].status \notin {"COMPLETED", "REFUNDED"}
  /\ pay' = [pay EXCEPT ![p] = ElsewhereRow]
  /\ UNCHANGED tx

PaymentArrives(p) ==
  /\ pay[p] = ElsewhereRow
  /\ pay' = [pay EXCEPT ![p] = pay'[p]]
  /\ pay'[p] \in PayRows
  /\ LiveTx(pay'[p].tx)
  /\ pay'[p].status \in {"PENDING", "FAILED"} \cup PayPatchStatuses
  /\ UNCHANGED tx

PaymentsElsewhere ==
  /\ \A p \in Pays : pay'[p] # pay[p] =>
       pay[p] \in {NoRow, ElsewhereRow} /\ pay'[p] \in {ElsewhereRow, GoneRow}
  /\ pay' = [p \in Pays |-> pay'[p]]
  /\ UNCHANGED tx

AtomicNext ==
  \/ \E t \in Txs :
       \/ \E items \in ItemInputs, adjust \in NewAdjustments :
            CreateTransaction(t, items, adjust)
       \/ \E patch \in TxPatches : UpdateTransaction(t, patch)
       \/ CancelTransaction(t)
       \/ CompleteTransaction(t)
       \/ RemoveTransaction(t)
  \/ \E p \in Pays :
       \/ \E t \in Txs, amount \in Amounts : CreatePayment(p, t, amount)
       \/ \E patch \in PayPatches : UpdatePayment(p, patch)
       \/ RefundPayment(p)
       \/ RemovePayment(p)
  \/ Others /\ (PaymentsElsewhere \/ \E p \in Pays : PaymentLeaves(p) \/ PaymentArrives(p))

AtomicSpec == TablesInit /\ [][AtomicNext]_<<tx, pay>>
=============================================================================
