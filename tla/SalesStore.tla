------------------------------ MODULE SalesStore ------------------------------
(***************************************************************************)
(* The handlers of TransactionsService and PaymentsService in flight over  *)
(* the sales tables.                                                       *)
(***************************************************************************)
EXTENDS SalesTables, Handlers

CONSTANT
  Guarded     \* sales that clients keep to one request at a time

ASSUME StoreAssumption == Guarded \subseteq Txs

vars == <<tx, pay, call>>

Calls ==
  {Idle}
  \cup [step: {"tx.clear", "tx.write"}, tx: Txs, patch: TxPatches \cup {CancelPatch}]
  \cup [step: {"tx.readLines", "tx.readPays"}, tx: Txs, owed: Int]
  \cup [step: {"tx.complete", "tx.rmLines", "tx.rmPays", "tx.rmRow"}, tx: Txs]
  \cup [step: {"pay.insert"}, tx: Txs, amount: Amounts]
  \cup [step: {"pay.write"}, tx: Txs, pay: Pays, patch: PayPatches]
  \cup [step: {"pay.refund", "pay.delete"}, tx: Txs, pay: Pays]

\* The sales a handler is about: the one it read, and the one it moves a payment to.
SalesOf(k) ==
  CASE k.step = "idle" -> {}
    [] k.step = "pay.write" -> {k.tx, Patched(k.tx, k.patch.tx)}
    [] OTHER -> {k.tx}

\* The payment a handler has read, if any.
PaymentOf(k) == IF k.step \in {"pay.write", "pay.refund", "pay.delete"} THEN {k.pay} ELSE {}

AboutGuarded(k) == SalesOf(k) \cap Guarded # {}
Meet(j, k) == SalesOf(j) \cap SalesOf(k) # {} \/ PaymentOf(j) \cap PaymentOf(k) # {}

(***************************************************************************)
(* A till that waits for its answer: a request about a guarded sale is     *)
(* sent only while no other about its sales or its payment is in flight.   *)
(***************************************************************************)
Admitted(k) == \A c \in Callers :
  Meet(call[c], k) => ~AboutGuarded(call[c]) /\ ~AboutGuarded(k)

Begin(c, k) == Start(c, k) /\ Admitted(k)

Abort(c) == Fail(c) /\ UNCHANGED <<tx, pay>>

TypeOK == TablesTypeOK /\ call \in [Callers -> Calls]

Init == TablesInit /\ HandlersInit
=============================================================================
