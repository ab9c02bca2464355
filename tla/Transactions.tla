----------------------------- MODULE Transactions -----------------------------
(***************************************************************************)
(* TransactionsService: create, update, cancel, complete and remove.       *)
(*                                                                         *)
(* The look-up of the products a request names touches no table of this    *)
(* module and a failed look-up throws before anything is written, so it is *)
(* folded into the step before it.                                         *)
(***************************************************************************)
EXTENDS SalesStore

\* create: one statement stores the row and its line items.
CreateTransaction(t, items, adjust) ==
  /\ tx[t] = NoRow
  /\ tx' = [tx EXCEPT ![t] = NewTx(items, adjust)]
  /\ UNCHANGED <<pay, call>>

\* Mutant: the stored line items are not cleared.
UpdateReadKeepsLines(c, t, patch) ==
  /\ LiveTx(t)
  /\ tx[t].status # "COMPLETED"
  /\ Begin(c, [step |-> "tx.write", tx |-> t, patch |-> patch])
  /\ UNCHANGED <<tx, pay>>

\* update, up to the first write: a request with line items clears the stored ones first.
UpdateRead(c, t, patch) ==
  /\ LiveTx(t)
  /\ tx[t].status # "COMPLETED"
  /\ Begin(c, [step |-> IF patch.items = NoItems THEN "tx.write" ELSE "tx.clear",
               tx |-> t, patch |-> patch])
  /\ UNCHANGED <<tx, pay>>

\* deleteMany of line items: it finds none, and does not throw, when the row is gone.
ClearLines(t) == tx' = IF LiveTx(t) THEN [tx EXCEPT ![t] = ClearedTx(@)] ELSE tx

UpdateClear(c) ==
  /\ call[c].step = "tx.clear"
  /\ ClearLines(call[c].tx)
  /\ Goto(c, "tx.write")
  /\ UNCHANGED pay

\* The update statement of update and cancel.
TxWrite(c) ==
  LET t == call[c].tx IN
  /\ call[c].step = "tx.write"
  /\ tx' = IF LiveTx(t) THEN [tx EXCEPT ![t] = PatchedTx(@, call[c].patch)] ELSE tx
  /\ End(c)
  /\ UNCHANGED pay

\* Mutant: a completed sale is cancelled too.
CancelReadAnyStatus(c, t) ==
  /\ LiveTx(t)
  /\ Begin(c, [step |-> "tx.write", tx |-> t, patch |-> CancelPatch])
  /\ UNCHANGED <<tx, pay>>

CancelRead(c, t) ==
  /\ LiveTx(t)
  /\ tx[t].status # "COMPLETED"
  /\ Begin(c, [step |-> "tx.write", tx |-> t, patch |-> CancelPatch])
  /\ UNCHANGED <<tx, pay>>

\* complete reads the sale twice and only the second read decides; the first asks
\* that the row exist, which the second implies since ids are never reused.  That read
\* is three SELECTs: the row, its line items, its payments.
CompleteRead(c, t) ==
  /\ LiveTx(t)
  /\ Begin(c, [step |-> "tx.readLines", tx |-> t, owed |-> tx[t].adjust])
  /\ UNCHANGED <<tx, pay>>

\* None are found when the row is gone.
CompleteReadLines(c) ==
  LET t == call[c].tx IN
  /\ call[c].step = "tx.readLines"
  /\ call' = [call EXCEPT ![c] =
       [step |-> "tx.readPays", tx |-> t,
        owed |-> IF LiveTx(t) THEN tx[t].subtotal + call[c].owed ELSE call[c].owed]]
  /\ UNCHANGED <<tx, pay>>

\* Mutant: the balance is not looked at.
CompleteReadPaysUnpaid(c) ==
  /\ call[c].step = "tx.readPays"
  /\ call' = [call EXCEPT ![c] = [step |-> "tx.complete", tx |-> call[c].tx]]
  /\ UNCHANGED <<tx, pay>>

\* The balance of what was read decides: an outstanding one throws.
CompleteReadPays(c) ==
  LET t == call[c].tx IN
  /\ call[c].step = "tx.readPays"
  /\ call' = [call EXCEPT ![c] =
       IF call[c].owed - Paid(t) <= 0 THEN [step |-> "tx.complete", tx |-> t] ELSE Idle]
  /\ UNCHANGED <<tx, pay>>

CompleteWrite(c) ==
  LET t == call[c].tx IN
  /\ call[c].step = "tx.complete"
  /\ tx' = IF LiveTx(t) THEN [tx EXCEPT ![t] = CompletedTx(@)] ELSE tx
  /\ End(c)
  /\ UNCHANGED pay

\* remove: line items, then payments, then the row.
RemoveRead(c, t) ==
  /\ LiveTx(t)
  /\ tx[t].status # "COMPLETED"
  /\ Begin(c, [step |-> "tx.rmLines", tx |-> t])
  /\ UNCHANGED <<tx, pay>>

RemoveLines(c) ==
  /\ call[c].step = "tx.rmLines"
  /\ ClearLines(call[c].tx)
  /\ Goto(c, "tx.rmPays")
  /\ UNCHANGED pay

RemovePays(c) ==
  /\ call[c].step = "tx.rmPays"
  /\ pay' = WithoutPaysOf(call[c].tx)
  /\ Goto(c, "tx.rmRow")
  /\ UNCHANGED tx

\* A payment or a line item that arrived meanwhile still refers to the row: its foreign
\* key makes the delete throw, and the sale stays without the ones deleted before.
RemoveRow(c) ==
  LET t == call[c].tx IN
  /\ call[c].step = "tx.rmRow"
  /\ tx' = IF LiveTx(t) /\ tx[t].lists = 0 /\ PaysOf(t) = {}
             THEN [tx EXCEPT ![t] = GoneRow]
             ELSE tx
  /\ End(c)
  /\ UNCHANGED pay

TransactionBegin(c) ==
  \E t \in Txs :
    \/ \E patch \in TxPatches : UpdateRead(c, t, patch)
    \/ CancelRead(c, t)
    \/ CompleteRead(c, t)
    \/ RemoveRead(c, t)

TransactionStep(c) ==
  \/ UpdateClear(c)
  \/ TxWrite(c)
  \/ CompleteReadLines(c)
  \/ CompleteReadPays(c)
  \/ CompleteWrite(c)
  \/ RemoveLines(c)
  \/ RemovePays(c)
  \/ RemoveRow(c)
=============================================================================
