------------------------------- MODULE Payments -------------------------------
(***************************************************************************)
(* PaymentsService: create, update, refund and remove.  None of them looks *)
(* at the status of the sale the payment belongs to.                       *)
(***************************************************************************)
EXTENDS SalesStore

\* Bound: the Payment table hands out the ids of Pays and no more, so a create is
\* only begun while an id is left for it.
RoomForPayment ==
  Cardinality({c \in Callers : call[c].step = "pay.insert"})
    < Cardinality({p \in Pays : pay[p] = NoRow})

CreateRead(c, t, amount) ==
  /\ RoomForPayment
  /\ LiveTx(t)
  /\ Begin(c, [step |-> "pay.insert", tx |-> t, amount |-> amount])
  /\ UNCHANGED <<tx, pay>>

\* The insert; its foreign key throws when the sale is gone by now.
CreateInsert(c) ==
  LET t == call[c].tx IN
  /\ call[c].step = "pay.insert"
  /\ IF LiveTx(t)
       THEN \E p \in Pays :
              /\ pay[p] = NoRow
              /\ pay' = [pay EXCEPT ![p] = NewPay(t, call[c].amount)]
       ELSE pay' = pay
  /\ End(c)
  /\ UNCHANGED tx

\* Mutants: one of the two statuses that forbid an update is forgotten.
UpdatePayReadSettled(c, p, patch) ==
  /\ LivePay(p)
  /\ pay[p].status # "REFUNDED"
  /\ Begin(c, [step |-> "pay.write", tx |-> pay[p].tx, pay |-> p, patch |-> patch])
  /\ UNCHANGED <<tx, pay>>
UpdatePayReadRefunded(c, p, patch) ==
  /\ LivePay(p)
  /\ pay[p].status # "COMPLETED"
  /\ Begin(c, [step |-> "pay.write", tx |-> pay[p].tx, pay |-> p, patch |-> patch])
  /\ UNCHANGED <<tx, pay>>

UpdatePayRead(c, p, patch) ==
  /\ LivePay(p)
  /\ pay[p].status \notin {"COMPLETED", "REFUNDED"}
  /\ Begin(c, [step |-> "pay.write", tx |-> pay[p].tx, pay |-> p, patch |-> patch])
  /\ UNCHANGED <<tx, pay>>

\* The update throws when the payment, or the sale it is moved to, is gone.
UpdatePayWrite(c) ==
  LET p == call[c].pay
      patch == call[c].patch
  IN
  /\ call[c].step = "pay.write"
  /\ pay' = IF LivePay(p) /\ (patch.tx # Absent => LiveTx(patch.tx))
              THEN [pay EXCEPT ![p] = PatchedPay(@, patch)]
              ELSE pay
  /\ End(c)
  /\ UNCHANGED tx

\* Mutant: anything not refunded yet can be refunded.
RefundReadUnsettled(c, p) ==
  /\ LivePay(p)
  /\ pay[p].status # "REFUNDED"
  /\ Begin(c, [step |-> "pay.refund", tx |-> pay[p].tx, pay |-> p])
  /\ UNCHANGED <<tx, pay>>

RefundRead(c, p) ==
  /\ LivePay(p)
  /\ pay[p].status = "COMPLETED"
  /\ Begin(c, [step |-> "pay.refund", tx |-> pay[p].tx, pay |-> p])
  /\ UNCHANGED <<tx, pay>>

RefundWrite(c) ==
  LET p == call[c].pay IN
  /\ call[c].step = "pay.refund"
  /\ pay' = IF LivePay(p) THEN [pay EXCEPT ![p] = RefundedPay(@)] ELSE pay
  /\ End(c)
  /\ UNCHANGED tx

RemovePayRead(c, p) ==
  /\ LivePay(p)
  /\ pay[p].status # "COMPLETED"
  /\ Begin(c, [step |-> "pay.delete", tx |-> pay[p].tx, pay |-> p])
  /\ UNCHANGED <<tx, pay>>

RemovePayWrite(c) ==
  LET p == call[c].pay IN
  /\ call[c].step = "pay.delete"
  /\ pay' = IF LivePay(p) THEN [pay EXCEPT ![p] = GoneRow] ELSE pay
  /\ End(c)
  /\ UNCHANGED tx

PaymentBegin(c) ==
  \/ \E t \in Txs, amount \in Amounts : CreateRead(c, t, amount)
  \/ \E p \in Pays :
       \/ \E patch \in PayPatches : UpdatePayRead(c, p, patch)
       \/ RefundRead(c, p)
       \/ RemovePayRead(c, p)

PaymentStep(c) ==
  \/ CreateInsert(c)
  \/ UpdatePayWrite(c)
  \/ RefundWrite(c)
  \/ RemovePayWrite(c)
=============================================================================
