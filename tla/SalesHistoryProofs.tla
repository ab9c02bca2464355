-------------------------- MODULE SalesHistoryProofs --------------------------
(***************************************************************************)
(* Theorems about what a sale and a payment went through, in every         *)
(* environment: requests of any number of clients, overtaking each other   *)
(* and failing half-way.                                                   *)
(***************************************************************************)
EXTENDS SalesHistory, SalesRegisterProofs

(***************************************************************************)
(* What complete has read so far, and what refund has checked, was true    *)
(* when it was read: of a sale that is still there, the tax is one it has  *)
(* had, the sum with the line items is a bill, and one that is about to be *)
(* stamped had a bill covered.                                             *)
(***************************************************************************)
CheckedOnce ==
  \A c \in Callers :
    /\ call[c].step \in {"tx.readLines", "tx.readPays", "tx.complete"} => tx[call[c].tx] # NoRow
    /\ call[c].step = "tx.readLines" /\ LiveTx(call[c].tx) => call[c].owed \in adjusts[call[c].tx]
    /\ call[c].step = "tx.readPays" /\ LiveTx(call[c].tx) => call[c].owed \in bills[call[c].tx]
    /\ call[c].step = "tx.complete" /\ LiveTx(call[c].tx) => call[c].tx \in covered
    /\ call[c].step = "pay.refund" => call[c].pay \in settled

HistoryInv == StampedBillWasPaid /\ RefundedWasSettled /\ CheckedOnce

\* The history only grows, as long as the sale is there.
LEMMA HistoryGrows ==
  ASSUME HistoryNext
  PROVE  /\ Next
         /\ \A t \in Txs : LiveTx(t)' =>
              /\ adjusts[t] \cup {tx'[t].adjust} \subseteq adjusts'[t]
              /\ bills[t] \subseteq bills'[t]
              /\ \A adjust \in adjusts'[t] : tx'[t].subtotal + adjust \in bills'[t]
              /\ \A bill \in bills'[t] : bill - Paid(t)' <= 0 => t \in covered'
         /\ covered \subseteq covered' /\ settled \subseteq settled'
BY DEF HistoryNext, LiveTxs

\* A sale that was created is not created again.
LEMMA LiveBefore ==
  ASSUME TypeOK, Next, NEW t \in Txs, tx[t] # NoRow
  PROVE  tx'[t] # NoRow /\ (LiveTx(t)' => LiveTx(t))
BY TxSteps, ExistingStays DEF TxStep, LiveTx

LEMMA CheckedWhenBegun ==
  ASSUME TypeOK, HistoryNext, NEW c \in Callers, BeginCall(c), NEW k, k = call'[c]
  PROVE  /\ k.step \notin {"tx.readPays", "tx.complete"}
         /\ k.step = "tx.readLines" => tx'[k.tx] # NoRow /\ k.owed \in adjusts'[k.tx]
         /\ k.step = "pay.refund" => k.pay \in settled'
<1>1. Validated(c)' /\ k \in Calls
  BY FirstStatement, HistoryGrows, TypeStep DEF TypeOK
<1>2. k.step \notin {"tx.readPays", "tx.complete"}
  <2>1. ASSUME NEW j, Begin(c, j) PROVE k = j
    BY <2>1 DEF Begin, Start, TypeOK
  <2>2. ASSUME NEW t \in Txs, NEW patch \in TxPatches, UpdateRead(c, t, patch)
        PROVE  k.step \notin {"tx.readPays", "tx.complete"}
    BY <2>1, <2>2 DEF UpdateRead
  <2>3. ASSUME NEW t \in Txs, CancelRead(c, t) \/ CompleteRead(c, t) \/ RemoveRead(c, t)
        PROVE  k.step \notin {"tx.readPays", "tx.complete"}
    BY <2>1, <2>3 DEF CancelRead, CompleteRead, RemoveRead
  <2>4. ASSUME PaymentBegin(c)
        PROVE  k.step \notin {"tx.readPays", "tx.complete"}
    <3>1. ASSUME NEW t \in Txs, NEW amount \in Amounts, CreateRead(c, t, amount)
          PROVE  k.step \notin {"tx.readPays", "tx.complete"}
      BY <2>1, <3>1 DEF CreateRead
    <3>2. ASSUME NEW p \in Pays, NEW patch \in PayPatches, UpdatePayRead(c, p, patch)
          PROVE  k.step \notin {"tx.readPays", "tx.complete"}
      BY <2>1, <3>2 DEF UpdatePayRead
    <3>3. ASSUME NEW p \in Pays, RefundRead(c, p) \/ RemovePayRead(c, p)
          PROVE  k.step \notin {"tx.readPays", "tx.complete"}
      BY <2>1, <3>3 DEF RefundRead, RemovePayRead
    <3> QED BY <2>4, <3>1, <3>2, <3>3 DEF PaymentBegin
  <2>5. ASSUME TransactionBegin(c) PROVE k.step \notin {"tx.readPays", "tx.complete"}
    <3>1. PICK t \in Txs :
            \/ \E patch \in TxPatches : UpdateRead(c, t, patch)
            \/ CancelRead(c, t)
            \/ CompleteRead(c, t)
            \/ RemoveRead(c, t)
      BY <2>5 DEF TransactionBegin
    <3>2. CASE \E patch \in TxPatches : UpdateRead(c, t, patch)
      BY <2>2, <3>2
    <3>3. CASE CancelRead(c, t) \/ CompleteRead(c, t) \/ RemoveRead(c, t)
      BY <2>3, <3>3
    <3> QED BY <3>1, <3>2, <3>3
  <2> QED BY <2>4, <2>5 DEF BeginCall
<1>3. ASSUME k.step = "tx.readLines" PROVE tx'[k.tx] # NoRow /\ k.owed \in adjusts'[k.tx]
  <2>1. PICK t \in Txs : t = k.tx
    BY <1>1, <1>3, CallTypes
  <2>2. LiveTx(t)' /\ k.owed = tx'[t].adjust
    BY <1>1, <1>3, <2>1 DEF Validated
  <2> QED BY <2>1, <2>2, HistoryGrows, VacantRows DEF LiveTx
<1>4. ASSUME k.step = "pay.refund" PROVE k.pay \in settled'
  <2>1. k.pay \in Pays
    BY <1>1, <1>4, CallTypes
  <2>2. pay'[k.pay].status = "COMPLETED"
    BY <1>1, <1>4 DEF Validated
  <2> QED BY <2>1, <2>2 DEF HistoryNext
<1> QED BY <1>2, <1>3, <1>4

\* What the two SELECTs after the first one find is in the history too.
LEMMA CheckedWhenRead ==
  ASSUME TypeOK, CheckedOnce, HistoryNext, NEW c \in Callers, Reading(c), NEW k, k = call'[c]
  PROVE  /\ k.step \notin {"tx.readLines", "pay.refund"}
         /\ k.step \in {"tx.readPays", "tx.complete"} => tx'[k.tx] # NoRow
         /\ k.step = "tx.readPays" /\ LiveTx(k.tx)' => k.owed \in bills'[k.tx]
         /\ k.step = "tx.complete" /\ LiveTx(k.tx)' => k.tx \in covered'
<1>1. PICK t \in Txs : t = call[c].tx
  BY ReadingStep
<1>2. /\ call[c].step \in {"tx.readLines", "tx.readPays"} /\ tx' = tx /\ pay' = pay
      /\ k = Idle \/ (k.step \in {"tx.readPays", "tx.complete"} /\ k.tx = t)
  BY <1>1, ReadingStep
<1>3. tx[t] # NoRow
  BY <1>1, <1>2 DEF CheckedOnce
<1>4. ASSUME k.step = "tx.readPays", LiveTx(t)' PROVE k.owed \in bills'[t]
  <2>1. CompleteReadLines(c)
    BY <1>4 DEF Reading, CompleteReadPays, TypeOK, Idle
  <2>2. LiveTx(t)
    BY <1>2, <1>4 DEF LiveTx
  <2>3. k.owed = tx[t].subtotal + call[c].owed
    BY <1>1, <2>1, <2>2 DEF CompleteReadLines, TypeOK
  <2>4. call[c].owed \in adjusts'[t]
    BY <1>1, <1>4, <2>1, <2>2, HistoryGrows DEF CompleteReadLines, CheckedOnce
  <2> QED BY <1>2, <1>4, <2>3, <2>4, HistoryGrows
<1>5. ASSUME k.step = "tx.complete", LiveTx(t)' PROVE t \in covered'
  <2>1. CompleteReadPays(c)
    BY <1>5 DEF Reading, CompleteReadLines, TypeOK
  <2>2. LiveTx(t)
    BY <1>2, <1>5 DEF LiveTx
  <2>3. call[c].owed - Paid(t) <= 0
    BY <1>1, <1>5, <2>1 DEF CompleteReadPays, TypeOK, Idle
  <2>4. call[c].owed \in bills'[t]
    BY <1>1, <1>5, <2>1, <2>2, HistoryGrows DEF CompleteReadPays, CheckedOnce
  <2>5. Paid(t)' = Paid(t)
    <3>1. PaysOf(t)' = PaysOf(t)
      BY <1>2, PaysUnchanged
    <3>2. [p \in PaysOf(t) |-> pay[p].amount]' = [p \in PaysOf(t) |-> pay[p].amount]
      BY <1>2, <3>1
    <3> QED BY <3>2 DEF Paid
  <2>6. call[c].owed - Paid(t)' <= 0
    BY <2>3, <2>5
  <2> QED BY <1>5, <2>4, <2>6, HistoryGrows
<1> QED BY <1>2, <1>3, <1>4, <1>5 DEF Idle

\* A handler that writes does not become one that is about to complete or refund.
LEMMA CheckedBefore ==
  ASSUME TypeOK, Next, NEW d \in Callers,
         call'[d].step \in {"tx.readLines", "tx.readPays", "tx.complete", "pay.refund"}
  PROVE  call'[d] = call[d] \/ BeginCall(d) \/ Reading(d)
<1> USE DEF TypeOK
<1>1. CASE CreateSale
  BY <1>1 DEF CreateSale, CreateTransaction
<1>2. ASSUME NEW c \in Callers, BeginCall(c) PROVE call'[d] = call[d] \/ BeginCall(d)
  BY <1>2, FirstStatement
<1>3. ASSUME NEW c \in Callers, End(c) PROVE call'[d] = call[d]
  BY <1>3 DEF End, Idle
<1>4. ASSUME NEW c \in Callers, UpdateClear(c) \/ RemoveLines(c) \/ RemovePays(c)
      PROVE  call'[d] = call[d]
  BY <1>4 DEF UpdateClear, RemoveLines, RemovePays, Goto, Calls, Idle
<1>5. ASSUME NEW c \in Callers, Reading(c) PROVE call'[d] = call[d] \/ Reading(d)
  BY <1>5, ReadingStep
<1> QED
  BY <1>1, <1>2, <1>3, <1>4, <1>5
  DEF Next, Step, Abort, Fail, TransactionStep, Reading, TxWrite, CompleteWrite, RemoveRow,
      PaymentStep, CreateInsert, UpdatePayWrite, RefundWrite, RemovePayWrite

\* Where a refund date comes from.
LEMMA RefundDates ==
  ASSUME TypeOK, Next, NEW p \in Pays, LivePay(p)', pay'[p].refundedAt
  PROVE  \/ LivePay(p) /\ pay[p].refundedAt
         \/ \E c \in Callers : call[c].step = "pay.refund" /\ call[c].pay = p
<1> USE DEF TypeOK, TablesTypeOK
<1>1. LivePay(p) => pay[p] \in PayRows
  BY LivePayRow
<1>2. pay'[p] # GoneRow /\ (pay' = pay => LivePay(p))
  BY VacantRows DEF LivePay
<1>3. CASE pay' = pay
  BY <1>2, <1>3
<1>4. ASSUME NEW c \in Callers, RemovePays(c) PROVE LivePay(p) /\ pay[p].refundedAt
  BY <1>2, <1>4 DEF RemovePays, WithoutPaysOf, LivePay
<1>5. ASSUME NEW c \in Callers, CreateInsert(c) PROVE LivePay(p) /\ pay[p].refundedAt
  BY <1>5 DEF CreateInsert, NewPay, LivePay
<1>6. ASSUME NEW c \in Callers, UpdatePayWrite(c) PROVE LivePay(p) /\ pay[p].refundedAt
  <2>1. CASE pay'[p] = pay[p]
    BY <2>1 DEF LivePay
  <2>2. CASE LivePay(p) /\ pay'[p] = PatchedPay(pay[p], call[c].patch)
    BY <1>1, <2>2 DEF PatchedPay, PayRows
  <2> QED BY <1>6, <2>1, <2>2 DEF UpdatePayWrite
<1>7. ASSUME NEW c \in Callers, RefundWrite(c), pay'[p] # pay[p]
      PROVE  call[c].step = "pay.refund" /\ call[c].pay = p
  BY <1>7 DEF RefundWrite
<1>8. ASSUME NEW c \in Callers, RemovePayWrite(c) PROVE LivePay(p) /\ pay[p].refundedAt
  BY <1>2, <1>8 DEF RemovePayWrite, LivePay
<1>9. CASE pay'[p] = pay[p]
  BY <1>9 DEF LivePay
<1>10. ASSUME NEW c \in Callers, BeginCall(c) PROVE pay' = pay
  BY <1>10, FirstStatement
<1> QED
  BY <1>3, <1>4, <1>5, <1>6, <1>7, <1>8, <1>9, <1>10
  DEF Next, CreateSale, CreateTransaction, Step, Abort, Fail, TransactionStep, UpdateClear, TxWrite,
      CompleteReadLines, CompleteReadPays, CompleteWrite, RemoveLines, RemoveRow, PaymentStep

\* Where a completion date comes from.
LEMMA CompletionDates ==
  ASSUME TypeOK, Next, NEW t \in Txs, LiveTx(t)', tx'[t].completedAt
  PROVE  /\ LiveTx(t)
         /\ \/ tx[t].completedAt
            \/ \E c \in Callers : call[c].step = "tx.complete" /\ call[c].tx = t
<1>1. LiveTx(t) => tx[t] \in TxRows
  BY LiveTxRow DEF TypeOK
<1>2. TxStep(t) /\ tx'[t] # GoneRow
  BY TxSteps, VacantRows DEF LiveTx
<1>3. CASE tx'[t] = tx[t]
  BY <1>3 DEF LiveTx
<1>4. ASSUME NEW items, NEW adjust PROVE tx'[t] # NewTx(items, adjust)
  <2>1. NewTx(items, adjust).completedAt = FALSE
    BY DEF NewTx
  <2> QED BY <2>1
<1>5. CASE LiveTx(t) /\ tx'[t] = ClearedTx(tx[t])
  BY <1>1, <1>5 DEF ClearedTx, TxRows
<1>6. ASSUME NEW patch, LiveTx(t), tx'[t] = PatchedTx(tx[t], patch) PROVE tx[t].completedAt
  BY <1>1, <1>6 DEF PatchedTx, TxRows
<1> QED BY <1>2, <1>3, <1>4, <1>5, <1>6 DEF TxStep

LEMMA HistoryStep ==
  ASSUME TypeOK, HistoryInv, [HistoryNext]_historyVars
  PROVE  HistoryInv'
<1>1. CASE UNCHANGED historyVars
  BY <1>1
  DEF historyVars, vars, HistoryInv, StampedBillWasPaid, RefundedWasSettled, CheckedOnce,
      LiveTx, LivePay
<1>2. CASE HistoryNext
  <2>0. CheckedOnce
    BY DEF HistoryInv
  <2>1. Next /\ covered \subseteq covered' /\ settled \subseteq settled'
    BY <1>2, HistoryGrows
  <2>2. CheckedOnce'
    <3> SUFFICES
          ASSUME NEW d \in Callers, NEW k, k = call'[d]
          PROVE  /\ k.step \in {"tx.readLines", "tx.readPays", "tx.complete"} => tx'[k.tx] # NoRow
                 /\ k.step = "tx.readLines" /\ LiveTx(k.tx)' => k.owed \in adjusts'[k.tx]
                 /\ k.step = "tx.readPays" /\ LiveTx(k.tx)' => k.owed \in bills'[k.tx]
                 /\ k.step = "tx.complete" /\ LiveTx(k.tx)' => k.tx \in covered'
                 /\ k.step = "pay.refund" => k.pay \in settled'
      BY DEF CheckedOnce, LiveTx
    <3>1. CASE BeginCall(d)
      BY <1>2, <3>1, CheckedWhenBegun
    <3>2. CASE Reading(d)
      BY <1>2, <2>0, <3>2, CheckedWhenRead
    <3>3. CASE k = call[d] /\ k.step \in {"tx.readLines", "tx.readPays", "tx.complete"}
      <4>1. k \in Calls
        BY <3>3 DEF TypeOK
      <4>2. PICK t \in Txs : t = k.tx
        BY <3>3, <4>1, CallTypes
      <4>3. tx[t] # NoRow
        BY <2>0, <3>3, <4>2 DEF CheckedOnce
      <4>4. tx'[t] # NoRow /\ (LiveTx(t)' => LiveTx(t))
        BY <2>1, <4>2, <4>3, LiveBefore
      <4>5. LiveTx(t)' => adjusts[t] \subseteq adjusts'[t] /\ bills[t] \subseteq bills'[t]
        BY <1>2, <4>2, HistoryGrows
      <4> QED BY <2>0, <2>1, <3>3, <4>2, <4>4, <4>5 DEF CheckedOnce
    <3>4. CASE k = call[d] /\ k.step = "pay.refund"
      BY <2>0, <2>1, <3>4 DEF CheckedOnce
    <3> QED BY <2>1, <3>1, <3>2, <3>3, <3>4, CheckedBefore
  <2>3. StampedBillWasPaid'
    BY <2>1, CompletionDates DEF HistoryInv, StampedBillWasPaid, CheckedOnce
  <2>4. RefundedWasSettled'
    BY <2>1, RefundDates DEF HistoryInv, RefundedWasSettled, CheckedOnce
  <2> QED BY <2>2, <2>3, <2>4 DEF HistoryInv
<1> QED BY <1>1, <1>2

LEMMA HistoryIsSales == HistorySpec => Spec
<1>1. HistoryInit => Init
  BY DEF HistoryInit
<1>2. [HistoryNext]_historyVars => [Next]_vars
  BY DEF HistoryNext, historyVars
<1> QED BY <1>1, <1>2, PTL DEF HistorySpec, Spec

LEMMA HistoryCorrect == HistorySpec => []HistoryInv
<1>1. HistoryInit => HistoryInv
  BY VacantRows
  DEF HistoryInit, Init, HandlersInit, TablesInit, HistoryInv, StampedBillWasPaid, RefundedWasSettled,
      CheckedOnce, LiveTx, LivePay, Idle
<1>2. TypeOK /\ HistoryInv /\ [HistoryNext]_historyVars => HistoryInv'
  BY HistoryStep
<1> QED BY <1>1, <1>2, HistoryIsSales, TypeCorrect, PTL DEF HistorySpec

(***************************************************************************)
(* Every completion date was earned: the payments of the sale covered, at  *)
(* some time, a bill of it, made of a tax it has had and of line items it  *)
(* had then or later.                                                      *)
(***************************************************************************)
THEOREM StampsAreEarned == HistorySpec => []StampedBillWasPaid
<1>1. HistoryInv => StampedBillWasPaid
  BY DEF HistoryInv
<1> QED BY <1>1, HistoryCorrect, PTL

(***************************************************************************)
(* Every refund date was earned: the payment was completed at some time.   *)
(***************************************************************************)
THEOREM RefundsAreEarned == HistorySpec => []RefundedWasSettled
<1>1. HistoryInv => RefundedWasSettled
  BY DEF HistoryInv
<1> QED BY <1>1, HistoryCorrect, PTL
=============================================================================
