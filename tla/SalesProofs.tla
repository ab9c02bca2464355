----------------------------- MODULE SalesProofs -----------------------------
(***************************************************************************)
(* Theorems about Sales, for any number of sales, payments and requests in *)
(* flight.                                                                 *)
(***************************************************************************)
EXTENDS Sales, FiniteSetTheorems, TLAPS

-----------------------------------------------------------------------------
(* Rows and requests *)

LEMMA VacantRows ==
  /\ NoRow.status \notin TransactionStatus \cup PaymentStatus
  /\ GoneRow.status \notin TransactionStatus \cup PaymentStatus
BY DEF NoRow, GoneRow, TransactionStatus, PaymentStatus

\* A live row has every column, of its type.
LEMMA LiveTxRow ==
  ASSUME TablesTypeOK, NEW t \in Txs, LiveTx(t)
  PROVE  tx[t] \in TxRows
BY VacantRows DEF TablesTypeOK, LiveTx

LEMMA LivePayRow ==
  ASSUME TablesTypeOK, NEW p \in Pays, LivePay(p)
  PROVE  pay[p] \in PayRows
BY VacantRows DEF TablesTypeOK, LivePay

LEMMA ItemInputsType ==
  ASSUME NEW items \in ItemInputs
  PROVE  items.lists \in {0, 1} /\ items.subtotal \in Nat
<1>1. CASE items = NoItems
  BY <1>1 DEF NoItems
<1>2. CASE items \in [lists: {1}, subtotal: Subtotals]
  <2>1. items.lists \in {1} /\ items.subtotal \in Subtotals
    BY <1>2
  <2> QED BY <2>1, TablesAssumption DEF TablesAssumption
<1> QED BY <1>1, <1>2 DEF ItemInputs

\* What the writing statements make of a row is a row again.
LEMMA NewTxType ==
  ASSUME NEW items \in ItemInputs, NEW adjust \in NewAdjustments
  PROVE  NewTx(items, adjust) \in TxRows
<1>1. adjust \in Int
  BY TablesAssumption DEF TablesAssumption, NewAdjustments
<1> QED BY <1>1, ItemInputsType DEF NewTx, TxRows, TransactionStatus

LEMMA ClearedTxType ==
  ASSUME NEW row \in TxRows
  PROVE  ClearedTx(row) \in TxRows
BY DEF ClearedTx, TxRows

LEMMA CompletedTxType ==
  ASSUME NEW row \in TxRows
  PROVE  CompletedTx(row) \in TxRows
BY DEF CompletedTx, TxRows, TransactionStatus

LEMMA PatchedTxType ==
  ASSUME NEW row \in TxRows, NEW patch \in TxPatches \cup {CancelPatch}
  PROVE  PatchedTx(row, patch) \in TxRows
<1> SUFFICES patch.items \in ItemInputs
                 /\ Patched(row.status, patch.status) \in TransactionStatus
                 /\ Patched(row.adjust, patch.adjust) \in Int
  <2>1. row.lists \in Nat /\ row.subtotal \in Nat
    BY DEF TxRows
  <2>2. patch.items \in ItemInputs => patch.items.lists \in Nat /\ patch.items.subtotal \in Nat
    BY ItemInputsType
  <2>3. row.lists + patch.items.lists \in Nat /\ row.subtotal + patch.items.subtotal \in Nat
    BY <2>1, <2>2
  <2> DEFINE st == Patched(row.status, patch.status)
             adj == Patched(row.adjust, patch.adjust)
             ls == row.lists + patch.items.lists
             sub == row.subtotal + patch.items.subtotal
  <2>4. PatchedTx(row, patch)
          = [row EXCEPT !.status = st, !.adjust = adj, !.lists = ls, !.subtotal = sub]
    BY DEF PatchedTx
  <2>5. st \in TransactionStatus /\ adj \in Int /\ ls \in Nat /\ sub \in Nat
    BY <2>2, <2>3
  <2> HIDE DEF st, adj, ls, sub
  <2> QED BY <2>4, <2>5 DEF TxRows
<1>0. row.status \in TransactionStatus /\ row.adjust \in Int
  BY DEF TxRows
<1>1. CASE patch \in TxPatches
  <2>1. /\ patch.items \in ItemInputs
        /\ patch.status \in TxPatchStatuses \cup {Absent}
        /\ patch.adjust \in Adjustments \cup {Absent}
    BY <1>1 DEF TxPatches
  <2> QED BY <1>0, <2>1, TablesAssumption DEF TablesAssumption, Patched
<1>2. CASE patch = CancelPatch
  BY <1>0, <1>2 DEF CancelPatch, ItemInputs, Patched, TransactionStatus
<1> QED BY <1>1, <1>2

LEMMA NewPayType ==
  ASSUME NEW t \in Txs, NEW amount \in Amounts
  PROVE  NewPay(t, amount) \in PayRows
BY TablesAssumption DEF NewPay, PayRows, PaymentStatus, TablesAssumption

LEMMA PatchedPayType ==
  ASSUME NEW row \in PayRows, NEW patch \in PayPatches
  PROVE  PatchedPay(row, patch) \in PayRows
BY TablesAssumption
DEF TablesAssumption, PatchedPay, Patched, PayRows, PayPatches, PaymentStatus

LEMMA RefundedPayType ==
  ASSUME NEW row \in PayRows
  PROVE  RefundedPay(row) \in PayRows
BY DEF RefundedPay, PayRows, PaymentStatus

-----------------------------------------------------------------------------
(* The locals of a handler, by the statement it sends next *)

LEMMA CallTypes ==
  ASSUME NEW k \in Calls
  PROVE  /\ k.step \in {"tx.clear", "tx.write"} =>
              k.tx \in Txs /\ k.patch \in TxPatches \cup {CancelPatch}
         /\ k.step \in {"tx.readLines", "tx.readPays"} => k.tx \in Txs /\ k.owed \in Int
         /\ k.step \in {"tx.complete", "tx.rmLines", "tx.rmPays", "tx.rmRow"} => k.tx \in Txs
         /\ k.step = "pay.insert" => k.tx \in Txs /\ k.amount \in Amounts
         /\ k.step = "pay.write" => k.tx \in Txs /\ k.pay \in Pays /\ k.patch \in PayPatches
         /\ k.step \in {"pay.refund", "pay.delete"} => k.tx \in Txs /\ k.pay \in Pays
         /\ k.step = "idle" => k = Idle
BY DEF Calls, Idle

LEMMA GotoType ==
  ASSUME NEW k \in Calls
  PROVE  /\ k.step = "tx.clear" => [k EXCEPT !.step = "tx.write"] \in Calls
         /\ k.step = "tx.rmLines" => [k EXCEPT !.step = "tx.rmPays"] \in Calls
         /\ k.step = "tx.rmPays" => [k EXCEPT !.step = "tx.rmRow"] \in Calls
BY DEF Calls, Idle

-----------------------------------------------------------------------------
(* Type correctness *)

LEMMA TypeStep ==
  ASSUME TypeOK, [Next]_vars
  PROVE  TypeOK'
<1> USE DEF TypeOK, TablesTypeOK
<1> DEFINE TxT == tx' \in [Txs -> TxRows \cup {NoRow, GoneRow}]
           PayT == pay' \in [Pays -> PayRows \cup {NoRow, GoneRow}]
           CallT == call' \in [Callers -> Calls]
<1>end. ASSUME NEW c \in Callers, End(c) PROVE CallT
  BY <1>end DEF End, Calls
<1>1. CASE CreateSale
  BY <1>1, NewTxType DEF CreateSale, CreateTransaction
<1>2. ASSUME NEW c \in Callers, TransactionBegin(c) PROVE TypeOK'
  <2>0. PICK t \in Txs :
          \/ \E patch \in TxPatches : UpdateRead(c, t, patch)
          \/ CancelRead(c, t)
          \/ CompleteRead(c, t)
          \/ RemoveRead(c, t)
    BY <1>2 DEF TransactionBegin
  <2>1. CASE \E patch \in TxPatches : UpdateRead(c, t, patch)
    BY <2>1 DEF UpdateRead, Begin, Start, Calls
  <2>2. CASE CancelRead(c, t)
    BY <2>2 DEF CancelRead, Begin, Start, Calls
  <2>3. CASE CompleteRead(c, t)
    <3>1. tx[t].adjust \in Int
      BY <2>3, LiveTxRow DEF CompleteRead, TxRows
    <3> QED BY <2>3, <3>1 DEF CompleteRead, Begin, Start, Calls
  <2>4. CASE RemoveRead(c, t)
    BY <2>4 DEF RemoveRead, Begin, Start, Calls
  <2> QED BY <2>0, <2>1, <2>2, <2>3, <2>4
<1>3. ASSUME NEW c \in Callers, PaymentBegin(c) PROVE TypeOK'
  <2>1. ASSUME NEW t \in Txs, NEW amount \in Amounts, CreateRead(c, t, amount)
        PROVE  TypeOK'
    BY <2>1 DEF CreateRead, Begin, Start, Calls
  <2>2. ASSUME NEW p \in Pays, NEW patch \in PayPatches, UpdatePayRead(c, p, patch)
        PROVE  TypeOK'
    <3>1. pay[p].tx \in Txs
      BY <2>2, LivePayRow DEF UpdatePayRead, PayRows
    <3> QED BY <2>2, <3>1 DEF UpdatePayRead, Begin, Start, Calls
  <2>3. ASSUME NEW p \in Pays, RefundRead(c, p) PROVE TypeOK'
    <3>1. pay[p].tx \in Txs
      BY <2>3, LivePayRow DEF RefundRead, PayRows
    <3> QED BY <2>3, <3>1 DEF RefundRead, Begin, Start, Calls
  <2>4. ASSUME NEW p \in Pays, RemovePayRead(c, p) PROVE TypeOK'
    <3>1. pay[p].tx \in Txs
      BY <2>4, LivePayRow DEF RemovePayRead, PayRows
    <3> QED BY <2>4, <3>1 DEF RemovePayRead, Begin, Start, Calls
  <2> QED BY <1>3, <2>1, <2>2, <2>3, <2>4 DEF PaymentBegin
<1>4. ASSUME NEW c \in Callers, TransactionStep(c) PROVE TypeOK'
  <2> DEFINE t == call[c].tx
  <2>0. call[c] \in Calls
    OBVIOUS
  <2>1. CASE UpdateClear(c)
    <3>1. TxT
      BY <2>1, <2>0, CallTypes, LiveTxRow, ClearedTxType DEF UpdateClear, ClearLines
    <3>2. CallT
      BY <2>1, <2>0, GotoType DEF UpdateClear, Goto
    <3> QED BY <2>1, <3>1, <3>2 DEF UpdateClear
  <2>2. CASE TxWrite(c)
    <3>1. TxT
      BY <2>2, <2>0, CallTypes, LiveTxRow, PatchedTxType DEF TxWrite
    <3> QED BY <2>2, <3>1, <1>end DEF TxWrite
  <2>3. CASE CompleteWrite(c)
    <3>1. TxT
      BY <2>3, <2>0, CallTypes, LiveTxRow, CompletedTxType DEF CompleteWrite
    <3> QED BY <2>3, <3>1, <1>end DEF CompleteWrite
  <2>4. CASE RemoveLines(c)
    <3>1. TxT
      BY <2>4, <2>0, CallTypes, LiveTxRow, ClearedTxType DEF RemoveLines, ClearLines
    <3>2. CallT
      BY <2>4, <2>0, GotoType DEF RemoveLines, Goto
    <3> QED BY <2>4, <3>1, <3>2 DEF RemoveLines
  <2>5. CASE RemovePays(c)
    <3>1. PayT
      BY <2>5 DEF RemovePays, WithoutPaysOf
    <3>2. CallT
      BY <2>5, <2>0, GotoType DEF RemovePays, Goto
    <3> QED BY <2>5, <3>1, <3>2 DEF RemovePays
  <2>6. CASE RemoveRow(c)
    BY <2>6, <1>end DEF RemoveRow
  <2>7. CASE CompleteReadLines(c)
    <3> DEFINE owed == IF LiveTx(t) THEN tx[t].subtotal + call[c].owed ELSE call[c].owed
    <3>1. t \in Txs /\ call[c].owed \in Int
      BY <2>7, <2>0, CallTypes DEF CompleteReadLines
    <3>2. LiveTx(t) => tx[t].subtotal \in Nat
      BY <3>1, LiveTxRow DEF TxRows
    <3>3. owed \in Int
      BY <3>1, <3>2
    <3>4. call' = [call EXCEPT ![c] = [step |-> "tx.readPays", tx |-> t, owed |-> owed]]
      BY <2>7 DEF CompleteReadLines
    <3> HIDE DEF owed
    <3>5. CallT
      BY <3>1, <3>3, <3>4 DEF Calls
    <3> QED BY <2>7, <3>5 DEF CompleteReadLines
  <2>8. CASE CompleteReadPays(c)
    <3>1. t \in Txs
      BY <2>8, <2>0, CallTypes DEF CompleteReadPays
    <3>2. CallT
      BY <2>8, <3>1 DEF CompleteReadPays, Calls
    <3> QED BY <2>8, <3>2 DEF CompleteReadPays
  <2> QED BY <1>4, <2>1, <2>2, <2>3, <2>4, <2>5, <2>6, <2>7, <2>8 DEF TransactionStep
<1>5. ASSUME NEW c \in Callers, PaymentStep(c) PROVE TypeOK'
  <2>0. call[c] \in Calls
    OBVIOUS
  <2>1. CASE CreateInsert(c)
    <3>1. PayT
      BY <2>1, <2>0, CallTypes, NewPayType DEF CreateInsert
    <3> QED BY <2>1, <3>1, <1>end DEF CreateInsert
  <2>2. CASE UpdatePayWrite(c)
    <3>1. PayT
      BY <2>2, <2>0, CallTypes, LivePayRow, PatchedPayType DEF UpdatePayWrite
    <3> QED BY <2>2, <3>1, <1>end DEF UpdatePayWrite
  <2>3. CASE RefundWrite(c)
    <3>1. PayT
      BY <2>3, <2>0, CallTypes, LivePayRow, RefundedPayType DEF RefundWrite
    <3> QED BY <2>3, <3>1, <1>end DEF RefundWrite
  <2>4. CASE RemovePayWrite(c)
    BY <2>4, <1>end DEF RemovePayWrite
  <2> QED BY <1>5, <2>1, <2>2, <2>3, <2>4 DEF PaymentStep
<1>6. ASSUME NEW c \in Callers, Abort(c) PROVE TypeOK'
  BY <1>6, <1>end DEF Abort, Fail
<1>7. CASE UNCHANGED vars
  BY <1>7 DEF vars
<1> QED
  BY <1>1, <1>2, <1>3, <1>4, <1>5, <1>6, <1>7 DEF Next, BeginCall, Step

(***************************************************************************)
(* Rows have all their columns, statuses come from the services' enums,    *)
(* and every handler carries the locals its next statement needs.          *)
(***************************************************************************)
THEOREM TypeCorrect == Spec => []TypeOK
<1>1. Init => TypeOK
  BY DEF Init, HandlersInit, TablesInit, TypeOK, TablesTypeOK, Calls
<1>2. TypeOK /\ [Next]_vars => TypeOK'
  BY TypeStep
<1> QED BY <1>1, <1>2, PTL DEF Spec

-----------------------------------------------------------------------------
(* What a step may do to the row of a sale, whatever else is in flight *)

TxStep(t) ==
  \/ tx'[t] = tx[t]
  \/ tx[t] = NoRow /\ \E items \in ItemInputs, adjust \in NewAdjustments : tx'[t] = NewTx(items, adjust)
  \/ /\ LiveTx(t)
     /\ \E c \in Callers :
          /\ call[c].tx = t
          /\ \/ call[c].step \in {"tx.clear", "tx.rmLines"} /\ tx'[t] = ClearedTx(tx[t])
             \/ /\ call[c].step = "tx.write" /\ End(c)
                /\ tx'[t] = PatchedTx(tx[t], call[c].patch)
             \/ call[c].step = "tx.complete" /\ tx'[t] = CompletedTx(tx[t])
             \/ call[c].step = "tx.rmRow" /\ tx'[t] = GoneRow

LEMMA TxSteps ==
  ASSUME TypeOK, [Next]_vars, NEW t \in Txs
  PROVE  TxStep(t)
<1> USE DEF TypeOK, TablesTypeOK
<1>1. CASE CreateSale
  BY <1>1 DEF CreateSale, CreateTransaction, TxStep
<1>2. ASSUME NEW c \in Callers, TransactionStep(c), tx'[t] # tx[t] PROVE TxStep(t)
  <2>1. call[c].tx = t /\ LiveTx(t)
    BY <1>2
    DEF TransactionStep, UpdateClear, TxWrite, CompleteReadLines, CompleteReadPays,
        CompleteWrite, RemoveLines, RemovePays, RemoveRow, ClearLines
  <2>2. \/ call[c].step \in {"tx.clear", "tx.rmLines"} /\ tx'[t] = ClearedTx(tx[t])
        \/ /\ call[c].step = "tx.write" /\ End(c)
           /\ tx'[t] = PatchedTx(tx[t], call[c].patch)
        \/ call[c].step = "tx.complete" /\ tx'[t] = CompletedTx(tx[t])
        \/ call[c].step = "tx.rmRow" /\ tx'[t] = GoneRow
    BY <1>2, <2>1
    DEF TransactionStep, UpdateClear, TxWrite, CompleteReadLines, CompleteReadPays,
        CompleteWrite, RemoveLines, RemovePays, RemoveRow, ClearLines
  <2> QED BY <2>1, <2>2 DEF TxStep
<1>3. ASSUME NEW c \in Callers, BeginCall(c) \/ PaymentStep(c) \/ Abort(c) PROVE tx' = tx
  BY <1>3
  DEF BeginCall, TransactionBegin, UpdateRead, CancelRead, CompleteRead, RemoveRead,
      PaymentBegin, CreateRead, UpdatePayRead, RefundRead, RemovePayRead,
      PaymentStep, CreateInsert, UpdatePayWrite, RefundWrite, RemovePayWrite, Abort, Fail
<1>4. CASE tx' = tx \/ tx'[t] = tx[t]
  BY <1>4 DEF TxStep
<1> QED BY <1>1, <1>2, <1>3, <1>4 DEF Next, Step, vars

\* A row that a live row is turned into.
LEMMA LiveRowStaysRow ==
  ASSUME TypeOK, [Next]_vars, NEW t \in Txs, LiveTx(t)
  PROVE  tx'[t] \in TxRows \cup {GoneRow}
<1>1. tx'[t] \in TxRows \cup {NoRow, GoneRow}
  BY TypeStep DEF TypeOK, TablesTypeOK
<1>2. tx[t] \in TxRows /\ tx[t] # NoRow
  BY LiveTxRow, VacantRows DEF TypeOK, LiveTx
<1>3. ASSUME NEW c \in Callers, call[c].step = "tx.write"
      PROVE  PatchedTx(tx[t], call[c].patch) \in TxRows
  BY <1>2, <1>3, CallTypes, PatchedTxType DEF TypeOK
<1> QED BY <1>1, <1>2, <1>3, TxSteps, ClearedTxType, CompletedTxType DEF TxStep

-----------------------------------------------------------------------------
(* Item lists pile up no higher than the requests in flight *)

\* An update is about a sale that existed when it was read.
EditsExisting ==
  \A c \in Callers : call[c].step \in {"tx.clear", "tx.write"} => tx[call[c].tx] # NoRow

LEMMA ExistingStays ==
  ASSUME TypeOK, [Next]_vars, NEW t \in Txs, tx[t] # NoRow
  PROVE  tx'[t] # NoRow
<1>1. NoRow \notin TxRows /\ NoRow # GoneRow
  BY VacantRows DEF TxRows, NoRow, GoneRow
<1>2. CASE LiveTx(t)
  BY <1>1, <1>2, LiveRowStaysRow
<1>3. CASE ~LiveTx(t)
  BY <1>3, TxSteps DEF TxStep
<1> QED BY <1>2, <1>3

\* Where the locals of an update come from.
LEMMA EditOrigin ==
  ASSUME TypeOK, [Next]_vars, NEW d \in Callers, call'[d].step \in {"tx.clear", "tx.write"}
  PROVE  \/ call'[d] = call[d]
         \/ /\ call[d].step = "tx.clear" /\ UpdateClear(d)
            /\ call'[d].tx = call[d].tx
         \/ LiveTx(call'[d].tx) /\ (call'[d].step = "tx.write" => call'[d].patch.items = NoItems)
<1> USE DEF TypeOK
<1>1. CASE CreateSale \/ UNCHANGED vars
  BY <1>1 DEF CreateSale, CreateTransaction, vars
<1>0. ASSUME NEW c \in Callers, NEW k, Begin(c, k)
      PROVE  call'[d] = IF d = c THEN k ELSE call[d]
  BY <1>0 DEF Begin, Start
<1>2. ASSUME NEW c \in Callers, TransactionBegin(c)
      PROVE  \/ call'[d] = call[d]
             \/ LiveTx(call'[d].tx) /\ (call'[d].step = "tx.write" => call'[d].patch.items = NoItems)
  <2>1. ASSUME NEW t \in Txs, NEW patch \in TxPatches, UpdateRead(c, t, patch)
        PROVE  \/ call'[d] = call[d]
               \/ LiveTx(call'[d].tx) /\ (call'[d].step = "tx.write" => call'[d].patch.items = NoItems)
    BY <1>0, <2>1 DEF UpdateRead
  <2>2. ASSUME NEW t \in Txs, CancelRead(c, t)
        PROVE  \/ call'[d] = call[d]
               \/ LiveTx(call'[d].tx) /\ call'[d].patch.items = NoItems
    BY <1>0, <2>2 DEF CancelRead, CancelPatch
  <2>3. ASSUME NEW t \in Txs, CompleteRead(c, t) \/ RemoveRead(c, t) PROVE call'[d] = call[d]
    BY <1>0, <2>3 DEF CompleteRead, RemoveRead
  <2> QED BY <1>2, <2>1, <2>2, <2>3 DEF TransactionBegin
<1>3. ASSUME NEW c \in Callers, PaymentBegin(c) PROVE call'[d] = call[d]
  <2>1. ASSUME NEW k, Begin(c, k), k.step \notin {"tx.clear", "tx.write"} PROVE call'[d] = call[d]
    BY <1>0, <2>1
  <2>2. ASSUME NEW t \in Txs, NEW amount \in Amounts, CreateRead(c, t, amount)
        PROVE  call'[d] = call[d]
    BY <2>1, <2>2 DEF CreateRead
  <2>3. ASSUME NEW p \in Pays, NEW patch \in PayPatches, UpdatePayRead(c, p, patch)
        PROVE  call'[d] = call[d]
    BY <2>1, <2>3 DEF UpdatePayRead
  <2>4. ASSUME NEW p \in Pays, RefundRead(c, p) PROVE call'[d] = call[d]
    BY <2>1, <2>4 DEF RefundRead
  <2>5. ASSUME NEW p \in Pays, RemovePayRead(c, p) PROVE call'[d] = call[d]
    BY <2>1, <2>5 DEF RemovePayRead
  <2> QED BY <1>3, <2>2, <2>3, <2>4, <2>5 DEF PaymentBegin
<1>4. ASSUME NEW c \in Callers, End(c) PROVE call'[d] = call[d]
  BY <1>4 DEF End, Idle
<1>5. ASSUME NEW c \in Callers, RemoveLines(c) \/ RemovePays(c) PROVE call'[d] = call[d]
  BY <1>5 DEF RemoveLines, RemovePays, Goto, Calls, Idle
<1>6. ASSUME NEW c \in Callers, UpdateClear(c)
      PROVE  call'[d] = call[d] \/ (d = c /\ call'[d].tx = call[d].tx)
  BY <1>6 DEF UpdateClear, Goto, Calls, Idle
<1>7. ASSUME NEW c \in Callers, CompleteReadLines(c) \/ CompleteReadPays(c)
      PROVE  call'[d] = call[d]
  BY <1>7 DEF CompleteReadLines, CompleteReadPays, Idle
<1> QED
  BY <1>1, <1>2, <1>3, <1>4, <1>5, <1>6, <1>7
  DEF Next, BeginCall, Step, Abort, Fail, TransactionStep, UpdateClear, TxWrite, CompleteWrite,
      RemoveRow, PaymentStep, CreateInsert, UpdatePayWrite, RefundWrite, RemovePayWrite

LEMMA EditsStayExisting ==
  ASSUME TypeOK, EditsExisting, [Next]_vars
  PROVE  EditsExisting'
<1> SUFFICES ASSUME NEW d \in Callers, call'[d].step \in {"tx.clear", "tx.write"}
             PROVE  tx'[call'[d].tx] # NoRow
  BY DEF EditsExisting
<1>1. call'[d].tx \in Txs
  <2>1. call'[d] \in Calls
    BY TypeStep DEF TypeOK
  <2> QED BY <2>1, CallTypes
<1>2. tx[call'[d].tx] # NoRow
  <2>1. CASE call'[d] = call[d]
    BY <2>1 DEF EditsExisting
  <2>2. CASE call[d].step = "tx.clear" /\ call'[d].tx = call[d].tx
    BY <2>2 DEF EditsExisting
  <2>3. CASE LiveTx(call'[d].tx)
    BY <2>3, VacantRows DEF LiveTx
  <2> QED BY <2>1, <2>2, <2>3, EditOrigin
<1>3. PICK t \in Txs : t = call'[d].tx
  BY <1>1
<1> QED BY <1>2, <1>3, ExistingStays

\* Only the handler that clears a sale's lines becomes one that will add a list.
LEMMA PendingOrigin ==
  ASSUME TypeOK, [Next]_vars, NEW t \in Txs
  PROVE  \/ PendingLists(t)' \subseteq PendingLists(t)
         \/ \E c \in Callers : UpdateClear(c) /\ call[c].tx = t
<1> SUFFICES ASSUME NEW d \in PendingLists(t)', d \notin PendingLists(t)
             PROVE  UpdateClear(d) /\ call[d].tx = t
  BY DEF PendingLists
<1>1. /\ d \in Callers /\ call'[d].step = "tx.write"
      /\ call'[d].tx = t /\ call'[d].patch.items # NoItems
  BY DEF PendingLists
<1>2. call'[d] # call[d]
  BY <1>1 DEF PendingLists
<1> QED BY <1>1, <1>2, EditOrigin

(***************************************************************************)
(* Concurrent updates can store several item lists for one sale, but never *)
(* more than there are requests in flight.                                 *)
(***************************************************************************)
THEOREM ListsNeverPileUp == Spec => []ListsBounded
<1> DEFINE Inv == EditsExisting /\ ListsBounded
<1>0. Cardinality(Callers) \in Nat /\ Cardinality(Callers) >= 1
  BY HandlersAssumption, FS_CardinalityType, FS_EmptySet DEF HandlersAssumption
<1>1. Init => Inv
  BY VacantRows DEF Init, HandlersInit, TablesInit, EditsExisting, ListsBounded, LiveTx, Idle
<1>2. TypeOK /\ Inv /\ [Next]_vars => Inv'
  <2> SUFFICES ASSUME TypeOK, EditsExisting, ListsBounded, [Next]_vars,
                      NEW t \in Txs, LiveTx(t)'
               PROVE  tx'[t].lists + Cardinality(PendingLists(t)') <= Cardinality(Callers)
    BY EditsStayExisting DEF ListsBounded
  <2>1. /\ IsFiniteSet(PendingLists(t)) /\ Cardinality(PendingLists(t)) \in Nat
        /\ IsFiniteSet(PendingLists(t)') /\ Cardinality(PendingLists(t)') \in Nat
        /\ Cardinality(PendingLists(t)') <= Cardinality(Callers)
    <3>1. PendingLists(t) \in SUBSET Callers /\ PendingLists(t)' \in SUBSET Callers
      BY DEF PendingLists
    <3> QED BY <3>1, HandlersAssumption, FS_Subset, FS_CardinalityType DEF HandlersAssumption
  <2>2. tx'[t] # GoneRow /\ tx'[t] \in TxRows
    <3>1. TypeOK'
      BY TypeStep
    <3> QED BY <3>1, VacantRows DEF TypeOK, TablesTypeOK, LiveTx
  <2>3. LiveTx(t) => /\ tx[t] \in TxRows
                     /\ tx[t].lists + Cardinality(PendingLists(t)) <= Cardinality(Callers)
    BY LiveTxRow DEF TypeOK, ListsBounded
  <2>4. CASE tx'[t].lists = 0
    BY <1>0, <2>1, <2>4
  <2>5. CASE LiveTx(t) /\ tx'[t].lists = tx[t].lists
    <3>1. CASE PendingLists(t)' \subseteq PendingLists(t)
      <4>1. Cardinality(PendingLists(t)') <= Cardinality(PendingLists(t))
        BY <2>1, <3>1, FS_Subset
      <4> QED BY <1>0, <2>1, <2>3, <2>5, <4>1 DEF TxRows
    <3>2. CASE \E c \in Callers : UpdateClear(c) /\ call[c].tx = t
      <4>1. tx'[t] = ClearedTx(tx[t])
        BY <2>5, <3>2 DEF UpdateClear, ClearLines, TypeOK, TablesTypeOK
      <4>2. tx'[t].lists = 0
        BY <2>3, <2>5, <4>1 DEF ClearedTx, TxRows
      <4> QED BY <2>4, <4>2
    <3> QED BY <3>1, <3>2, PendingOrigin
  <2>6. CASE tx[t] = NoRow /\ tx'[t].lists <= 1
    <3>1. PendingLists(t)' = {}
      <4>1. PendingLists(t) = {} /\ ~\E c \in Callers : UpdateClear(c) /\ call[c].tx = t
        BY <2>6 DEF EditsExisting, PendingLists, UpdateClear
      <4> QED BY <4>1, PendingOrigin
    <3> QED BY <1>0, <2>2, <2>6, <3>1, FS_EmptySet DEF TxRows
  <2>7. ASSUME NEW c \in Callers, LiveTx(t), call[c].tx = t, call[c].step = "tx.write", End(c),
               tx'[t] = PatchedTx(tx[t], call[c].patch)
        PROVE  tx'[t].lists + Cardinality(PendingLists(t)') <= Cardinality(Callers)
    <3> DEFINE items == call[c].patch.items
    <3>1. items \in ItemInputs
      <4>1. call[c].patch \in TxPatches \cup {CancelPatch}
        BY <2>7, CallTypes DEF TypeOK
      <4> QED BY <4>1 DEF TxPatches, CancelPatch, ItemInputs
    <3>2. tx'[t].lists = tx[t].lists + items.lists
      BY <2>3, <2>7 DEF PatchedTx, TxRows
    <3>3. CASE items = NoItems
      BY <2>3, <2>5, <2>7, <3>2, <3>3 DEF NoItems, TxRows
    <3>4. CASE items # NoItems
      <4>1. PendingLists(t)' = PendingLists(t) \ {c} /\ c \in PendingLists(t)
        BY <2>7, <3>4 DEF PendingLists, End, TypeOK, Idle
      <4>2. Cardinality(PendingLists(t)') = Cardinality(PendingLists(t)) - 1
        BY <2>1, <4>1, FS_RemoveElement
      <4> QED BY <1>0, <2>1, <2>3, <2>7, <3>1, <3>2, <4>2, ItemInputsType DEF TxRows
    <3> QED BY <3>3, <3>4
  <2>8. CASE tx[t] = NoRow /\ \E items \in ItemInputs, adjust \in NewAdjustments :
                               tx'[t] = NewTx(items, adjust)
    <3>1. tx'[t].lists <= 1
      BY <2>8, ItemInputsType DEF NewTx
    <3> QED BY <2>6, <2>8, <3>1
  <2>9. CASE tx'[t] = tx[t]
    BY <2>5, <2>9 DEF LiveTx
  <2>10. CASE LiveTx(t) /\ tx'[t] = ClearedTx(tx[t])
    BY <2>3, <2>4, <2>10 DEF ClearedTx, TxRows
  <2>11. CASE LiveTx(t) /\ tx'[t] = CompletedTx(tx[t])
    BY <2>3, <2>5, <2>11 DEF CompletedTx, TxRows
  <2> QED BY <2>2, <2>7, <2>8, <2>9, <2>10, <2>11, TxSteps DEF TxStep
<1> QED BY <1>1, <1>2, TypeCorrect, PTL DEF Spec
=============================================================================
