------------------------- MODULE SalesRegisterProofs -------------------------
(***************************************************************************)
(* Theorems about the guarded sales of Sales, whatever clients do to the   *)
(* others: no check is stale when it is acted on, and so a completed sale  *)
(* is final, is covered when it is stamped, a settled payment can only be  *)
(* refunded, once.  When nothing fails, the handlers implement the atomic  *)
(* API of the guarded sales.                                               *)
(*                                                                         *)
(* The inductive invariant joins ChecksHold with two facts of its own.  A  *)
(* handler about a guarded sale shares neither sale nor payment with any   *)
(* other (Apart); and a handler that has read a payment and finds it on a  *)
(* guarded sale now is about that sale (PaymentsKnown), so a handler that  *)
(* read the payment of another sale cannot reach a guarded one through it. *)
(* A handler then writes only to the guarded sales it is about             *)
(* (StepIsLocal), what another one validated depends only on its own       *)
(* (Unaffected), and the two are apart.                                    *)
(***************************************************************************)
EXTENDS SalesProofs, SalesRefinement

Apart == \A c, d \in Callers :
  c # d /\ Meet(call[c], call[d]) => ~AboutGuarded(call[c])

PaymentsKnown == \A c \in Callers : \A p \in PaymentOf(call[c]) :
  pay[p] # NoRow /\ (PaymentOfGuarded(p) => pay[p].tx \in SalesOf(call[c]))

GuardedInv == TypeOK /\ Apart /\ PaymentsKnown /\ ChecksHold

-----------------------------------------------------------------------------
(* What a handler is about *)

LEMMA SalesOfCall ==
  ASSUME NEW k \in Calls
  PROVE  /\ SalesOf(k) \subseteq Txs
         /\ k # Idle => k.tx \in SalesOf(k)
         /\ k.step \notin {"idle", "pay.write"} => SalesOf(k) = {k.tx}
         /\ k.step = "pay.write" /\ k.patch.tx # Absent => k.patch.tx \in SalesOf(k)
<1>1. CASE k.step = "idle"
  BY <1>1, CallTypes DEF SalesOf
<1>2. CASE k.step = "pay.write"
  <2>1. k.tx \in Txs /\ k.patch.tx \in Txs \cup {Absent}
    BY <1>2, CallTypes DEF PayPatches
  <2>2. SalesOf(k) = {k.tx, Patched(k.tx, k.patch.tx)}
    BY <1>2 DEF SalesOf
  <2> QED BY <1>2, <2>1, <2>2 DEF Patched
<1>3. CASE k.step \notin {"idle", "pay.write"}
  <2>1. k.tx \in Txs
    BY <1>3 DEF Calls, Idle
  <2>2. SalesOf(k) = {k.tx}
    BY <1>3 DEF SalesOf
  <2> QED BY <1>3, <2>1, <2>2
<1> QED BY <1>1, <1>2, <1>3

LEMMA PaymentOfCall ==
  ASSUME NEW k \in Calls
  PROVE  /\ PaymentOf(k) \subseteq Pays
         /\ k.step \in {"pay.write", "pay.refund", "pay.delete"} => PaymentOf(k) = {k.pay}
         /\ k.step \notin {"pay.write", "pay.refund", "pay.delete"} => PaymentOf(k) = {}
BY CallTypes DEF PaymentOf

\* The request of an idle register concerns nothing.
LEMMA IdleConcernsNothing ==
  /\ SalesOf(Idle) = {} /\ PaymentOf(Idle) = {}
BY DEF SalesOf, PaymentOf, Idle

\* The SELECTs of complete write nothing; the handler stays about its sale.
Reading(c) == CompleteReadLines(c) \/ CompleteReadPays(c)

LEMMA ReadingStep ==
  ASSUME TypeOK, NEW c \in Callers, Reading(c)
  PROVE  /\ tx' = tx /\ pay' = pay
         /\ call[c].step \in {"tx.readLines", "tx.readPays"} /\ call[c].tx \in Txs
         /\ \A d \in Callers \ {c} : call'[d] = call[d]
         /\ \/ call'[c] = Idle
            \/ call'[c].step \in {"tx.readPays", "tx.complete"} /\ call'[c].tx = call[c].tx
<1>1. call[c].step \in {"tx.readLines", "tx.readPays"} /\ call[c] \in Calls
  BY DEF Reading, CompleteReadLines, CompleteReadPays, TypeOK
<1>2. call[c].tx \in Txs
  BY <1>1, CallTypes
<1> QED BY <1>1, <1>2 DEF Reading, CompleteReadLines, CompleteReadPays, TypeOK

\* A step leaves a sale alone: its row, once it exists, and its payments.
Same(t) ==
  /\ LiveTx(t) => tx'[t] = tx[t]
  /\ PaysOf(t)' = PaysOf(t)
  /\ \A p \in PaysOf(t) : pay'[p] = pay[p]

LEMMA SameBalance ==
  ASSUME NEW t \in Txs, LiveTx(t), Same(t)
  PROVE  LiveTx(t)' /\ Balance(t)' = Balance(t)
<1>1. tx'[t] = tx[t]
  BY DEF Same
<1>2. PaysOf(t)' = PaysOf(t)
  BY DEF Same
<1>3. [p \in PaysOf(t) |-> pay[p].amount]' = [p \in PaysOf(t) |-> pay[p].amount]
  BY <1>2 DEF Same
<1>4. Paid(t)' = Paid(t)
  BY <1>3 DEF Paid
<1> QED BY <1>1, <1>4 DEF Balance, LiveTx

\* A handler about a guarded sale keeps what it validated when that sale and the
\* payment it has read are left alone.
LEMMA Unaffected ==
  ASSUME TypeOK, NEW d \in Callers, call'[d] = call[d], AboutGuarded(call[d]),
         \A t \in SalesOf(call[d]) \cap Guarded : Same(t),
         \A p \in PaymentOf(call[d]) : pay'[p] = pay[p],
         Validated(d), Achieved(d)
  PROVE  Validated(d)' /\ Achieved(d)'
<1> DEFINE k == call[d]
<1>0. k \in Calls
  BY DEF TypeOK
<1>1. CASE k.step \in {"tx.clear", "tx.write", "tx.readLines", "tx.readPays", "tx.complete",
                     "tx.rmLines", "tx.rmPays", "tx.rmRow"}
  <2>1. k.tx \in Txs /\ SalesOf(k) = {k.tx}
    BY <1>0, <1>1, CallTypes, SalesOfCall
  <2>2. Same(k.tx)
    BY <2>1 DEF AboutGuarded
  <2>3. LiveTx(k.tx)
    BY <1>1 DEF Validated
  <2>4. LiveTx(k.tx)' /\ Balance(k.tx)' = Balance(k.tx)
    BY <2>1, <2>2, <2>3, SameBalance
  <2>5. tx'[k.tx] = tx[k.tx] /\ PaysOf(k.tx)' = PaysOf(k.tx)
    BY <2>2, <2>3 DEF Same
  <2> QED BY <1>1, <2>4, <2>5 DEF Validated, Achieved
<1>2. CASE k.step = "pay.insert"
  <2>1. k.tx \in Txs /\ SalesOf(k) = {k.tx}
    BY <1>0, <1>2, CallTypes, SalesOfCall
  <2>2. LiveTx(k.tx) /\ Same(k.tx)
    BY <2>1, <1>2 DEF Validated, AboutGuarded
  <2>3. LiveTx(k.tx)'
    BY <2>1, <2>2, SameBalance
  <2> QED BY <1>2, <2>3 DEF Validated, Achieved
<1>3. CASE k.step \in {"pay.write", "pay.refund", "pay.delete"}
  <2>1. PaymentOf(k) = {k.pay}
    BY <1>0, <1>3, PaymentOfCall
  <2>2. pay'[k.pay] = pay[k.pay]
    BY <2>1
  <2> QED BY <1>3, <2>2 DEF Validated, Achieved, LivePay
<1>4. k.step # "idle"
  BY DEF AboutGuarded, SalesOf
<1> QED BY <1>0, <1>1, <1>2, <1>3, <1>4 DEF Calls, Idle

-----------------------------------------------------------------------------
(* A handler touches only the guarded sales it is about *)

LEMMA PaysUnchanged ==
  ASSUME pay' = pay, NEW t
  PROVE  PaysOf(t)' = PaysOf(t) /\ \A p \in PaysOf(t) : pay'[p] = pay[p]
BY DEF PaysOf, LivePay

\* A write to one payment concerns the sale it was on and the sale it is on.
LEMMA OnePayWritten ==
  ASSUME TablesTypeOK, NEW q \in Pays, \A p \in Pays \ {q} : pay'[p] = pay[p],
         NEW t, LivePay(q) => pay[q].tx # t, LivePay(q)' => pay'[q].tx # t
  PROVE  PaysOf(t)' = PaysOf(t) /\ \A p \in PaysOf(t) : pay'[p] = pay[p]
<1>1. q \notin PaysOf(t) /\ q \notin PaysOf(t)'
  BY DEF PaysOf
<1>2. ASSUME NEW p \in Pays \ {q} PROVE p \in PaysOf(t)' <=> p \in PaysOf(t)
  BY <1>2 DEF PaysOf, LivePay
<1> QED BY <1>1, <1>2 DEF PaysOf

LEMMA OneTxWritten ==
  ASSUME TablesTypeOK, NEW s \in Txs, tx' = tx \/ \E row : tx' = [tx EXCEPT ![s] = row],
         pay' = pay, NEW t \in Txs, t # s
  PROVE  Same(t)
BY PaysUnchanged DEF Same, TablesTypeOK

\* What a statement of PaymentsService does to the payment its handler has read.
LEMMA OnePayChanged ==
  ASSUME TypeOK, NEW c \in Callers, UpdatePayWrite(c) \/ RefundWrite(c) \/ RemovePayWrite(c)
  PROVE  /\ call[c] \in Calls /\ call[c].pay \in Pays /\ PaymentOf(call[c]) = {call[c].pay}
         /\ tx' = tx /\ call'[c] = Idle
         /\ \A p \in Pays \ {call[c].pay} : pay'[p] = pay[p]
         /\ \/ pay' = pay
            \/ /\ LivePay(call[c].pay) /\ pay[call[c].pay] \in PayRows
               /\ \/ pay'[call[c].pay] = GoneRow
                  \/ pay'[call[c].pay] = RefundedPay(pay[call[c].pay])
                  \/ /\ call[c].step = "pay.write" /\ call[c].patch \in PayPatches
                     /\ pay'[call[c].pay] = PatchedPay(pay[call[c].pay], call[c].patch)
<1>0. call[c] \in Calls /\ TablesTypeOK
  BY DEF TypeOK
<1>1. call[c].step \in {"pay.write", "pay.refund", "pay.delete"} /\ tx' = tx /\ call'[c] = Idle
  BY DEF UpdatePayWrite, RefundWrite, RemovePayWrite, End, TypeOK
<1>2. call[c].pay \in Pays /\ PaymentOf(call[c]) = {call[c].pay}
  BY <1>0, <1>1, CallTypes, PaymentOfCall
<1>3. LivePay(call[c].pay) => pay[call[c].pay] \in PayRows
  BY <1>0, <1>2, LivePayRow
<1>4. \A p \in Pays \ {call[c].pay} : pay'[p] = pay[p]
  BY <1>0 DEF UpdatePayWrite, RefundWrite, RemovePayWrite, TablesTypeOK
<1>5. CASE UpdatePayWrite(c)
  BY <1>0, <1>1, <1>2, <1>3, <1>4, <1>5, CallTypes DEF UpdatePayWrite, TablesTypeOK
<1>6. CASE RefundWrite(c)
  BY <1>0, <1>1, <1>2, <1>3, <1>4, <1>6 DEF RefundWrite, TablesTypeOK
<1>7. CASE RemovePayWrite(c)
  BY <1>0, <1>1, <1>2, <1>3, <1>4, <1>7 DEF RemovePayWrite, TablesTypeOK
<1> QED BY <1>5, <1>6, <1>7

\* The sale of a payment is the one it was on, or the one its update names.
LEMMA SaleOfWrittenPay ==
  ASSUME NEW row \in PayRows, NEW patch
  PROVE  /\ RefundedPay(row).tx = row.tx
         /\ PatchedPay(row, patch).tx = row.tx
              \/ (patch.tx # Absent /\ PatchedPay(row, patch).tx = patch.tx)
BY DEF RefundedPay, PatchedPay, Patched, PayRows

LEMMA StepIsLocal ==
  ASSUME TypeOK, PaymentsKnown, NEW c \in Callers, Step(c),
         NEW t \in Guarded \ SalesOf(call[c])
  PROVE  Same(t)
<1> DEFINE k == call[c]
<1>0. k \in Calls /\ TablesTypeOK /\ t \in Txs
  BY StoreAssumption DEF TypeOK, StoreAssumption
<1>1. k # Idle => k.tx # t
  BY <1>0, SalesOfCall
<1>2. CASE UpdateClear(c) \/ RemoveLines(c)
  <2>1. k.tx \in Txs /\ k.tx # t
    BY <1>0, <1>1, <1>2, CallTypes DEF UpdateClear, RemoveLines, Idle
  <2>2. (tx' = tx \/ \E row : tx' = [tx EXCEPT ![k.tx] = row]) /\ pay' = pay
    BY <1>2 DEF UpdateClear, RemoveLines, ClearLines
  <2> QED BY <1>0, <2>1, <2>2, OneTxWritten
<1>3. CASE TxWrite(c) \/ CompleteWrite(c) \/ RemoveRow(c)
  <2>1. k.tx \in Txs /\ k.tx # t
    BY <1>0, <1>1, <1>3, CallTypes DEF TxWrite, CompleteWrite, RemoveRow, Idle
  <2>2. (tx' = tx \/ \E row : tx' = [tx EXCEPT ![k.tx] = row]) /\ pay' = pay
    BY <1>3 DEF TxWrite, CompleteWrite, RemoveRow
  <2> QED BY <1>0, <2>1, <2>2, OneTxWritten
<1>4. CASE RemovePays(c)
  <2>1. k.tx # t
    BY <1>1, <1>4 DEF RemovePays, Idle
  <2>2. tx' = tx /\ pay' = WithoutPaysOf(k.tx)
    BY <1>4 DEF RemovePays
  <2>3. ASSUME NEW p \in Pays
        PROVE  (p \in PaysOf(t)' <=> p \in PaysOf(t)) /\ (p \in PaysOf(t) => pay'[p] = pay[p])
    BY <2>1, <2>2, VacantRows DEF WithoutPaysOf, PaysOf, LivePay
  <2> QED BY <2>2, <2>3 DEF Same, PaysOf
<1>7. CASE Reading(c)
  BY <1>7, ReadingStep, PaysUnchanged DEF Same
<1>5. CASE CreateInsert(c)
  <2>1. k.tx # t /\ tx' = tx
    BY <1>1, <1>5 DEF CreateInsert, Idle
  <2>2. CASE pay' = pay
    BY <2>1, <2>2, PaysUnchanged DEF Same
  <2>3. CASE \E p \in Pays : pay[p] = NoRow /\ pay' = [pay EXCEPT ![p] = NewPay(k.tx, k.amount)]
    <3>1. PICK q \in Pays : pay[q] = NoRow /\ pay' = [pay EXCEPT ![q] = NewPay(k.tx, k.amount)]
      BY <2>3
    <3>2. ~LivePay(q) /\ pay'[q].tx = k.tx /\ \A p \in Pays \ {q} : pay'[p] = pay[p]
      BY <3>1, <1>0, VacantRows DEF LivePay, NewPay, TablesTypeOK
    <3> QED BY <1>0, <2>1, <3>2, OnePayWritten DEF Same
  <2> QED BY <1>5, <2>2, <2>3 DEF CreateInsert
<1>6. CASE UpdatePayWrite(c) \/ RefundWrite(c) \/ RemovePayWrite(c)
  <2> PICK q \in Pays : q = k.pay
    BY <1>6, OnePayChanged
  <2>1. PaymentOf(k) = {q} /\ tx' = tx /\ \A p \in Pays \ {q} : pay'[p] = pay[p]
    BY <1>6, OnePayChanged
  <2>2. LivePay(q) => pay[q].tx # t
    BY <2>1 DEF PaymentsKnown, PaymentOfGuarded
  <2>3. CASE pay' = pay
    BY <2>1, <2>3, PaysUnchanged DEF Same
  <2>4. CASE pay' # pay
    <3>1. LivePay(q) /\ pay[q] \in PayRows
      BY <1>6, <2>4, OnePayChanged
    <3>2. CASE pay'[q] = GoneRow
      <4>1. ~LivePay(q)'
        BY <3>2, VacantRows DEF LivePay
      <4> QED BY <1>0, <2>1, <2>2, <4>1, OnePayWritten DEF Same
    <3>3. CASE pay'[q] = RefundedPay(pay[q])
      <4>1. pay'[q].tx # t
        BY <2>2, <3>1, <3>3, SaleOfWrittenPay
      <4> QED BY <1>0, <2>1, <2>2, <4>1, OnePayWritten DEF Same
    <3>4. CASE k.step = "pay.write" /\ pay'[q] = PatchedPay(pay[q], k.patch)
      <4>1. k.patch.tx # Absent => k.patch.tx # t
        BY <1>0, <3>4, SalesOfCall
      <4>2. pay'[q].tx # t
        BY <2>2, <3>1, <3>4, <4>1, SaleOfWrittenPay
      <4> QED BY <1>0, <2>1, <2>2, <4>2, OnePayWritten DEF Same
    <3> QED BY <1>6, <2>4, <3>2, <3>3, <3>4, OnePayChanged
  <2> QED BY <2>3, <2>4
<1> QED
  BY <1>2, <1>3, <1>4, <1>5, <1>6, <1>7 DEF Step, TransactionStep, PaymentStep, Reading

\* A payment that no sale and no payment of the handler reaches is left alone.
LEMMA PaymentLeftAlone ==
  ASSUME TypeOK, NEW c \in Callers, Step(c), NEW p \in Pays, LivePay(p),
         p \notin PaymentOf(call[c]), pay[p].tx \notin SalesOf(call[c])
  PROVE  pay'[p] = pay[p]
<1>0. call[c] \in Calls /\ TablesTypeOK
  BY DEF TypeOK
<1>1. CASE UpdatePayWrite(c) \/ RefundWrite(c) \/ RemovePayWrite(c)
  BY <1>1, OnePayChanged
<1>2. CASE CreateInsert(c)
  BY <1>0, <1>2, VacantRows DEF CreateInsert, LivePay, TablesTypeOK
<1>3. CASE RemovePays(c)
  <2>1. pay[p].tx # call[c].tx
    BY <1>0, <1>3, SalesOfCall DEF RemovePays, Idle
  <2> QED BY <1>3, <2>1 DEF RemovePays, WithoutPaysOf, PaysOf
<1>4. CASE TransactionStep(c) /\ ~RemovePays(c)
  BY <1>4
  DEF TransactionStep, UpdateClear, TxWrite, CompleteReadLines, CompleteReadPays, CompleteWrite,
      RemoveLines, RemoveRow
<1> QED BY <1>1, <1>2, <1>3, <1>4 DEF Step, PaymentStep

-----------------------------------------------------------------------------
(* The inductive invariant *)

\* How a step moves the requests in flight: the one of c is replaced, by a new request
\* or by one about no more than before.
Narrower(j, k) == SalesOf(j) \subseteq SalesOf(k) /\ PaymentOf(j) \subseteq PaymentOf(k)

LEMMA StepNarrows ==
  ASSUME TypeOK, NEW c \in Callers, Step(c) \/ Abort(c)
  PROVE  /\ Narrower(call'[c], call[c]) /\ PaymentOf(call'[c]) = {}
         /\ \A d \in Callers \ {c} : call'[d] = call[d]
<1> DEFINE Goal == /\ Narrower(call'[c], call[c]) /\ PaymentOf(call'[c]) = {}
                   /\ \A d \in Callers \ {c} : call'[d] = call[d]
<1>1. ASSUME End(c) PROVE Goal
  <2>1. call'[c] = Idle /\ \A d \in Callers \ {c} : call'[d] = call[d]
    BY <1>1 DEF End, TypeOK
  <2> QED BY <2>1, IdleConcernsNothing DEF Narrower
<1>2. ASSUME NEW s \in {"tx.write", "tx.rmPays", "tx.rmRow"}, Goto(c, s),
             call[c].step \in {"tx.clear", "tx.rmLines", "tx.rmPays"}
      PROVE  Goal
  <2>1. /\ call'[c].step = s /\ call'[c].tx = call[c].tx
        /\ \A d \in Callers \ {c} : call'[d] = call[d]
    BY <1>2 DEF Goto, TypeOK, Calls, Idle
  <2> PICK j : j = call'[c]
    OBVIOUS
  <2>2. SalesOf(j) = {j.tx} /\ SalesOf(call[c]) = {call[c].tx}
    BY <1>2, <2>1 DEF SalesOf
  <2>3. PaymentOf(j) = {} /\ PaymentOf(call[c]) = {}
    BY <1>2, <2>1 DEF PaymentOf
  <2> QED BY <2>1, <2>2, <2>3 DEF Narrower
<1>3. ASSUME Reading(c) PROVE Goal
  <2>1. /\ call[c].step \in {"tx.readLines", "tx.readPays"}
        /\ \A d \in Callers \ {c} : call'[d] = call[d]
        /\ \/ call'[c] = Idle
           \/ call'[c].step \in {"tx.readPays", "tx.complete"} /\ call'[c].tx = call[c].tx
    BY <1>3, ReadingStep
  <2> PICK j : j = call'[c]
    OBVIOUS
  <2>2. CASE j = Idle
    BY <2>1, <2>2, IdleConcernsNothing DEF Narrower
  <2>3. CASE j.step \in {"tx.readPays", "tx.complete"} /\ j.tx = call[c].tx
    <3>1. SalesOf(j) = {j.tx} /\ SalesOf(call[c]) = {call[c].tx}
      BY <2>1, <2>3 DEF SalesOf
    <3>2. PaymentOf(j) = {} /\ PaymentOf(call[c]) = {}
      BY <2>1, <2>3 DEF PaymentOf
    <3> QED BY <2>1, <2>3, <3>1, <3>2 DEF Narrower
  <2> QED BY <2>1, <2>2, <2>3
<1> QED
  BY <1>1, <1>2, <1>3
  DEF Reading, Step, Abort, Fail, TransactionStep, UpdateClear, TxWrite, CompleteWrite, RemoveLines,
      RemovePays, RemoveRow, PaymentStep, CreateInsert, UpdatePayWrite, RefundWrite,
      RemovePayWrite

\* A request is sent only when it meets none, or concerns guarded sales neither itself
\* nor through the ones it meets.
LEMMA BeginIsAdmitted ==
  ASSUME TypeOK, NEW c \in Callers, BeginCall(c)
  PROVE  /\ \A d \in Callers : Meet(call[d], call'[c]) =>
               ~AboutGuarded(call[d]) /\ ~AboutGuarded(call'[c])
         /\ \A d \in Callers \ {c} : call'[d] = call[d]
<1>1. ASSUME NEW k, Begin(c, k)
      PROVE  /\ \A d \in Callers : Meet(call[d], call'[c]) =>
                  ~AboutGuarded(call[d]) /\ ~AboutGuarded(call'[c])
             /\ \A d \in Callers \ {c} : call'[d] = call[d]
  <2>1. call'[c] = k /\ \A d \in Callers \ {c} : call'[d] = call[d]
    BY <1>1 DEF Begin, Start, TypeOK
  <2> QED BY <1>1, <2>1 DEF Begin, Admitted
<1> QED BY <1>1
  DEF BeginCall, TransactionBegin, UpdateRead, CancelRead, CompleteRead, RemoveRead,
      PaymentBegin, CreateRead, UpdatePayRead, RefundRead, RemovePayRead

LEMMA MeetIsSymmetric ==
  ASSUME NEW j, NEW k
  PROVE  Meet(j, k) <=> Meet(k, j)
BY DEF Meet

\* Requests about guarded sales stay apart from all others.
LEMMA StillApart ==
  ASSUME TypeOK, Apart, [Next]_vars
  PROVE  Apart'
<1>1. CASE call' = call
  BY <1>1 DEF Apart
<1>2. ASSUME NEW c \in Callers, BeginCall(c) PROVE Apart'
  <2> PICK k : k = call'[c]
    OBVIOUS
  <2>1. /\ \A d \in Callers : Meet(call[d], k) => ~AboutGuarded(call[d]) /\ ~AboutGuarded(k)
        /\ \A d \in Callers \ {c} : call'[d] = call[d]
    BY <1>2, BeginIsAdmitted
  <2> SUFFICES ASSUME NEW d \in Callers, NEW e \in Callers, d # e, NEW j, NEW l,
                      j = call'[d], l = call'[e], Meet(j, l)
               PROVE  ~AboutGuarded(j)
    BY DEF Apart
  <2>2. CASE d = c
    BY <2>1, <2>2, MeetIsSymmetric
  <2>3. CASE e = c
    BY <2>1, <2>3
  <2>4. CASE d # c /\ e # c
    BY <2>1, <2>4 DEF Apart
  <2> QED BY <2>2, <2>3, <2>4
<1>3. ASSUME NEW c \in Callers, Step(c) \/ Abort(c) PROVE Apart'
  <2>1. Narrower(call'[c], call[c]) /\ \A d \in Callers \ {c} : call'[d] = call[d]
    BY <1>3, StepNarrows
  <2>2. \A d \in Callers : Narrower(call'[d], call[d])
    BY <2>1 DEF Narrower
  <2> SUFFICES ASSUME NEW d \in Callers, NEW e \in Callers, d # e, NEW j, NEW l,
                      j = call'[d], l = call'[e], Meet(j, l)
               PROVE  ~AboutGuarded(j)
    BY DEF Apart
  <2>3. Narrower(j, call[d]) /\ Narrower(l, call[e])
    BY <2>2
  <2>4. Meet(call[d], call[e])
    BY <2>3 DEF Narrower, Meet
  <2>5. ~AboutGuarded(call[d])
    BY <2>4 DEF Apart
  <2> QED BY <2>3, <2>5 DEF Narrower, AboutGuarded
<1> QED
  BY <1>1, <1>2, <1>3 DEF Next, CreateSale, CreateTransaction, vars

\* The handler that steps: what it relies on for its next statement.
LEMMA NextStatement ==
  ASSUME TypeOK, NEW c \in Callers, Validated(c), Achieved(c), Step(c) \/ Abort(c)
  PROVE  Validated(c)' /\ Achieved(c)'
<1> DEFINE k == call[c]
<1>0. k \in Calls /\ TablesTypeOK
  BY DEF TypeOK
<1>1. ASSUME End(c) PROVE Validated(c)' /\ Achieved(c)'
  <2>1. call'[c] = Idle
    BY <1>1 DEF End, TypeOK
  <2> QED BY <2>1 DEF Validated, Achieved, Idle
<1>2. ASSUME UpdateClear(c) \/ RemoveLines(c) PROVE Validated(c)' /\ Achieved(c)'
  <2>1. k.tx \in Txs /\ LiveTx(k.tx) /\ tx[k.tx].status # "COMPLETED"
    BY <1>0, <1>2, CallTypes DEF UpdateClear, RemoveLines, Validated
  <2>2. tx[k.tx] \in TxRows
    BY <1>0, <2>1, LiveTxRow
  <2>3. tx'[k.tx] = ClearedTx(tx[k.tx])
    BY <1>0, <1>2, <2>1 DEF UpdateClear, RemoveLines, ClearLines, TablesTypeOK
  <2>4. tx'[k.tx].status = tx[k.tx].status /\ tx'[k.tx].lists = 0
    BY <2>2, <2>3 DEF ClearedTx, TxRows
  <2>5. call'[c].tx = k.tx /\ call'[c].step \in {"tx.write", "tx.rmPays"}
    BY <1>0, <1>2 DEF UpdateClear, RemoveLines, Goto, TypeOK, Calls, Idle
  <2> QED BY <2>1, <2>4, <2>5 DEF Validated, Achieved, LiveTx
<1>3. ASSUME RemovePays(c) PROVE Validated(c)' /\ Achieved(c)'
  <2>1. /\ k.tx \in Txs /\ LiveTx(k.tx) /\ tx[k.tx].status # "COMPLETED" /\ tx' = tx
        /\ tx[k.tx].lists = 0
    BY <1>0, <1>3, CallTypes DEF RemovePays, Validated, Achieved
  <2>2. call'[c].tx = k.tx /\ call'[c].step = "tx.rmRow"
    BY <1>0, <1>3 DEF RemovePays, Goto, TypeOK, Calls, Idle
  <2>3. pay' = WithoutPaysOf(k.tx)
    BY <1>3 DEF RemovePays
  <2>4. PICK t \in Txs : t = k.tx
    BY <2>1
  <2>5. PaysOf(t)' = {}
    BY <2>3, <2>4, VacantRows DEF WithoutPaysOf, PaysOf, LivePay
  <2> QED BY <2>1, <2>2, <2>4, <2>5 DEF Validated, Achieved, LiveTx
<1>4. ASSUME CompleteReadLines(c) PROVE Validated(c)' /\ Achieved(c)'
  <2>1. k.tx \in Txs /\ LiveTx(k.tx) /\ k.owed = tx[k.tx].adjust /\ tx' = tx
    BY <1>0, <1>4, CallTypes DEF CompleteReadLines, Validated
  <2>2. call'[c] = [step |-> "tx.readPays", tx |-> k.tx, owed |-> tx[k.tx].subtotal + k.owed]
    BY <1>4, <2>1 DEF CompleteReadLines, TypeOK
  <2> QED BY <2>1, <2>2 DEF Validated, Achieved, LiveTx
<1>5. ASSUME CompleteReadPays(c) PROVE Validated(c)' /\ Achieved(c)'
  <2>1. /\ k.tx \in Txs /\ LiveTx(k.tx) /\ k.owed = tx[k.tx].subtotal + tx[k.tx].adjust
        /\ tx' = tx /\ pay' = pay
    BY <1>0, <1>5, CallTypes DEF CompleteReadPays, Validated
  <2>2. CASE k.owed - Paid(k.tx) <= 0
    <3>1. call'[c] = [step |-> "tx.complete", tx |-> k.tx]
      BY <1>5, <2>2 DEF CompleteReadPays, TypeOK
    <3>2. Balance(k.tx) <= 0
      <4>1. Balance(k.tx) = k.owed - Paid(k.tx)
        BY <2>1 DEF Balance
      <4> QED BY <2>2, <4>1
    <3>3. PICK t \in Txs : t = k.tx
      BY <2>1
    <3>4. LiveTx(t)' /\ Balance(t)' <= 0
      BY <2>1, <3>2, <3>3, PaysUnchanged, SameBalance DEF Same
    <3> QED BY <3>1, <3>3, <3>4 DEF Validated, Achieved
  <2>3. CASE ~(k.owed - Paid(k.tx) <= 0)
    <3>1. call'[c] = Idle
      BY <1>5, <2>3 DEF CompleteReadPays, TypeOK
    <3> QED BY <3>1 DEF Validated, Achieved, Idle
  <2> QED BY <2>2, <2>3
<1> QED
  BY <1>1, <1>2, <1>3, <1>4, <1>5
  DEF Step, Abort, Fail, TransactionStep, TxWrite, CompleteWrite, RemoveRow, PaymentStep,
      CreateInsert, UpdatePayWrite, RefundWrite, RemovePayWrite

\* A new request starts with what it has just validated.
LEMMA FirstStatement ==
  ASSUME TypeOK, NEW c \in Callers, BeginCall(c)
  PROVE  /\ Validated(c)' /\ Achieved(c)'
         /\ tx' = tx /\ pay' = pay
         /\ \A d \in Callers \ {c} : call'[d] = call[d]
<1>1. ASSUME NEW k, Begin(c, k)
      PROVE  call'[c] = k /\ \A d \in Callers \ {c} : call'[d] = call[d]
  BY <1>1 DEF Begin, Start, TypeOK
<1>2. CASE TransactionBegin(c)
  <2>0. PICK t \in Txs :
          \/ \E patch \in TxPatches : UpdateRead(c, t, patch)
          \/ CancelRead(c, t)
          \/ CompleteRead(c, t)
          \/ RemoveRead(c, t)
    BY <1>2 DEF TransactionBegin
  <2>1. ASSUME NEW patch \in TxPatches, UpdateRead(c, t, patch)
        PROVE  /\ call'[c].step = "tx.clear" \/ (call'[c].step = "tx.write" /\ patch.items = NoItems)
               /\ call'[c].tx = t /\ call'[c].patch = patch
               /\ tx' = tx /\ pay' = pay /\ LiveTx(t) /\ tx[t].status # "COMPLETED"
               /\ \A d \in Callers \ {c} : call'[d] = call[d]
    BY <1>1, <2>1 DEF UpdateRead
  <2>2. CASE \E patch \in TxPatches : UpdateRead(c, t, patch)
    <3>1. PICK patch \in TxPatches : UpdateRead(c, t, patch)
      BY <2>2
    <3> QED BY <2>1, <3>1 DEF Validated, Achieved, LiveTx
  <2>3. CASE CancelRead(c, t)
    <3>1. /\ call'[c] = [step |-> "tx.write", tx |-> t, patch |-> CancelPatch]
          /\ tx' = tx /\ pay' = pay /\ LiveTx(t) /\ tx[t].status # "COMPLETED"
          /\ \A d \in Callers \ {c} : call'[d] = call[d]
      BY <1>1, <2>3 DEF CancelRead
    <3> QED BY <3>1 DEF Validated, Achieved, LiveTx, CancelPatch
  <2>4. CASE CompleteRead(c, t)
    <3>1. /\ call'[c] = [step |-> "tx.readLines", tx |-> t, owed |-> tx[t].adjust]
          /\ tx' = tx /\ pay' = pay /\ LiveTx(t)
          /\ \A d \in Callers \ {c} : call'[d] = call[d]
      BY <1>1, <2>4 DEF CompleteRead
    <3> QED BY <3>1 DEF Validated, Achieved, LiveTx
  <2>5. CASE RemoveRead(c, t)
    <3>1. /\ call'[c] = [step |-> "tx.rmLines", tx |-> t]
          /\ tx' = tx /\ pay' = pay /\ LiveTx(t) /\ tx[t].status # "COMPLETED"
          /\ \A d \in Callers \ {c} : call'[d] = call[d]
      BY <1>1, <2>5 DEF RemoveRead
    <3> QED BY <3>1 DEF Validated, Achieved, LiveTx
  <2> QED BY <2>0, <2>2, <2>3, <2>4, <2>5
<1>3. CASE PaymentBegin(c)
  <2> DEFINE Goal == /\ Validated(c)' /\ Achieved(c)'
                     /\ tx' = tx /\ pay' = pay
                     /\ \A d \in Callers \ {c} : call'[d] = call[d]
  <2>1. ASSUME NEW t \in Txs, NEW amount \in Amounts, CreateRead(c, t, amount) PROVE Goal
    <3>1. /\ call'[c] = [step |-> "pay.insert", tx |-> t, amount |-> amount]
          /\ tx' = tx /\ pay' = pay /\ LiveTx(t)
          /\ \A d \in Callers \ {c} : call'[d] = call[d]
      BY <1>1, <2>1 DEF CreateRead
    <3> QED BY <3>1 DEF Validated, Achieved, LiveTx
  <2>2. ASSUME NEW p \in Pays, NEW patch \in PayPatches, UpdatePayRead(c, p, patch) PROVE Goal
    <3>1. /\ call'[c] = [step |-> "pay.write", tx |-> pay[p].tx, pay |-> p, patch |-> patch]
          /\ tx' = tx /\ pay' = pay /\ LivePay(p)
          /\ pay[p].status \notin {"COMPLETED", "REFUNDED"}
          /\ \A d \in Callers \ {c} : call'[d] = call[d]
      BY <1>1, <2>2 DEF UpdatePayRead
    <3> QED BY <3>1 DEF Validated, Achieved, LivePay
  <2>3. ASSUME NEW p \in Pays, RefundRead(c, p) PROVE Goal
    <3>1. /\ call'[c] = [step |-> "pay.refund", tx |-> pay[p].tx, pay |-> p]
          /\ tx' = tx /\ pay' = pay /\ LivePay(p) /\ pay[p].status = "COMPLETED"
          /\ \A d \in Callers \ {c} : call'[d] = call[d]
      BY <1>1, <2>3 DEF RefundRead
    <3> QED BY <3>1 DEF Validated, Achieved, LivePay
  <2>4. ASSUME NEW p \in Pays, RemovePayRead(c, p) PROVE Goal
    <3>1. /\ call'[c] = [step |-> "pay.delete", tx |-> pay[p].tx, pay |-> p]
          /\ tx' = tx /\ pay' = pay /\ LivePay(p) /\ pay[p].status # "COMPLETED"
          /\ \A d \in Callers \ {c} : call'[d] = call[d]
      BY <1>1, <2>4 DEF RemovePayRead
    <3> QED BY <3>1 DEF Validated, Achieved, LivePay
  <2> QED BY <1>3, <2>1, <2>2, <2>3, <2>4 DEF PaymentBegin
<1> QED BY <1>2, <1>3 DEF BeginCall

\* A new sale is on an id nothing referred to.
LEMMA CreateSaleIsLocal ==
  ASSUME TypeOK, CreateSale
  PROVE  call' = call /\ pay' = pay /\ \A t \in Txs : Same(t)
<1>1. PICK s \in Txs, items \in ItemInputs, adjust \in NewAdjustments :
        CreateTransaction(s, items, adjust)
  BY DEF CreateSale
<1>2. ~LiveTx(s) /\ \A t \in Txs \ {s} : tx'[t] = tx[t]
  BY <1>1, VacantRows DEF CreateTransaction, LiveTx, TypeOK, TablesTypeOK
<1> QED BY <1>1, <1>2, PaysUnchanged DEF CreateTransaction, Same

\* A stored payment stays stored or becomes a gone one; it changes sale only by an
\* update that names the new one, and that ends.
LEMMA PaymentMoves ==
  ASSUME TypeOK, [Next]_vars, NEW p \in Pays, pay[p] # NoRow
  PROVE  /\ pay'[p] # NoRow
         /\ LivePay(p)' => /\ LivePay(p)
                           /\ \/ pay'[p].tx = pay[p].tx
                              \/ \E c \in Callers : /\ p \in PaymentOf(call[c])
                                                    /\ PaymentOf(call'[c]) = {}
                                                    /\ pay'[p].tx \in SalesOf(call[c])
<1>0. TablesTypeOK
  BY DEF TypeOK
<1> DEFINE Goal ==
      /\ pay'[p] # NoRow
      /\ LivePay(p)' => /\ LivePay(p)
                        /\ \/ pay'[p].tx = pay[p].tx
                           \/ \E c \in Callers : /\ p \in PaymentOf(call[c])
                                                 /\ PaymentOf(call'[c]) = {}
                                                 /\ pay'[p].tx \in SalesOf(call[c])
<1>1. ASSUME pay'[p] = pay[p] PROVE Goal
  BY <1>1 DEF LivePay
<1>2. ASSUME pay'[p] = GoneRow PROVE Goal
  BY <1>2, VacantRows DEF LivePay, NoRow, GoneRow
<1>3. ASSUME NEW c \in Callers, UpdatePayWrite(c) \/ RefundWrite(c) \/ RemovePayWrite(c),
             pay'[p] # pay[p], pay'[p] # GoneRow
      PROVE  Goal
  <2>1. /\ call[c] \in Calls /\ p = call[c].pay /\ PaymentOf(call[c]) = {p}
        /\ PaymentOf(call'[c]) = {}
        /\ LivePay(p) /\ pay[p] \in PayRows
        /\ \/ pay'[p] = RefundedPay(pay[p])
           \/ /\ call[c].step = "pay.write" /\ call[c].patch \in PayPatches
              /\ pay'[p] = PatchedPay(pay[p], call[c].patch)
    BY <1>3, OnePayChanged, IdleConcernsNothing
  <2>2. pay'[p] \in PayRows
    BY <2>1, RefundedPayType, PatchedPayType
  <2>3. pay'[p] # NoRow
    BY <2>2 DEF NoRow, PayRows, PaymentStatus
  <2>4. pay'[p].tx = pay[p].tx \/ pay'[p].tx \in SalesOf(call[c])
    BY <2>1, SaleOfWrittenPay, SalesOfCall
  <2> QED BY <2>1, <2>3, <2>4
<1>4. ASSUME NEW c \in Callers, CreateInsert(c) PROVE pay'[p] = pay[p]
  BY <1>0, <1>4 DEF CreateInsert, TablesTypeOK
<1>5. ASSUME NEW c \in Callers, RemovePays(c) PROVE pay'[p] = pay[p] \/ pay'[p] = GoneRow
  BY <1>5 DEF RemovePays, WithoutPaysOf
<1>6. ASSUME NEW c \in Callers, BeginCall(c) \/ Abort(c) PROVE pay' = pay
  BY <1>6
  DEF BeginCall, TransactionBegin, UpdateRead, CancelRead, CompleteRead, RemoveRead,
      PaymentBegin, CreateRead, UpdatePayRead, RefundRead, RemovePayRead, Abort, Fail
<1>7. ASSUME NEW c \in Callers, TransactionStep(c), ~RemovePays(c) PROVE pay' = pay
  BY <1>7
  DEF TransactionStep, UpdateClear, TxWrite, CompleteReadLines, CompleteReadPays, CompleteWrite,
      RemoveLines, RemoveRow
<1>8. CASE CreateSale \/ UNCHANGED vars
  BY <1>1, <1>8 DEF CreateSale, CreateTransaction, vars
<1> QED
  BY <1>1, <1>2, <1>3, <1>4, <1>5, <1>6, <1>7, <1>8 DEF Next, Step, PaymentStep

\* No handler finds the payment it has read on a guarded sale it is not about.
LEMMA StillKnown ==
  ASSUME TypeOK, TypeOK', Apart, PaymentsKnown, [Next]_vars
  PROVE  PaymentsKnown'
<1> SUFFICES ASSUME NEW c \in Callers, NEW k, k = call'[c], NEW p \in PaymentOf(k)
             PROVE  pay'[p] # NoRow /\ (PaymentOfGuarded(p)' => pay'[p].tx \in SalesOf(k))
  BY DEF PaymentsKnown
<1>0. k \in Calls /\ p \in Pays
  BY PaymentOfCall DEF TypeOK
<1>1. CASE BeginCall(c)
  <2>1. Validated(c)'
    BY <1>1, FirstStatement
  <2>2. k.step \in {"pay.write", "pay.refund", "pay.delete"} /\ p = k.pay
    BY DEF PaymentOf
  <2>3. LivePay(p)' /\ pay'[p].tx = k.tx
    BY <2>1, <2>2 DEF Validated, LivePay
  <2>4. k.tx \in SalesOf(k)
    BY <1>0, <2>2, SalesOfCall DEF Idle
  <2> QED BY <2>3, <2>4, VacantRows DEF LivePay
<1>2. CASE ~BeginCall(c)
  <2>1. k = call[c]
    BY <1>2, StepNarrows, BeginIsAdmitted DEF Next, CreateSale, CreateTransaction, vars
  <2>2. pay[p] # NoRow /\ (PaymentOfGuarded(p) => pay[p].tx \in SalesOf(k))
    BY <2>1 DEF PaymentsKnown
  <2>3. pay'[p] # NoRow
    BY <1>0, <2>2, PaymentMoves
  <2>4. ASSUME LivePay(p)', pay'[p].tx \in Guarded PROVE pay'[p].tx \in SalesOf(k)
    <3>1. LivePay(p)
      BY <1>0, <2>2, <2>4, PaymentMoves
    <3>2. CASE pay'[p].tx = pay[p].tx
      BY <2>2, <2>4, <3>1, <3>2 DEF PaymentOfGuarded
    <3>3. CASE \E d \in Callers : /\ p \in PaymentOf(call[d])
                                  /\ PaymentOf(call'[d]) = {}
                                  /\ pay'[p].tx \in SalesOf(call[d])
      <4> PICK d \in Callers : /\ p \in PaymentOf(call[d])
                               /\ PaymentOf(call'[d]) = {}
                               /\ pay'[p].tx \in SalesOf(call[d])
        BY <3>3
      <4>1. d # c
        OBVIOUS
      <4>2. Meet(call[d], call[c]) /\ AboutGuarded(call[d])
        BY <2>1, <2>4 DEF Meet, AboutGuarded
      <4> QED BY <4>1, <4>2 DEF Apart
    <3> QED BY <1>0, <2>2, <2>4, <3>2, <3>3, PaymentMoves
  <2> QED BY <2>3, <2>4 DEF PaymentOfGuarded, LivePay
<1> QED BY <1>1, <1>2

(***************************************************************************)
(* A till that waits for its answers needs no lock: every check of the two *)
(* services on a guarded sale still holds when the write it protects is    *)
(* sent, whatever other clients do to other sales, and whichever calls     *)
(* fail half-way.                                                          *)
(***************************************************************************)
THEOREM ChecksAreNeverStale ==
  Spec => [](Apart /\ PaymentsKnown /\ ChecksHold)
<1>1. Init => GuardedInv
  <2>1. ASSUME Init, NEW c \in Callers PROVE call[c] = Idle
    BY <2>1 DEF Init, HandlersInit
  <2>2. Init => TypeOK
    BY DEF Init, HandlersInit, TablesInit, TypeOK, TablesTypeOK, Calls
  <2>3. ~AboutGuarded(Idle)
    BY IdleConcernsNothing DEF AboutGuarded
  <2> QED
    BY <2>1, <2>2, <2>3, IdleConcernsNothing DEF GuardedInv, Apart, PaymentsKnown, ChecksHold
<1>2. GuardedInv /\ TypeOK' /\ [Next]_vars => GuardedInv'
  <2> SUFFICES ASSUME GuardedInv, TypeOK', [Next]_vars PROVE ChecksHold'
    BY StillApart, StillKnown DEF GuardedInv
  <2>0. TypeOK /\ Apart /\ PaymentsKnown /\ ChecksHold
    BY DEF GuardedInv
  <2>1. ASSUME NEW d \in Callers, call'[d] = call[d], AboutGuarded(call[d]),
               \A t \in SalesOf(call[d]) \cap Guarded : Same(t),
               \A p \in PaymentOf(call[d]) : pay'[p] = pay[p]
        PROVE  Validated(d)' /\ Achieved(d)'
    BY <2>0, <2>1, Unaffected DEF ChecksHold
  <2>2. \A d \in Callers : SalesOf(call[d]) \subseteq Txs
    BY <2>0, SalesOfCall DEF TypeOK
  <2>3. CASE CreateSale
    <3>1. call' = call /\ pay' = pay /\ \A t \in Txs : Same(t)
      BY <2>0, <2>3, CreateSaleIsLocal
    <3> QED BY <2>1, <2>2, <3>1 DEF ChecksHold
  <2>4. ASSUME NEW c \in Callers, BeginCall(c) PROVE ChecksHold'
    <3>1. /\ Validated(c)' /\ Achieved(c)'
          /\ tx' = tx /\ pay' = pay
          /\ \A d \in Callers \ {c} : call'[d] = call[d]
      BY <2>0, <2>4, FirstStatement
    <3>2. \A t \in Txs : Same(t)
      BY <3>1, PaysUnchanged DEF Same
    <3> QED BY <2>1, <2>2, <3>1, <3>2 DEF ChecksHold
  <2>5. ASSUME NEW c \in Callers, Step(c) \/ Abort(c) PROVE ChecksHold'
    <3>1. Narrower(call'[c], call[c]) /\ \A d \in Callers \ {c} : call'[d] = call[d]
      BY <2>0, <2>5, StepNarrows
    <3>2. ASSUME AboutGuarded(call'[c]) PROVE Validated(c)' /\ Achieved(c)'
      <4>1. AboutGuarded(call[c])
        BY <3>1, <3>2 DEF Narrower, AboutGuarded
      <4> QED BY <2>0, <2>5, <4>1, NextStatement DEF ChecksHold
    <3>3. ASSUME NEW d \in Callers \ {c}, AboutGuarded(call[d])
          PROVE  Validated(d)' /\ Achieved(d)'
      <4>0. call'[d] = call[d] /\ Validated(d)
        BY <2>0, <3>1, <3>3 DEF ChecksHold
      <4>1. /\ SalesOf(call[d]) \cap SalesOf(call[c]) = {}
            /\ PaymentOf(call[d]) \cap PaymentOf(call[c]) = {}
        BY <2>0, <3>3 DEF Apart, Meet
      <4>2. CASE Abort(c)
        <5>1. tx' = tx /\ pay' = pay
          BY <4>2 DEF Abort
        <5>2. \A t \in Txs : Same(t)
          BY <5>1, PaysUnchanged DEF Same
        <5> QED BY <2>1, <2>2, <3>3, <4>0, <5>1, <5>2
      <4>3. CASE Step(c)
        <5>1. \A t \in SalesOf(call[d]) \cap Guarded : Same(t)
          BY <2>0, <4>1, <4>3, StepIsLocal
        <5>2. ASSUME NEW p \in PaymentOf(call[d]) PROVE pay'[p] = pay[p]
          <6>1. call[d] \in Calls /\ p \in Pays
            BY <2>0, PaymentOfCall DEF TypeOK
          <6>2. call[d].step \in {"pay.write", "pay.refund", "pay.delete"} /\ p = call[d].pay
            BY DEF PaymentOf
          <6>3. LivePay(p) /\ pay[p].tx = call[d].tx /\ call[d].tx \in SalesOf(call[d])
            BY <4>0, <6>1, <6>2, SalesOfCall DEF Validated, Idle
          <6> QED BY <2>0, <4>1, <4>3, <6>1, <6>3, PaymentLeftAlone
        <5> QED BY <2>1, <3>3, <4>0, <5>1, <5>2
      <4> QED BY <2>5, <4>2, <4>3
    <3> QED BY <3>1, <3>2, <3>3 DEF ChecksHold
  <2>6. CASE UNCHANGED vars
    <3>1. call' = call /\ pay' = pay /\ \A t \in Txs : Same(t)
      BY <2>6, PaysUnchanged DEF vars, Same
    <3> QED BY <2>1, <2>2, <3>1 DEF ChecksHold
  <2> QED BY <2>3, <2>4, <2>5, <2>6 DEF Next
<1>3. GuardedInv => Apart /\ PaymentsKnown /\ ChecksHold
  BY DEF GuardedInv
<1> QED BY <1>1, <1>2, <1>3, TypeCorrect, PTL DEF Spec

-----------------------------------------------------------------------------
(* What a step may do to the rows of a guarded sale *)

\* A row changes by being created, edited while open, removed while open, or completed
\* while its balance is covered.
TxEdited(t) ==
  /\ LiveTx(t) /\ tx[t].status # "COMPLETED"
  /\ \/ tx'[t] = ClearedTx(tx[t])
     \/ tx'[t] = GoneRow
     \/ \E patch \in TxPatches \cup {CancelPatch} :
          /\ tx'[t] = PatchedTx(tx[t], patch)
          /\ patch.items # NoItems => tx[t].lists = 0

TxEffect(t) ==
  \/ tx'[t] = tx[t]
  \/ ~LiveTx(t) /\ \E items \in ItemInputs, adjust \in NewAdjustments : tx'[t] = NewTx(items, adjust)
  \/ TxEdited(t)
  \/ LiveTx(t) /\ tx'[t] = CompletedTx(tx[t]) /\ Balance(t) <= 0 /\ pay' = pay

LEMMA TxEffects ==
  ASSUME TypeOK, ChecksHold, [Next]_vars, NEW t \in Guarded
  PROVE  TxEffect(t)
<1> USE DEF TypeOK, TablesTypeOK
<1>0. t \in Txs
  BY StoreAssumption DEF StoreAssumption
<1>1. CASE CreateSale
  BY <1>0, <1>1, VacantRows DEF CreateSale, CreateTransaction, TxEffect, LiveTx
<1>2. ASSUME tx' = tx PROVE TxEffect(t)
  BY <1>2 DEF TxEffect
<1>3. ASSUME NEW c \in Callers, TransactionStep(c) PROVE TxEffect(t)
  <2> DEFINE k == call[c]
  <2>1. CASE k.tx # t \/ tx' = tx
    BY <1>0, <1>3, <2>1, ReadingStep
    DEF TransactionStep, Reading, UpdateClear, TxWrite, CompleteWrite, RemoveLines, RemovePays,
        RemoveRow, ClearLines, TxEffect
  <2>2. CASE k.tx = t /\ tx' # tx
    <3>1. k \in Calls /\ k # Idle
      BY <1>3
      DEF TransactionStep, UpdateClear, TxWrite, CompleteReadLines, CompleteReadPays,
          CompleteWrite, RemoveLines, RemovePays, RemoveRow, Idle
    <3>2. AboutGuarded(k)
      BY <2>2, <3>1, SalesOfCall DEF AboutGuarded
    <3>0. k \in Calls /\ Validated(c) /\ Achieved(c)
      BY <3>1, <3>2 DEF ChecksHold
    <3>3. CASE UpdateClear(c) \/ RemoveLines(c)
      BY <1>0, <3>0, <2>2, <3>3 DEF UpdateClear, RemoveLines, ClearLines, Validated, TxEffect, TxEdited
    <3>4. CASE TxWrite(c)
      BY <1>0, <3>0, <2>2, <3>4, CallTypes DEF TxWrite, Validated, Achieved, TxEffect, TxEdited
    <3>5. CASE CompleteWrite(c)
      BY <1>0, <3>0, <2>2, <3>5 DEF CompleteWrite, Validated, TxEffect
    <3>6. CASE RemovePays(c)
      BY <2>2, <3>6 DEF RemovePays
    <3>7. CASE RemoveRow(c)
      BY <1>0, <3>0, <2>2, <3>7 DEF RemoveRow, Validated, TxEffect, TxEdited
    <3>8. CASE Reading(c)
      BY <2>2, <3>8, ReadingStep
    <3> QED BY <1>3, <3>3, <3>4, <3>5, <3>6, <3>7, <3>8 DEF TransactionStep, Reading
  <2> QED BY <2>1, <2>2
<1>4. ASSUME NEW c \in Callers, BeginCall(c) \/ PaymentStep(c) \/ Abort(c) PROVE tx' = tx
  BY <1>4
  DEF BeginCall, TransactionBegin, UpdateRead, CancelRead, CompleteRead, RemoveRead,
      PaymentBegin, CreateRead, UpdatePayRead, RefundRead, RemovePayRead,
      PaymentStep, CreateInsert, UpdatePayWrite, RefundWrite, RemovePayWrite, Abort, Fail
<1> QED BY <1>1, <1>2, <1>3, <1>4 DEF Next, Step, vars

PayEffect(p) ==
  \/ pay'[p] = pay[p]
  \/ pay'[p] = GoneRow /\ \E c \in Callers : call[c].step = "tx.rmPays" /\ call[c].tx = pay[p].tx
  \/ pay'[p] = GoneRow /\ pay[p].status # "COMPLETED"
  \/ pay[p].status = "COMPLETED" /\ pay'[p] = RefundedPay(pay[p])
  \/ /\ pay[p].status \notin {"COMPLETED", "REFUNDED"}
     /\ \E patch \in PayPatches : pay'[p] = PatchedPay(pay[p], patch)

LEMMA PayEffects ==
  ASSUME TypeOK, PaymentsKnown, ChecksHold, [Next]_vars,
         NEW p \in Pays, PaymentOfGuarded(p)
  PROVE  PayEffect(p)
<1> USE DEF TypeOK, TablesTypeOK
<1>1. ASSUME pay' = pay PROVE PayEffect(p)
  BY <1>1 DEF PayEffect
<1>2. ASSUME NEW c \in Callers, PaymentStep(c) PROVE PayEffect(p)
  <2> DEFINE k == call[c]
  <2>1. CASE CreateInsert(c)
    BY <2>1, VacantRows DEF CreateInsert, PayEffect, PaymentOfGuarded, LivePay
  <2>2. CASE ~CreateInsert(c) /\ k.pay = p
    <3>1. UpdatePayWrite(c) \/ RefundWrite(c) \/ RemovePayWrite(c)
      BY <1>2, <2>2 DEF PaymentStep
    <3>2. k \in Calls /\ p \in PaymentOf(k)
      BY <2>2, <3>1, OnePayChanged
    <3>3. AboutGuarded(k)
      BY <3>2 DEF PaymentsKnown, PaymentOfGuarded, AboutGuarded
    <3>4. Validated(c)
      BY <3>3 DEF ChecksHold
    <3>5. CASE UpdatePayWrite(c)
      BY <2>2, <3>2, <3>4, <3>5, CallTypes DEF UpdatePayWrite, Validated, PayEffect
    <3>6. CASE RefundWrite(c)
      BY <2>2, <3>2, <3>4, <3>6 DEF RefundWrite, Validated, PayEffect
    <3>7. CASE RemovePayWrite(c)
      BY <2>2, <3>2, <3>4, <3>7 DEF RemovePayWrite, Validated, PayEffect
    <3> QED BY <3>1, <3>5, <3>6, <3>7
  <2>3. CASE ~CreateInsert(c) /\ k.pay # p
    <3>1. UpdatePayWrite(c) \/ RefundWrite(c) \/ RemovePayWrite(c)
      BY <1>2, <2>3 DEF PaymentStep
    <3> QED BY <2>3, <3>1, OnePayChanged DEF PayEffect
  <2> QED BY <2>1, <2>2, <2>3
<1>3. ASSUME NEW c \in Callers, RemovePays(c) PROVE PayEffect(p)
  BY <1>3 DEF RemovePays, WithoutPaysOf, PaysOf, PayEffect
<1>4. ASSUME NEW c \in Callers, BeginCall(c) \/ Abort(c) PROVE pay' = pay
  BY <1>4
  DEF BeginCall, TransactionBegin, UpdateRead, CancelRead, CompleteRead, RemoveRead,
      PaymentBegin, CreateRead, UpdatePayRead, RefundRead, RemovePayRead, Abort, Fail
<1>5. ASSUME NEW c \in Callers, TransactionStep(c), ~RemovePays(c) PROVE pay' = pay
  BY <1>5
  DEF TransactionStep, UpdateClear, TxWrite, CompleteReadLines, CompleteReadPays, CompleteWrite,
      RemoveLines, RemoveRow
<1>6. CASE CreateSale \/ UNCHANGED vars
  BY <1>1, <1>6 DEF CreateSale, CreateTransaction, vars
<1> QED BY <1>1, <1>2, <1>3, <1>4, <1>5, <1>6 DEF Next, Step

-----------------------------------------------------------------------------
(* Theorems *)

(***************************************************************************)
(* A completed guarded sale is final, for any number of sales, payments    *)
(* and requests, with faults or without, whatever happens to other sales.  *)
(***************************************************************************)
THEOREM CompletedSaleIsFinal ==
  Spec => CompletedIsFinal
<1>1. TypeOK /\ ChecksHold /\ [Next]_vars => CompletedStays
  <2> SUFFICES ASSUME TypeOK, ChecksHold, [Next]_vars,
                      NEW t \in Guarded, tx[t].status = "COMPLETED"
               PROVE  /\ tx'[t].status = "COMPLETED"
                      /\ tx'[t].lists = tx[t].lists
                      /\ tx'[t].subtotal = tx[t].subtotal
                      /\ tx'[t].adjust = tx[t].adjust
                      /\ tx[t].completedAt => tx'[t].completedAt
    BY DEF CompletedStays
  <2>1. LiveTx(t) /\ t \in Txs
    BY StoreAssumption DEF LiveTx, TransactionStatus, StoreAssumption
  <2>2. tx[t] \in TxRows
    BY <2>1, LiveTxRow DEF TypeOK
  <2>3. tx'[t] = tx[t] \/ tx'[t] = CompletedTx(tx[t])
    BY <2>1, TxEffects DEF TxEffect, TxEdited
  <2> QED BY <2>2, <2>3 DEF CompletedTx, TxRows
<1>2. TypeOK /\ ChecksHold /\ [Next]_vars => [CompletedStays]_vars
  BY <1>1
<1> QED BY <1>2, TypeCorrect, ChecksAreNeverStale, PTL DEF Spec, CompletedIsFinal

(***************************************************************************)
(* A completed payment of a guarded sale can only be refunded, or go with  *)
(* the sale.                                                               *)
(***************************************************************************)
THEOREM SettledPaymentStays ==
  Spec => SettledPaymentIsFinal
<1>1. TypeOK /\ PaymentsKnown /\ ChecksHold /\ [Next]_vars => [SettledStays]_vars
  <2> SUFFICES ASSUME TypeOK, PaymentsKnown, ChecksHold, [Next]_vars,
                      NEW p \in Pays, PaymentOfGuarded(p), pay[p].status = "COMPLETED"
               PROVE  \/ pay'[p] = pay[p]
                      \/ pay'[p] = RefundedPay(pay[p])
                      \/ /\ pay'[p] = GoneRow
                         /\ \E c \in Callers : /\ call[c].step = "tx.rmPays"
                                              /\ call[c].tx = pay[p].tx
    BY DEF SettledStays
  <2> QED BY PayEffects DEF PayEffect
<1> QED BY <1>1, TypeCorrect, ChecksAreNeverStale, PTL DEF Spec, SettledPaymentIsFinal

(***************************************************************************)
(* A refund date appears once on a payment of a guarded sale, and the      *)
(* payment is completed right then.                                        *)
(***************************************************************************)
THEOREM RefundedOnce ==
  Spec => RefundOnce
<1>1. ASSUME TypeOK, PaymentsKnown, ChecksHold, [Next]_vars,
             NEW p \in Pays, PaymentOfGuarded(p), LivePay(p)',
             pay'[p].refundedAt # pay[p].refundedAt
      PROVE  pay[p].status = "COMPLETED" /\ pay'[p].status = "REFUNDED"
  <2>1. pay[p] \in PayRows /\ pay'[p] # GoneRow
    BY <1>1, LivePayRow, VacantRows DEF PaymentOfGuarded, LivePay, TypeOK
  <2>2. \A patch : PatchedPay(pay[p], patch).refundedAt = pay[p].refundedAt
    BY <2>1 DEF PatchedPay, PayRows
  <2>3. pay[p].status = "COMPLETED" /\ pay'[p] = RefundedPay(pay[p])
    BY <1>1, <2>1, <2>2, PayEffects DEF PayEffect
  <2> QED BY <2>1, <2>3 DEF RefundedPay, PayRows
<1>2. TypeOK /\ PaymentsKnown /\ ChecksHold /\ [Next]_vars =>
        [\A p \in Pays :
           PaymentOfGuarded(p) /\ LivePay(p)' /\ pay'[p].refundedAt # pay[p].refundedAt
             => pay[p].status = "COMPLETED" /\ pay'[p].status = "REFUNDED"]_vars
  BY <1>1
<1> QED BY <1>2, TypeCorrect, ChecksAreNeverStale, PTL DEF Spec, RefundOnce

(***************************************************************************)
(* A sale never holds two item lists.  The insert that adds one follows a  *)
(* delete of the same handler, and nobody else adds one in between.        *)
(***************************************************************************)
THEOREM OneListAtMost ==
  Spec => []AtMostOneList
<1>1. Init => AtMostOneList
  BY VacantRows, StoreAssumption
  DEF Init, HandlersInit, TablesInit, AtMostOneList, LiveTx, StoreAssumption
<1>2. TypeOK /\ ChecksHold /\ AtMostOneList /\ [Next]_vars => AtMostOneList'
  <2> SUFFICES ASSUME TypeOK, ChecksHold, AtMostOneList, [Next]_vars,
                      NEW t \in Guarded, LiveTx(t)'
               PROVE  tx'[t].lists <= 1
    BY DEF AtMostOneList
  <2>1. LiveTx(t) => tx[t] \in TxRows /\ tx[t].lists <= 1
    BY LiveTxRow, StoreAssumption DEF TypeOK, AtMostOneList, StoreAssumption
  <2>2. TxEffect(t) /\ tx'[t] # GoneRow
    BY TxEffects, VacantRows DEF LiveTx
  <2>3. CASE tx'[t] = tx[t]
    BY <2>1, <2>3 DEF LiveTx
  <2>4. CASE \E items \in ItemInputs, adjust \in NewAdjustments : tx'[t] = NewTx(items, adjust)
    BY <2>4, ItemInputsType DEF NewTx
  <2>5. CASE TxEdited(t)
    <3>1. LiveTx(t)
      BY <2>5 DEF TxEdited
    <3>2. CASE tx'[t] = ClearedTx(tx[t])
      BY <2>1, <3>1, <3>2 DEF ClearedTx, TxRows
    <3>3. ASSUME NEW patch \in TxPatches \cup {CancelPatch}, tx'[t] = PatchedTx(tx[t], patch),
                 patch.items # NoItems => tx[t].lists = 0
          PROVE  tx'[t].lists <= 1
      <4>1. patch.items \in ItemInputs
        BY DEF TxPatches, CancelPatch, ItemInputs
      <4>2. tx'[t].lists = tx[t].lists + patch.items.lists
        BY <2>1, <3>1, <3>3 DEF PatchedTx, TxRows
      <4>3. CASE patch.items = NoItems
        BY <2>1, <3>1, <4>2, <4>3 DEF NoItems, TxRows
      <4>4. CASE patch.items # NoItems
        BY <3>3, <4>1, <4>2, <4>4, ItemInputsType
      <4> QED BY <4>3, <4>4
    <3> QED BY <2>2, <2>5, <3>2, <3>3 DEF TxEdited
  <2>6. CASE LiveTx(t) /\ tx'[t] = CompletedTx(tx[t])
    BY <2>1, <2>6 DEF CompletedTx, TxRows
  <2> QED BY <2>2, <2>3, <2>4, <2>5, <2>6 DEF TxEffect
<1> QED BY <1>1, <1>2, TypeCorrect, ChecksAreNeverStale, PTL DEF Spec

\* Only a guarded sale that is COMPLETED carries a completion date.
StampIsComplete == \A t \in Guarded : LiveTx(t) /\ tx[t].completedAt => tx[t].status = "COMPLETED"

LEMMA StampStaysComplete ==
  ASSUME TypeOK, ChecksHold, StampIsComplete, [Next]_vars
  PROVE  StampIsComplete'
<1> SUFFICES ASSUME NEW t \in Guarded, LiveTx(t)', tx'[t].completedAt
             PROVE  tx'[t].status = "COMPLETED"
  BY DEF StampIsComplete
<1>1. LiveTx(t) => tx[t] \in TxRows /\ (tx[t].completedAt => tx[t].status = "COMPLETED")
  BY LiveTxRow, StoreAssumption DEF TypeOK, StampIsComplete, StoreAssumption
<1>2. TxEffect(t) /\ tx'[t] # GoneRow
  BY TxEffects, VacantRows DEF LiveTx
<1>3. CASE TxEdited(t)
  <2>1. LiveTx(t) /\ ~tx[t].completedAt
    BY <1>1, <1>3 DEF TxEdited
  <2>2. tx'[t].completedAt = tx[t].completedAt
    BY <1>1, <1>2, <1>3, <2>1 DEF TxEdited, ClearedTx, PatchedTx, TxRows
  <2> QED BY <2>1, <2>2
<1>4. CASE LiveTx(t) /\ tx'[t] = CompletedTx(tx[t])
  BY <1>1, <1>4 DEF CompletedTx, TxRows
<1>5. CASE \E items \in ItemInputs, adjust \in NewAdjustments : tx'[t] = NewTx(items, adjust)
  BY <1>5 DEF NewTx
<1>6. CASE tx'[t] = tx[t]
  BY <1>1, <1>6 DEF LiveTx
<1> QED BY <1>2, <1>3, <1>4, <1>5, <1>6 DEF TxEffect

(***************************************************************************)
(* The balance is covered in the very state in which a sale is stamped.    *)
(***************************************************************************)
THEOREM StampedSaleIsCovered ==
  Spec => StampedIsCovered
<1>1. Init => StampIsComplete
  BY VacantRows, StoreAssumption
  DEF Init, HandlersInit, TablesInit, StampIsComplete, LiveTx, StoreAssumption
<1>2. TypeOK /\ ChecksHold /\ StampIsComplete /\ [Next]_vars => StampIsComplete'
  BY StampStaysComplete
<1>3. ASSUME TypeOK, ChecksHold, StampIsComplete, [Next]_vars, NEW t \in Guarded,
             tx'[t].status = "COMPLETED", tx'[t].completedAt, tx'[t] # tx[t]
      PROVE  Balance(t)' <= 0
  <2>1. LiveTx(t) => tx[t] \in TxRows /\ (tx[t].completedAt => tx[t].status = "COMPLETED")
    BY <1>3, LiveTxRow, StoreAssumption DEF TypeOK, StampIsComplete, StoreAssumption
  <2>2. TxEffect(t) /\ tx'[t] # GoneRow
    BY <1>3, TxEffects DEF GoneRow
  <2>3. ~TxEdited(t)
    <3> SUFFICES ASSUME TxEdited(t) PROVE FALSE
      OBVIOUS
    <3>1. LiveTx(t) /\ ~tx[t].completedAt
      BY <2>1 DEF TxEdited
    <3>2. tx'[t].completedAt = tx[t].completedAt
      BY <2>1, <2>2, <3>1 DEF TxEdited, ClearedTx, PatchedTx, TxRows
    <3> QED BY <1>3, <3>1, <3>2
  <2>4. ASSUME NEW items, NEW adjust, tx'[t] = NewTx(items, adjust) PROVE FALSE
    <3>1. NewTx(items, adjust).completedAt = FALSE
      BY DEF NewTx
    <3> QED BY <1>3, <2>4, <3>1
  <2>5. LiveTx(t) /\ tx'[t] = CompletedTx(tx[t]) /\ Balance(t) <= 0 /\ pay' = pay
    BY <1>3, <2>2, <2>3, <2>4 DEF TxEffect
  <2>6. tx'[t].subtotal = tx[t].subtotal /\ tx'[t].adjust = tx[t].adjust
    BY <2>1, <2>5 DEF CompletedTx, TxRows
  <2>7. Paid(t)' = Paid(t)
    <3>1. PaysOf(t)' = PaysOf(t)
      BY <2>5, PaysUnchanged
    <3>2. [p \in PaysOf(t) |-> pay[p].amount]' = [p \in PaysOf(t) |-> pay[p].amount]
      BY <2>5, <3>1
    <3> QED BY <3>2 DEF Paid
  <2> QED BY <2>5, <2>6, <2>7 DEF Balance
<1>4. TypeOK /\ ChecksHold /\ StampIsComplete /\ [Next]_vars =>
        [\A t \in Guarded :
           tx'[t].status = "COMPLETED" /\ tx'[t].completedAt /\ tx'[t] # tx[t]
             => Balance(t)' <= 0]_vars
  BY <1>3
<1> QED
  BY <1>1, <1>2, <1>4, TypeCorrect, ChecksAreNeverStale, PTL DEF Spec, StampedIsCovered

-----------------------------------------------------------------------------
(* The atomic API of the guarded sales *)

TxView == [t \in Guarded |-> SeenTx(t)]
PayView == [p \in Pays |-> SeenPay(p)]

\* AtomicSales speaks of the same rows and requests.
LEMMA SameRows ==
  /\ Atomic!NoRow = NoRow /\ Atomic!GoneRow = GoneRow /\ Atomic!ElsewhereRow = ElsewhereRow
  /\ \A items, adjust : Atomic!NewTx(items, adjust) = NewTx(items, adjust)
  /\ \A row : Atomic!ClearedTx(row) = ClearedTx(row)
  /\ \A row : Atomic!CompletedTx(row) = CompletedTx(row)
  /\ \A row, patch : Atomic!PatchedTx(row, patch) = PatchedTx(row, patch)
  /\ \A t, amount : Atomic!NewPay(t, amount) = NewPay(t, amount)
  /\ \A row, patch : Atomic!PatchedPay(row, patch) = PatchedPay(row, patch)
  /\ \A row : Atomic!RefundedPay(row) = RefundedPay(row)
BY DEF Atomic!NoRow, NoRow, Atomic!GoneRow, GoneRow, Atomic!ElsewhereRow, ElsewhereRow,
       Atomic!NewTx, NewTx,
       Atomic!ClearedTx, ClearedTx, Atomic!CompletedTx, CompletedTx,
       Atomic!PatchedTx, PatchedTx, Atomic!Patched, Patched, Atomic!NewPay, NewPay,
       Atomic!PatchedPay, PatchedPay, Atomic!RefundedPay, RefundedPay

LEMMA SameRequests ==
  /\ Atomic!ItemInputs = ItemInputs /\ Atomic!NoItems = NoItems
  /\ Atomic!NewAdjustments = NewAdjustments
  /\ Atomic!TxPatches = TxPatches /\ Atomic!CancelPatch = CancelPatch
  /\ \A patch \in PayPatches : patch.tx \in Guarded \cup {Absent} => patch \in Atomic!PayPatches
BY DEF Atomic!ItemInputs, ItemInputs, Atomic!NoItems, NoItems,
       Atomic!NewAdjustments, NewAdjustments, Atomic!TxPatches, TxPatches,
       Atomic!CancelPatch, CancelPatch, Atomic!PayPatches, PayPatches

LEMMA ElsewhereIsVacant ==
  ElsewhereRow.status \notin TransactionStatus \cup PaymentStatus
BY DEF ElsewhereRow, TransactionStatus, PaymentStatus

\* Which rows clients see.
LEMMA SeenLive ==
  /\ \A t \in Guarded : Atomic!LiveTx(t) <=> SeenTx(t).status \in TransactionStatus
  /\ \A p \in Pays : Atomic!LivePay(p) <=> SeenPay(p).status \in PaymentStatus
  /\ \A t : Atomic!PaysOf(t)
       = {p \in Pays : SeenPay(p).status \in PaymentStatus /\ SeenPay(p).tx = t}
BY DEF Atomic!LiveTx, Atomic!LivePay, Atomic!PaysOf, Atomic!TransactionStatus, TransactionStatus,
       Atomic!PaymentStatus, PaymentStatus

\* One row of a view changes, or none.
LEMMA OneTxSeen ==
  ASSUME NEW t \in Guarded, NEW row, SeenTx(t)' = row,
         \A s \in Guarded \ {t} : SeenTx(s)' = SeenTx(s)
  PROVE  TxView' = [TxView EXCEPT ![t] = row]
BY DEF TxView

LEMMA OnePaySeen ==
  ASSUME NEW q \in Pays, NEW row, SeenPay(q)' = row, \A p \in Pays \ {q} : SeenPay(p)' = SeenPay(p)
  PROVE  PayView' = [PayView EXCEPT ![q] = row]
BY DEF PayView

LEMMA NoTxSeen ==
  ASSUME \A s \in Guarded : SeenTx(s)' = SeenTx(s)
  PROVE  TxView' = TxView
BY DEF TxView

LEMMA NoPaySeen ==
  ASSUME \A p \in Pays : SeenPay(p)' = SeenPay(p)
  PROVE  PayView' = PayView
BY DEF PayView

\* Nobody but c runs ahead on t.
Only(c, t) == Removing(t) \subseteq {c} /\ PendingLists(t) \subseteq {c}

LEMMA OnlyOne ==
  ASSUME TypeOK, Apart, NEW c \in Callers, NEW t \in SalesOf(call[c]) \cap Guarded
  PROVE  Only(c, t)
<1>1. ASSUME NEW d \in Callers, call[d] # Idle, call[d].tx = t
      PROVE  d = c
  <2>1. t \in SalesOf(call[d])
    BY <1>1, SalesOfCall DEF TypeOK
  <2> QED BY <2>1 DEF Apart, Meet, AboutGuarded
<1> QED BY <1>1 DEF Only, Removing, PendingLists, Idle

LEMMA OnlyStays ==
  ASSUME NEW c \in Callers, NEW t, Only(c, t), \A d \in Callers \ {c} : call'[d] = call[d]
  PROVE  Only(c, t)'
<1>1. \A d \in Callers \ {c} : d \notin Removing(t)' /\ d \notin PendingLists(t)'
  BY DEF Only, Removing, PendingLists
<1>2. Removing(t)' \subseteq Callers /\ PendingLists(t)' \subseteq Callers
  BY DEF Removing, PendingLists
<1> QED BY <1>1, <1>2 DEF Only

LEMMA SeenAlone ==
  ASSUME NEW c, NEW t, Only(c, t)
  PROVE  /\ c \in Removing(t) => SeenTx(t) = GoneRow
         /\ c \notin Removing(t) => Removing(t) = {}
         /\ c \notin Removing(t) /\ c \in PendingLists(t)
              => SeenTx(t) = PatchedTx(tx[t], call[c].patch)
         /\ c \notin Removing(t) /\ c \notin PendingLists(t) => SeenTx(t) = tx[t]
<1>1. c \in PendingLists(t) => (CHOOSE d \in PendingLists(t) : TRUE) = c
  BY DEF Only
<1> QED BY <1>1 DEF Only, SeenTx

LEMMA SeenAloneNext ==
  ASSUME NEW c, NEW t, Only(c, t)'
  PROVE  /\ c \in Removing(t)' => SeenTx(t)' = GoneRow
         /\ c \notin Removing(t)' => Removing(t)' = {}
         /\ c \notin Removing(t)' /\ c \in PendingLists(t)'
              => SeenTx(t)' = PatchedTx(tx'[t], call'[c].patch)
         /\ c \notin Removing(t)' /\ c \notin PendingLists(t)' => SeenTx(t)' = tx'[t]
<1>1. c \in PendingLists(t)' => (CHOOSE d \in PendingLists(t)' : TRUE) = c
  BY DEF Only
<1> QED BY <1>1 DEF Only, SeenTx

\* What c does not run ahead on is seen as before.
LEMMA SeenElsewhere ==
  ASSUME NEW c \in Callers, \A d \in Callers \ {c} : call'[d] = call[d],
         NEW s \in Txs, tx'[s] = tx[s],
         c \notin Removing(s), c \notin Removing(s)',
         c \notin PendingLists(s), c \notin PendingLists(s)'
  PROVE  SeenTx(s)' = SeenTx(s) /\ Removing(s)' = Removing(s)
<1>1. Removing(s)' = Removing(s)
  BY DEF Removing
<1>2. PendingLists(s)' = PendingLists(s)
  BY DEF PendingLists
<1>3. PendingLists(s) # {} =>
        call'[CHOOSE d \in PendingLists(s) : TRUE] = call[CHOOSE d \in PendingLists(s) : TRUE]
  <2>1. PendingLists(s) # {} => (CHOOSE d \in PendingLists(s) : TRUE) \in PendingLists(s)
    OBVIOUS
  <2>2. PendingLists(s) \subseteq Callers \ {c}
    BY DEF PendingLists
  <2> QED BY <2>1, <2>2
<1> QED BY <1>1, <1>2, <1>3 DEF SeenTx

LEMMA SeenPayElsewhere ==
  ASSUME NEW p, pay'[p] = pay[p], NEW s, LivePay(p) => pay[p].tx = s,
         LivePay(p) /\ s \in Guarded => (Removing(s)' = {} <=> Removing(s) = {})
  PROVE  SeenPay(p)' = SeenPay(p)
<1>1. LivePay(p)' <=> LivePay(p)
  BY DEF LivePay
<1> QED BY <1>1 DEF SeenPay

\* An update that clears line items has new ones to store.
ClearsReplace == \A c \in Callers : call[c].step = "tx.clear" =>
  call[c].patch \in TxPatches /\ call[c].patch.items # NoItems

LEMMA ClearsStay ==
  ASSUME TypeOK, ClearsReplace, [Next]_vars
  PROVE  ClearsReplace'
<1>1. ASSUME NEW c \in Callers, NEW k, Begin(c, k), k.step # "tx.clear"
      PROVE  ClearsReplace'
  BY <1>1 DEF Begin, Start, TypeOK, ClearsReplace
<1>2. ASSUME NEW c \in Callers, End(c) \/ \E s \in {"tx.write", "tx.rmPays", "tx.rmRow"} : Goto(c, s),
             call[c] # Idle
      PROVE  ClearsReplace'
  <2>1. call'[c].step # "tx.clear" /\ \A d \in Callers \ {c} : call'[d] = call[d]
    BY <1>2 DEF End, Goto, TypeOK, Idle, Calls
  <2> QED BY <2>1 DEF ClearsReplace
<1>3. ASSUME NEW c \in Callers, NEW t \in Txs, NEW patch \in TxPatches, UpdateRead(c, t, patch)
      PROVE  ClearsReplace'
  <2> DEFINE k == [step |-> IF patch.items = NoItems THEN "tx.write" ELSE "tx.clear",
                   tx |-> t, patch |-> patch]
  <2>1. k.patch = patch /\ (k.step = "tx.clear" => patch.items # NoItems)
    OBVIOUS
  <2>2. call'[c] = k /\ \A d \in Callers \ {c} : call'[d] = call[d]
    BY <1>3 DEF UpdateRead, Begin, Start, TypeOK
  <2> QED BY <2>1, <2>2 DEF ClearsReplace
<1>4. ASSUME NEW c \in Callers, BeginCall(c) PROVE ClearsReplace'
  BY <1>1, <1>3, <1>4
  DEF BeginCall, TransactionBegin, CancelRead, CompleteRead, RemoveRead,
      PaymentBegin, CreateRead, UpdatePayRead, RefundRead, RemovePayRead
<1>7. ASSUME NEW c \in Callers, Reading(c) PROVE ClearsReplace'
  BY <1>7, ReadingStep DEF ClearsReplace, Idle
<1>5. ASSUME NEW c \in Callers, Step(c) \/ Abort(c) PROVE ClearsReplace'
  BY <1>2, <1>5, <1>7
  DEF Reading, Step, Abort, Fail, TransactionStep, UpdateClear, TxWrite, CompleteWrite, RemoveLines,
      RemovePays, RemoveRow, PaymentStep, CreateInsert, UpdatePayWrite, RefundWrite,
      RemovePayWrite, Idle
<1>6. CASE CreateSale \/ UNCHANGED vars
  BY <1>6 DEF CreateSale, CreateTransaction, vars, ClearsReplace
<1> QED BY <1>4, <1>5, <1>6 DEF Next

-----------------------------------------------------------------------------
(* Every statement is a step of the atomic API or invisible *)

View == <<TxView, PayView>>

\* Steps after which nobody runs further ahead than before: what is seen changes as what is stored.
LEMMA PlainStep ==
  ASSUME TypeOK, NEW c \in Callers, \A d \in Callers \ {c} : call'[d] = call[d],
         call[c].step \notin {"tx.write", "tx.rmPays", "tx.rmRow"},
         \/ call'[c].step \notin {"tx.write", "tx.rmPays", "tx.rmRow"}
         \/ call'[c].step = "tx.write" /\ call'[c].patch.items = NoItems,
         tx' = tx
  PROVE  /\ \A s \in Txs : SeenTx(s)' = SeenTx(s) /\ Removing(s)' = Removing(s)
         /\ \A p \in Pays : pay'[p] = pay[p] => SeenPay(p)' = SeenPay(p)
<1>1. ASSUME NEW s \in Txs PROVE SeenTx(s)' = SeenTx(s) /\ Removing(s)' = Removing(s)
  <2>1. c \notin Removing(s) /\ c \notin PendingLists(s)
    BY DEF Removing, PendingLists
  <2>2. c \notin Removing(s)' /\ c \notin PendingLists(s)'
    BY DEF Removing, PendingLists
  <2> QED BY <2>1, <2>2, SeenElsewhere
<1>2. ASSUME NEW p \in Pays, pay'[p] = pay[p] PROVE SeenPay(p)' = SeenPay(p)
  <2>1. PICK s : s = pay[p].tx
    OBVIOUS
  <2>2. LivePay(p) => s \in Txs
    BY <2>1, LivePayRow DEF TypeOK, PayRows
  <2> QED BY <1>1, <1>2, <2>1, <2>2, SeenPayElsewhere
<1> QED BY <1>1, <1>2

LEMMA BeginIsInvisible ==
  ASSUME TypeOK, NEW c \in Callers, BeginCall(c)
  PROVE  UNCHANGED View
<1>1. ASSUME NEW k, Begin(c, k)
      PROVE  call[c].step = "idle" /\ call'[c] = k /\ \A d \in Callers \ {c} : call'[d] = call[d]
  BY <1>1 DEF Begin, Start, TypeOK, Idle
<1>2. tx' = tx /\ pay' = pay
  BY FirstStatement
<1>3. ASSUME NEW k, Begin(c, k), \/ k.step \notin {"tx.write", "tx.rmPays", "tx.rmRow"}
                                 \/ k.step = "tx.write" /\ k.patch.items = NoItems
      PROVE  UNCHANGED View
  <2>1. /\ \A s \in Txs : SeenTx(s)' = SeenTx(s)
        /\ \A p \in Pays : SeenPay(p)' = SeenPay(p)
    BY <1>1, <1>2, <1>3, PlainStep
  <2> QED BY <2>1, StoreAssumption, NoTxSeen, NoPaySeen DEF View, StoreAssumption
<1>4. ASSUME NEW t \in Txs, NEW patch \in TxPatches, UpdateRead(c, t, patch) PROVE UNCHANGED View
  BY <1>3, <1>4 DEF UpdateRead
<1>5. ASSUME NEW t \in Txs, CancelRead(c, t) PROVE UNCHANGED View
  BY <1>3, <1>5 DEF CancelRead, CancelPatch
<1> QED BY <1>3, <1>4, <1>5
  DEF BeginCall, TransactionBegin, CompleteRead, RemoveRead,
      PaymentBegin, CreateRead, UpdatePayRead, RefundRead, RemovePayRead

LEMMA CreateSaleIsAtomic ==
  ASSUME GuardedInv, CreateSale
  PROVE  Atomic!AtomicNext \/ UNCHANGED View
<1> PICK t \in Txs, items \in ItemInputs, adjust \in NewAdjustments :
      CreateTransaction(t, items, adjust)
  BY DEF CreateSale
<1>0. /\ tx[t] = NoRow /\ tx'[t] = NewTx(items, adjust) /\ pay' = pay /\ call' = call
      /\ \A s \in Txs \ {t} : tx'[s] = tx[s]
  BY DEF CreateTransaction, GuardedInv, TypeOK, TablesTypeOK
<1>1. ASSUME t \in Guarded PROVE Removing(t) = {} /\ PendingLists(t) = {}
  <2>1. ASSUME NEW c \in Callers, call[c].tx = t, call[c] # Idle PROVE Validated(c)
    <3>1. AboutGuarded(call[c])
      BY <1>1, <2>1, SalesOfCall DEF GuardedInv, TypeOK, AboutGuarded
    <3> QED BY <3>1 DEF GuardedInv, ChecksHold
  <2>2. ~LiveTx(t)
    BY <1>0, VacantRows DEF LiveTx
  <2> QED BY <2>1, <2>2 DEF Validated, Removing, PendingLists, Idle
<1>2. \A s : Removing(s)' = Removing(s) /\ PendingLists(s)' = PendingLists(s)
  BY <1>0 DEF Removing, PendingLists
<1>3. ASSUME NEW s \in Guarded \ {t} PROVE SeenTx(s)' = SeenTx(s)
  <2>1. Removing(s)' = Removing(s) /\ PendingLists(s)' = PendingLists(s) /\ tx'[s] = tx[s]
    BY <1>0, <1>2, StoreAssumption DEF StoreAssumption
  <2> QED BY <1>0, <2>1 DEF SeenTx
<1>4. \A p \in Pays : SeenPay(p)' = SeenPay(p)
  BY <1>0, <1>2 DEF SeenPay, LivePay
<1>5. CASE t \notin Guarded
  BY <1>3, <1>4, <1>5, NoTxSeen, NoPaySeen DEF View
<1>6. CASE t \in Guarded
  <2>1. SeenTx(t) = NoRow /\ SeenTx(t)' = NewTx(items, adjust)
    BY <1>0, <1>1, <1>2, <1>6 DEF SeenTx
  <2>2. TxView' = [TxView EXCEPT ![t] = NewTx(items, adjust)] /\ PayView' = PayView
    BY <1>3, <1>4, <1>6, <2>1, OneTxSeen, NoPaySeen
  <2>3. Atomic!CreateTransaction(t, items, adjust)
    BY <1>6, <2>1, <2>2, SameRows DEF Atomic!CreateTransaction, TxView, PayView
  <2> QED BY <1>6, <2>3, SameRequests DEF Atomic!AtomicNext
<1> QED BY <1>5, <1>6

LEMMA GotoKeepsSale ==
  ASSUME NEW k \in Calls, k.step # "idle", NEW s
  PROVE  [k EXCEPT !.step = s].tx = k.tx
BY DEF Calls, Idle

\* A statement of TransactionsService about a sale: what is seen of other sales stays.
LEMMA SaleStepElsewhere ==
  ASSUME TypeOK, NEW c \in Callers, TransactionStep(c)
  PROVE  /\ call[c] \in Calls /\ call[c].tx \in Txs /\ SalesOf(call[c]) = {call[c].tx}
         /\ \A d \in Callers \ {c} : call'[d] = call[d]
         /\ \A s \in Txs \ {call[c].tx} :
              tx'[s] = tx[s] /\ SeenTx(s)' = SeenTx(s) /\ Removing(s)' = Removing(s)
<1> DEFINE k == call[c]
<1>0. k \in Calls
  BY DEF TypeOK
<1>1. k.step \in {"tx.clear", "tx.write", "tx.readLines", "tx.readPays", "tx.complete",
                "tx.rmLines", "tx.rmPays", "tx.rmRow"}
  BY DEF TransactionStep, UpdateClear, TxWrite, CompleteReadLines, CompleteReadPays,
         CompleteWrite, RemoveLines, RemovePays, RemoveRow
<1>2. k.tx \in Txs /\ SalesOf(k) = {k.tx}
  BY <1>0, <1>1, CallTypes, SalesOfCall
<1>3. \A d \in Callers \ {c} : call'[d] = call[d]
  BY ReadingStep
  DEF TypeOK, TransactionStep, Reading, UpdateClear, TxWrite, CompleteWrite, RemoveLines,
      RemovePays, RemoveRow, End, Goto
<1>4. ~Reading(c) => call'[c] = Idle \/ \E s : call'[c] = [k EXCEPT !.step = s]
  BY DEF TypeOK, TransactionStep, Reading, UpdateClear, TxWrite, CompleteWrite, RemoveLines,
      RemovePays, RemoveRow, End, Goto
<1>5. call'[c] = Idle \/ call'[c].tx = k.tx
  BY <1>0, <1>1, <1>4, GotoKeepsSale, ReadingStep
<1>6. \A s \in Txs \ {k.tx} : tx'[s] = tx[s]
  BY <1>2, ReadingStep
  DEF TypeOK, TablesTypeOK, TransactionStep, Reading, UpdateClear, TxWrite, CompleteWrite,
      RemoveLines, RemovePays, RemoveRow, ClearLines
<1>7. ASSUME NEW s \in Txs \ {k.tx}
      PROVE  SeenTx(s)' = SeenTx(s) /\ Removing(s)' = Removing(s)
  <2>1. c \notin Removing(s) /\ c \notin PendingLists(s)
    BY DEF Removing, PendingLists
  <2>2. c \notin Removing(s)' /\ c \notin PendingLists(s)'
    BY <1>5 DEF Removing, PendingLists, Idle
  <2> QED BY <1>3, <1>6, <2>1, <2>2, SeenElsewhere
<1> QED BY <1>0, <1>2, <1>3, <1>6, <1>7

\* On a guarded sale its handler is alone and has checked what it needs.
LEMMA SaleStep ==
  ASSUME GuardedInv, NEW c \in Callers, TransactionStep(c), call[c].tx \in Guarded
  PROVE  Only(c, call[c].tx) /\ Validated(c) /\ Achieved(c)
<1>1. SalesOf(call[c]) = {call[c].tx} /\ AboutGuarded(call[c])
  BY SaleStepElsewhere DEF GuardedInv, AboutGuarded
<1> QED BY <1>1, OnlyOne DEF GuardedInv, ChecksHold

\* Payments a statement of TransactionsService does not touch.
LEMMA SaleStepPays ==
  ASSUME TypeOK, NEW c \in Callers, TransactionStep(c), NEW t, t = call[c].tx,
         NEW p \in Pays, pay'[p] = pay[p],
         t \in Guarded /\ LivePay(p) /\ pay[p].tx = t => (Removing(t)' = {} <=> Removing(t) = {})
  PROVE  SeenPay(p)' = SeenPay(p)
<1>1. PICK s : s = pay[p].tx
  OBVIOUS
<1>2. LivePay(p) => s \in Txs
  BY <1>1, LivePayRow DEF TypeOK, PayRows
<1>3. LivePay(p) /\ s \in Guarded => (Removing(s)' = {} <=> Removing(s) = {})
  BY <1>1, <1>2, SaleStepElsewhere
<1> QED BY <1>1, <1>3, SeenPayElsewhere

\* An update with line items takes effect when it clears the stored ones.
LEMMA ClearIsAtomic ==
  ASSUME GuardedInv, ClearsReplace, NEW c \in Callers, UpdateClear(c),
         call[c].tx \in Guarded
  PROVE  Atomic!AtomicNext
<1>0. TransactionStep(c) /\ call[c] \in Calls /\ call[c].step = "tx.clear" /\ TypeOK
  BY DEF TransactionStep, UpdateClear, GuardedInv, TypeOK
<1> PICK t \in Guarded, patch \in TxPatches : t = call[c].tx /\ patch = call[c].patch
  BY <1>0, CallTypes DEF ClearsReplace
<1>1. LiveTx(t) /\ tx[t].status # "COMPLETED" /\ patch.items # NoItems
  BY <1>0, SaleStep DEF Validated, ClearsReplace
<1>2. tx'[t] = ClearedTx(tx[t]) /\ pay' = pay
  BY <1>1, StoreAssumption
  DEF UpdateClear, ClearLines, GuardedInv, TypeOK, TablesTypeOK, StoreAssumption
<1>3. call'[c].step = "tx.write" /\ call'[c].tx = t /\ call'[c].patch = patch
  <2>1. call'[c] = [call[c] EXCEPT !.step = "tx.write"]
    BY <1>0 DEF UpdateClear, Goto, TypeOK
  <2> QED BY <1>0, <2>1 DEF Calls, Idle
<1>4. Only(c, t) /\ Only(c, t)'
  BY <1>0, SaleStep, SaleStepElsewhere, OnlyStays
<1>5. c \notin Removing(t) /\ c \notin PendingLists(t)
  BY <1>0 DEF Removing, PendingLists
<1>6. c \notin Removing(t)' /\ c \in PendingLists(t)'
  BY <1>1, <1>3 DEF Removing, PendingLists
<1>7. SeenTx(t) = tx[t] /\ SeenTx(t)' = PatchedTx(ClearedTx(tx[t]), patch)
  BY <1>2, <1>3, <1>4, <1>5, <1>6, SeenAlone, SeenAloneNext
<1>8. Removing(t) = {} /\ Removing(t)' = {}
  BY <1>4, <1>5, <1>6, SeenAlone, SeenAloneNext
<1>9. \A p \in Pays : SeenPay(p)' = SeenPay(p)
  BY <1>0, <1>2, <1>8, SaleStepPays
<1>10. TxView' = [TxView EXCEPT ![t] = PatchedTx(ClearedTx(tx[t]), patch)] /\ PayView' = PayView
  BY <1>0, <1>7, <1>9, SaleStepElsewhere, StoreAssumption, OneTxSeen, NoPaySeen DEF StoreAssumption
<1>11. Atomic!ReplacedTx(tx[t], patch) = PatchedTx(ClearedTx(tx[t]), patch)
  BY <1>1, SameRows, SameRequests DEF Atomic!ReplacedTx
<1>12. Atomic!LiveTx(t) /\ SeenTx(t).status # "COMPLETED"
  BY <1>1, <1>7, SeenLive DEF LiveTx
<1>13. Atomic!UpdateTransaction(t, patch)
  BY <1>7, <1>10, <1>11, <1>12 DEF Atomic!UpdateTransaction, TxView, PayView
<1> QED BY <1>13, SameRequests DEF Atomic!AtomicNext

\* An update that has cleared the line items is seen already, one without is seen now.
LEMMA WriteIsAtomic ==
  ASSUME GuardedInv, NEW c \in Callers, TxWrite(c),
         call[c].tx \in Guarded
  PROVE  Atomic!AtomicNext \/ UNCHANGED View
<1>0. TransactionStep(c) /\ call[c] \in Calls /\ call[c].step = "tx.write" /\ TypeOK
  BY DEF TransactionStep, TxWrite, GuardedInv, TypeOK
<1> PICK t \in Guarded, patch \in TxPatches \cup {CancelPatch} : t = call[c].tx /\ patch = call[c].patch
  BY <1>0, CallTypes
<1>1. LiveTx(t) /\ tx[t].status # "COMPLETED"
  BY <1>0, SaleStep DEF Validated
<1>2. tx'[t] = PatchedTx(tx[t], patch) /\ pay' = pay /\ call'[c] = Idle
  BY <1>1, StoreAssumption DEF TxWrite, End, GuardedInv, TypeOK, TablesTypeOK, StoreAssumption
<1>3. Only(c, t) /\ Only(c, t)'
  BY <1>0, SaleStep, SaleStepElsewhere, OnlyStays
<1>4. c \notin Removing(t) /\ c \notin Removing(t)' /\ c \notin PendingLists(t)'
  BY <1>0, <1>2 DEF Removing, PendingLists, Idle
<1>5. SeenTx(t)' = PatchedTx(tx[t], patch) /\ Removing(t) = {} /\ Removing(t)' = {}
  BY <1>2, <1>3, <1>4, SeenAlone, SeenAloneNext
<1>6. \A p \in Pays : SeenPay(p)' = SeenPay(p)
  BY <1>0, <1>2, <1>5, SaleStepPays
<1>7. PayView' = PayView
  BY <1>6, NoPaySeen
<1>8. CASE patch.items # NoItems
  <2>1. c \in PendingLists(t)
    BY <1>0, <1>8 DEF PendingLists
  <2>2. SeenTx(t)' = SeenTx(t)
    BY <1>3, <1>4, <1>5, <2>1, SeenAlone
  <2>3. TxView' = TxView
    BY <1>0, <2>2, SaleStepElsewhere, StoreAssumption, NoTxSeen DEF StoreAssumption
  <2> QED BY <1>7, <2>3 DEF View
<1>9. CASE patch.items = NoItems
  <2>1. c \notin PendingLists(t)
    BY <1>9 DEF PendingLists
  <2>2. SeenTx(t) = tx[t]
    BY <1>3, <1>4, <2>1, SeenAlone
  <2>3. TxView' = [TxView EXCEPT ![t] = PatchedTx(tx[t], patch)]
    BY <1>0, <1>5, SaleStepElsewhere, StoreAssumption, OneTxSeen DEF StoreAssumption
  <2>4. Atomic!ReplacedTx(tx[t], patch) = PatchedTx(tx[t], patch)
    BY <1>9, SameRows, SameRequests DEF Atomic!ReplacedTx
  <2>5. Atomic!LiveTx(t) /\ SeenTx(t).status # "COMPLETED"
    BY <1>1, <2>2, SeenLive DEF LiveTx
  <2>6. Atomic!UpdateTransaction(t, patch)
    BY <1>7, <2>2, <2>3, <2>4, <2>5 DEF Atomic!UpdateTransaction, TxView, PayView
  <2>7. patch \in Atomic!TxPatches \/ patch = Atomic!CancelPatch
    BY SameRequests
  <2> QED BY <2>6, <2>7 DEF Atomic!AtomicNext, Atomic!CancelTransaction
<1> QED BY <1>8, <1>9

LEMMA SameSum ==
  ASSUME NEW f
  PROVE  Atomic!SumFunction(f) = SumFunction(f)
BY DEF Atomic!SumFunction, SumFunction, Atomic!SumFunctionOnSet, SumFunctionOnSet,
       Atomic!FoldFunctionOnSet, FoldFunctionOnSet, Atomic!MapThenFoldSet, MapThenFoldSet

\* What is owed on a sale nobody removes is what clients see is owed.
LEMMA SeenBalance ==
  ASSUME TablesTypeOK, NEW t \in Guarded, SeenTx(t) = tx[t], Removing(t) = {}
  PROVE  Atomic!Balance(t) = Balance(t)
<1>1. ASSUME NEW p \in PaysOf(t) PROVE SeenPay(p) = pay[p]
  BY DEF PaysOf, SeenPay
<1>2. ASSUME NEW p \in Pays, SeenPay(p).status \in PaymentStatus PROVE SeenPay(p) = pay[p]
  BY <1>2, VacantRows, ElsewhereIsVacant DEF SeenPay
<1>3. Atomic!PaysOf(t) = PaysOf(t)
  BY <1>1, <1>2, SeenLive DEF PaysOf, LivePay
<1>4. [p \in PaysOf(t) |-> PayView[p].amount] = [p \in PaysOf(t) |-> pay[p].amount]
  BY <1>1 DEF PayView, PaysOf
<1>5. Atomic!Paid(t) = Paid(t)
  BY <1>3, <1>4, SameSum DEF Atomic!Paid, Paid, PayView
<1> QED BY <1>5 DEF Atomic!Balance, Balance

LEMMA CompleteIsAtomic ==
  ASSUME GuardedInv, NEW c \in Callers, CompleteWrite(c),
         call[c].tx \in Guarded
  PROVE  Atomic!AtomicNext
<1>0. TransactionStep(c) /\ call[c] \in Calls /\ call[c].step = "tx.complete" /\ TypeOK
  BY DEF TransactionStep, CompleteWrite, GuardedInv, TypeOK
<1> PICK t \in Guarded : t = call[c].tx
  BY <1>0, CallTypes
<1>1. LiveTx(t) /\ Balance(t) <= 0
  BY <1>0, SaleStep DEF Validated
<1>2. tx'[t] = CompletedTx(tx[t]) /\ pay' = pay /\ call'[c] = Idle
  BY <1>1, StoreAssumption
  DEF CompleteWrite, End, GuardedInv, TypeOK, TablesTypeOK, StoreAssumption
<1>3. Only(c, t) /\ Only(c, t)'
  BY <1>0, SaleStep, SaleStepElsewhere, OnlyStays
<1>4. /\ c \notin Removing(t) /\ c \notin PendingLists(t)
      /\ c \notin Removing(t)' /\ c \notin PendingLists(t)'
  BY <1>0, <1>2 DEF Removing, PendingLists, Idle
<1>5. /\ SeenTx(t) = tx[t] /\ SeenTx(t)' = CompletedTx(tx[t])
      /\ Removing(t) = {} /\ Removing(t)' = {}
  BY <1>2, <1>3, <1>4, SeenAlone, SeenAloneNext
<1>6. \A p \in Pays : SeenPay(p)' = SeenPay(p)
  BY <1>0, <1>2, <1>5, SaleStepPays
<1>7. TxView' = [TxView EXCEPT ![t] = CompletedTx(tx[t])] /\ PayView' = PayView
  BY <1>0, <1>5, <1>6, SaleStepElsewhere, StoreAssumption, OneTxSeen, NoPaySeen DEF StoreAssumption
<1>8. Atomic!LiveTx(t) /\ Atomic!Balance(t) <= 0
  BY <1>0, <1>1, <1>5, SeenLive, SeenBalance DEF LiveTx, TypeOK
<1>9. Atomic!CompleteTransaction(t)
  BY <1>5, <1>7, <1>8, SameRows DEF Atomic!CompleteTransaction, TxView, PayView
<1> QED BY <1>9 DEF Atomic!AtomicNext

\* A removal takes effect when it clears the line items: the payments go with the sale.
LEMMA RemoveIsAtomic ==
  ASSUME GuardedInv, NEW c \in Callers, RemoveLines(c),
         call[c].tx \in Guarded
  PROVE  Atomic!AtomicNext
<1>0. TransactionStep(c) /\ call[c] \in Calls /\ call[c].step = "tx.rmLines" /\ TypeOK
  BY DEF TransactionStep, RemoveLines, GuardedInv, TypeOK
<1> PICK t \in Guarded : t = call[c].tx
  BY <1>0, CallTypes
<1>1. LiveTx(t) /\ tx[t].status # "COMPLETED" /\ pay' = pay
  BY <1>0, SaleStep DEF Validated, RemoveLines
<1>2. call'[c].step = "tx.rmPays" /\ call'[c].tx = t
  <2>1. call'[c] = [call[c] EXCEPT !.step = "tx.rmPays"]
    BY <1>0 DEF RemoveLines, Goto, TypeOK
  <2> QED BY <1>0, <2>1 DEF Calls, Idle
<1>3. Only(c, t) /\ Only(c, t)'
  BY <1>0, SaleStep, SaleStepElsewhere, OnlyStays
<1>4. c \notin Removing(t) /\ c \notin PendingLists(t) /\ c \in Removing(t)'
  BY <1>0, <1>2 DEF Removing, PendingLists
<1>5. SeenTx(t) = tx[t] /\ SeenTx(t)' = GoneRow /\ Removing(t) = {}
  BY <1>3, <1>4, SeenAlone, SeenAloneNext
<1>6. ASSUME NEW p \in Pays
      PROVE  SeenPay(p)' = IF p \in Atomic!PaysOf(t) THEN GoneRow ELSE SeenPay(p)
  <2>1. CASE p \in PaysOf(t)
    <3>1. LivePay(p) /\ pay[p].tx = t /\ pay'[p] = pay[p]
      BY <1>1, <2>1 DEF PaysOf
    <3>2. SeenPay(p) = pay[p] /\ SeenPay(p)' = GoneRow
      BY <1>4, <1>5, <3>1 DEF SeenPay, LivePay
    <3> QED BY <3>1, <3>2, SeenLive DEF LivePay
  <2>2. CASE p \notin PaysOf(t)
    <3>1. SeenPay(p)' = SeenPay(p)
      BY <1>0, <1>1, <2>2, SaleStepPays DEF PaysOf
    <3>2. p \notin Atomic!PaysOf(t)
      BY <2>2, SeenLive, VacantRows, ElsewhereIsVacant DEF PaysOf, SeenPay, LivePay
    <3> QED BY <3>1, <3>2
  <2> QED BY <2>1, <2>2
<1>7. TxView' = [TxView EXCEPT ![t] = GoneRow]
  BY <1>0, <1>5, SaleStepElsewhere, StoreAssumption, OneTxSeen DEF StoreAssumption
<1>8. PayView' = Atomic!WithoutPaysOf(t)
  BY <1>6, SameRows DEF PayView, Atomic!WithoutPaysOf
<1>9. Atomic!LiveTx(t) /\ SeenTx(t).status # "COMPLETED"
  BY <1>1, <1>5, SeenLive DEF LiveTx
<1>10. Atomic!RemoveTransaction(t)
  BY <1>7, <1>8, <1>9, SameRows DEF Atomic!RemoveTransaction, TxView, PayView
<1> QED BY <1>10 DEF Atomic!AtomicNext

\* The rest of a removal is invisible: what it deletes is not seen any more.
LEMMA RemovalIsInvisible ==
  ASSUME GuardedInv, NEW c \in Callers, RemovePays(c) \/ RemoveRow(c),
         call[c].tx \in Guarded
  PROVE  UNCHANGED View
<1>0. /\ TransactionStep(c) /\ call[c] \in Calls /\ TypeOK
      /\ call[c].step \in {"tx.rmPays", "tx.rmRow"}
  BY DEF TransactionStep, RemovePays, RemoveRow, GuardedInv, TypeOK
<1> PICK t \in Guarded : t = call[c].tx
  BY <1>0, CallTypes
<1>1. Only(c, t) /\ Only(c, t)'
  BY <1>0, SaleStep, SaleStepElsewhere, OnlyStays
<1>2. c \in Removing(t)
  BY <1>0 DEF Removing
<1>3. SeenTx(t) = GoneRow
  BY <1>1, <1>2, SeenAlone
<1>4. CASE RemovePays(c)
  <2>1. call'[c].step = "tx.rmRow" /\ call'[c].tx = t
    <3>1. call'[c] = [call[c] EXCEPT !.step = "tx.rmRow"]
      BY <1>0, <1>4 DEF RemovePays, Goto, TypeOK
    <3> QED BY <1>0, <3>1 DEF Calls, Idle
  <2>2. c \in Removing(t)'
    BY <2>1 DEF Removing
  <2>3. SeenTx(t)' = GoneRow
    BY <1>1, <2>2, SeenAloneNext
  <2>4. pay' = WithoutPaysOf(t)
    BY <1>4 DEF RemovePays
  <2>5. ASSUME NEW p \in Pays PROVE SeenPay(p)' = SeenPay(p)
    <3>1. CASE p \in PaysOf(t)
      <4>1. pay'[p] = GoneRow
        BY <2>4, <3>1 DEF WithoutPaysOf
      <4>2. SeenPay(p)' = GoneRow
        BY <4>1, VacantRows DEF SeenPay, LivePay
      <4>3. SeenPay(p) = GoneRow
        BY <1>2, <3>1 DEF SeenPay, PaysOf
      <4> QED BY <4>2, <4>3
    <3>2. CASE p \notin PaysOf(t)
      <4>1. pay'[p] = pay[p]
        BY <2>4, <3>2 DEF WithoutPaysOf
      <4> QED BY <1>0, <3>2, <4>1, SaleStepPays DEF PaysOf
    <3> QED BY <3>1, <3>2
  <2> QED BY <1>0, <1>3, <2>3, <2>5, SaleStepElsewhere, StoreAssumption, NoTxSeen, NoPaySeen
         DEF View, StoreAssumption
<1>5. CASE RemoveRow(c)
  <2>1. LiveTx(t) /\ tx[t].lists = 0 /\ PaysOf(t) = {}
    BY <1>0, <1>5, SaleStep DEF RemoveRow, Validated, Achieved
  <2>2. tx'[t] = GoneRow /\ pay' = pay /\ call'[c] = Idle
    BY <1>5, <2>1, StoreAssumption
    DEF RemoveRow, End, GuardedInv, TypeOK, TablesTypeOK, StoreAssumption
  <2>3. c \notin Removing(t)' /\ c \notin PendingLists(t)'
    BY <2>2 DEF Removing, PendingLists, Idle
  <2>4. SeenTx(t)' = GoneRow
    BY <1>1, <2>2, <2>3, SeenAloneNext
  <2>5. \A p \in Pays : SeenPay(p)' = SeenPay(p)
    BY <1>0, <2>1, <2>2, SaleStepPays DEF PaysOf
  <2> QED BY <1>0, <1>3, <2>4, <2>5, SaleStepElsewhere, StoreAssumption, NoTxSeen, NoPaySeen
         DEF View, StoreAssumption
<1> QED BY <1>4, <1>5

\* The SELECTs of complete are invisible.
LEMMA ReadingIsInvisible ==
  ASSUME TypeOK, NEW c \in Callers, Reading(c)
  PROVE  UNCHANGED View
<1>1. /\ tx' = tx /\ pay' = pay
      /\ \A d \in Callers \ {c} : call'[d] = call[d]
      /\ call[c].step \notin {"tx.write", "tx.rmPays", "tx.rmRow"}
      /\ call'[c].step \notin {"tx.write", "tx.rmPays", "tx.rmRow"}
  BY ReadingStep DEF Idle
<1>2. /\ \A s \in Txs : SeenTx(s)' = SeenTx(s)
      /\ \A p \in Pays : SeenPay(p)' = SeenPay(p)
  BY <1>1, PlainStep
<1> QED BY <1>2, StoreAssumption, NoTxSeen, NoPaySeen DEF View, StoreAssumption

\* A statement of PaymentsService: sales are seen as before, and so are all payments but one.
LEMMA PaymentStepSeen ==
  ASSUME GuardedInv, NEW c \in Callers, PaymentStep(c)
  PROVE  /\ call[c] \in Calls /\ call[c].tx \in Txs /\ call'[c] = Idle
         /\ TxView' = TxView
         /\ \A s \in Txs : Removing(s)' = Removing(s)
         /\ \A p \in Pays : pay'[p] = pay[p] => SeenPay(p)' = SeenPay(p)
         /\ \A s \in SalesOf(call[c]) \cap Guarded : SeenTx(s) = tx[s] /\ Removing(s) = {}
<1>0. call[c] \in Calls /\ TypeOK /\ Apart
  BY DEF GuardedInv, TypeOK
<1>1. call[c].step \in {"pay.insert", "pay.write", "pay.refund", "pay.delete"} /\ tx' = tx
  BY DEF PaymentStep, CreateInsert, UpdatePayWrite, RefundWrite, RemovePayWrite
<1>2. call'[c] = Idle /\ \A d \in Callers \ {c} : call'[d] = call[d]
  BY <1>0 DEF PaymentStep, CreateInsert, UpdatePayWrite, RefundWrite, RemovePayWrite, End, TypeOK
<1>3. /\ \A s \in Txs : SeenTx(s)' = SeenTx(s) /\ Removing(s)' = Removing(s)
      /\ \A p \in Pays : pay'[p] = pay[p] => SeenPay(p)' = SeenPay(p)
  BY <1>0, <1>1, <1>2, PlainStep DEF Idle
<1>4. ASSUME NEW s \in SalesOf(call[c]) \cap Guarded PROVE SeenTx(s) = tx[s] /\ Removing(s) = {}
  <2>1. Only(c, s)
    BY <1>0, OnlyOne
  <2>2. c \notin Removing(s) /\ c \notin PendingLists(s)
    BY <1>1 DEF Removing, PendingLists
  <2> QED BY <2>1, <2>2, SeenAlone
<1>5. TxView' = TxView
  BY <1>3, StoreAssumption, NoTxSeen DEF StoreAssumption
<1> QED BY <1>0, <1>1, <1>2, <1>3, <1>4, <1>5, CallTypes

\* A payment is made, elsewhere or on a guarded sale, and then by a handler that has
\* checked that the sale is there.
LEMMA InsertIsAtomic ==
  ASSUME GuardedInv, NEW c \in Callers, CreateInsert(c), call[c].tx \in Guarded
  PROVE  Atomic!AtomicNext
<1>0. PaymentStep(c) /\ call[c] \in Calls /\ call[c].step = "pay.insert" /\ TypeOK
  BY DEF PaymentStep, CreateInsert, GuardedInv, TypeOK
<1> PICK t \in Guarded, amount \in Amounts : t = call[c].tx /\ amount = call[c].amount
  BY <1>0, CallTypes
<1>1. LiveTx(t) /\ t \in SalesOf(call[c])
  <2>1. t \in SalesOf(call[c])
    BY <1>0, SalesOfCall DEF Idle
  <2>2. Validated(c)
    BY <2>1 DEF GuardedInv, ChecksHold, AboutGuarded
  <2> QED BY <1>0, <2>1, <2>2 DEF Validated
<1> PICK q \in Pays : pay[q] = NoRow /\ pay' = [pay EXCEPT ![q] = NewPay(t, amount)]
  BY <1>1 DEF CreateInsert
<1>2. SeenTx(t) = tx[t] /\ Removing(t)' = {} /\ TxView' = TxView
  BY <1>0, <1>1, PaymentStepSeen, StoreAssumption DEF StoreAssumption
<1>3. pay'[q] = NewPay(t, amount) /\ \A p \in Pays \ {q} : pay'[p] = pay[p]
  BY <1>0 DEF TypeOK, TablesTypeOK
<1>4. SeenPay(q) = NoRow
  BY VacantRows DEF SeenPay, LivePay
<1>5. SeenPay(q)' = NewPay(t, amount)
  <2>1. pay'[q].tx = t
    BY <1>3 DEF NewPay
  <2> QED BY <1>2, <1>3, <2>1 DEF SeenPay
<1>6. PayView' = [PayView EXCEPT ![q] = NewPay(t, amount)]
  BY <1>0, <1>3, <1>5, PaymentStepSeen, OnePaySeen
<1>7. Atomic!LiveTx(t)
  BY <1>1, <1>2, SeenLive DEF LiveTx
<1>8. Atomic!CreatePayment(q, t, amount)
  BY <1>2, <1>4, <1>6, <1>7, SameRows DEF Atomic!CreatePayment, TxView, PayView
<1> QED BY <1>8 DEF Atomic!AtomicNext

\* The payment a handler of guarded sales is about, before it writes.
LEMMA PaymentSeen ==
  ASSUME GuardedInv, NEW c \in Callers, PaymentStep(c), AboutGuarded(call[c]),
         call[c].step \in {"pay.write", "pay.refund", "pay.delete"}
  PROVE  /\ call[c].pay \in Pays /\ LivePay(call[c].pay) /\ Validated(c)
         /\ pay[call[c].pay] \in PayRows /\ pay[call[c].pay].tx = call[c].tx
         /\ call[c].tx \in SalesOf(call[c])
         /\ SeenPay(call[c].pay) = IF call[c].tx \in Guarded THEN pay[call[c].pay] ELSE ElsewhereRow
<1>0. call[c] \in Calls /\ TypeOK /\ Validated(c)
  BY DEF GuardedInv, TypeOK, ChecksHold
<1> PICK q \in Pays, t \in Txs : q = call[c].pay /\ t = call[c].tx
  BY <1>0, CallTypes
<1>1. LivePay(q) /\ pay[q].tx = t /\ t \in SalesOf(call[c])
  BY <1>0, SalesOfCall DEF Validated, Idle
<1>2. pay[q] \in PayRows
  BY <1>0, <1>1, LivePayRow DEF TypeOK
<1>3. SeenPay(q) = IF t \in Guarded THEN pay[q] ELSE ElsewhereRow
  BY <1>1, PaymentStepSeen DEF SeenPay
<1> QED BY <1>0, <1>1, <1>2, <1>3

\* An update of a payment concerns guarded sales: it stays on them, leaves or arrives.
LEMMA PatchIsAtomic ==
  ASSUME GuardedInv, NEW c \in Callers, UpdatePayWrite(c), AboutGuarded(call[c])
  PROVE  Atomic!AtomicNext \/ UNCHANGED View
<1>0. PaymentStep(c) /\ call[c] \in Calls /\ call[c].step = "pay.write" /\ TypeOK
  BY DEF PaymentStep, UpdatePayWrite, GuardedInv, TypeOK
<1> PICK q \in Pays, patch \in PayPatches : q = call[c].pay /\ patch = call[c].patch
  BY <1>0, CallTypes
<1>1. /\ LivePay(q) /\ pay[q] \in PayRows /\ pay[q].tx = call[c].tx
      /\ call[c].tx \in SalesOf(call[c])
      /\ SeenPay(q) = IF call[c].tx \in Guarded THEN pay[q] ELSE ElsewhereRow
  BY <1>0, PaymentSeen
<1>2. pay[q].status \notin {"COMPLETED", "REFUNDED"}
  BY <1>0, PaymentSeen DEF Validated
<1>3. patch.tx # Absent => patch.tx \in SalesOf(call[c])
  BY <1>0, SalesOfCall
<1>4. CASE pay' = pay
  BY <1>0, <1>4, PaymentStepSeen, NoPaySeen DEF View
<1>5. CASE pay' # pay
  <2>1. pay' = [pay EXCEPT ![q] = PatchedPay(pay[q], patch)] /\ (patch.tx # Absent => LiveTx(patch.tx))
    BY <1>5 DEF UpdatePayWrite
  <2>2. pay'[q] = PatchedPay(pay[q], patch) /\ \A p \in Pays \ {q} : pay'[p] = pay[p]
    BY <1>0, <2>1 DEF TypeOK, TablesTypeOK
  <2>3. pay'[q] \in PayRows
    BY <1>1, <2>2, PatchedPayType
  <2> PICK s \in Txs : s = pay'[q].tx
    BY <2>3 DEF PayRows
  <2>4. s \in SalesOf(call[c]) /\ LivePay(q)'
    BY <1>1, <1>3, <2>2, <2>3 DEF PatchedPay, Patched, PayRows, LivePay
  <2>5. SeenPay(q)' = IF s \in Guarded THEN PatchedPay(pay[q], patch) ELSE ElsewhereRow
    <3>1. s \in Guarded => Removing(s)' = {}
      BY <1>0, <2>4, PaymentStepSeen
    <3> QED BY <2>2, <2>4, <3>1 DEF SeenPay
  <2>6. \A p \in Pays \ {q} : SeenPay(p)' = SeenPay(p)
    BY <1>0, <2>2, PaymentStepSeen
  <2>7. TxView' = TxView
    BY <1>0, PaymentStepSeen
  <2>8. CASE call[c].tx \in Guarded /\ s \in Guarded
    <3>1. PayView' = [PayView EXCEPT ![q] = PatchedPay(pay[q], patch)] /\ SeenPay(q) = pay[q]
      BY <1>1, <2>5, <2>6, <2>8, OnePaySeen
    <3>2. patch.tx # Absent => patch.tx = s
      BY <1>1, <2>2 DEF PatchedPay, Patched, PayRows
    <3>3. patch.tx # Absent => patch.tx \in Guarded /\ Atomic!LiveTx(patch.tx)
      BY <1>0, <1>3, <2>1, <2>8, <3>2, PaymentStepSeen, SeenLive DEF LiveTx
    <3>4. Atomic!LivePay(q)
      BY <1>1, <3>1, SeenLive DEF LivePay
    <3>5. Atomic!UpdatePayment(q, patch)
      BY <1>2, <2>7, <3>1, <3>3, <3>4, SameRows DEF Atomic!UpdatePayment, TxView, PayView
    <3>6. patch \in Atomic!PayPatches
      BY <3>3, SameRequests
    <3> QED BY <3>5, <3>6 DEF Atomic!AtomicNext
  <2>9. CASE call[c].tx \in Guarded /\ s \notin Guarded
    <3>1. PayView' = [PayView EXCEPT ![q] = ElsewhereRow] /\ SeenPay(q) = pay[q]
      BY <1>1, <2>5, <2>6, <2>9, OnePaySeen
    <3>2. Atomic!LivePay(q)
      BY <1>1, <3>1, SeenLive DEF LivePay
    <3>3. Atomic!PaymentLeaves(q)
      BY <1>2, <2>7, <3>1, <3>2, SameRows DEF Atomic!PaymentLeaves, TxView, PayView
    <3> QED BY <2>9, <3>3 DEF Atomic!AtomicNext
  <2>10. CASE call[c].tx \notin Guarded /\ s \in Guarded
    <3>1. /\ SeenPay(q) = ElsewhereRow /\ SeenPay(q)' = pay'[q]
      BY <1>1, <2>2, <2>5, <2>10
    <3>2. PayView' = [PayView EXCEPT ![q] = pay'[q]] /\ PayView'[q] = pay'[q]
      BY <2>6, <3>1, OnePaySeen DEF PayView
    <3>3. patch.tx = s
      BY <1>1, <2>2, <2>10 DEF PatchedPay, Patched, PayRows
    <3>4. SeenTx(s) = tx[s] /\ LiveTx(s)
      BY <1>0, <1>3, <2>1, <2>4, <2>10, <3>3, PaymentStepSeen, TablesAssumption
      DEF TablesAssumption
    <3>5. Atomic!LiveTx(s)
      BY <2>10, <3>4, SeenLive DEF LiveTx
    <3>6. pay'[q] \in Atomic!PayRows
      <4>1. pay'[q] = [status |-> pay'[q].status, tx |-> s, amount |-> pay'[q].amount,
                       refundedAt |-> pay'[q].refundedAt]
        BY <2>3 DEF PayRows
      <4>2. /\ pay'[q].status \in PaymentStatus /\ pay'[q].amount \in Nat
            /\ pay'[q].refundedAt \in BOOLEAN
        BY <2>3 DEF PayRows
      <4> QED BY <2>10, <4>1, <4>2
        DEF Atomic!PayRows, Atomic!PaymentStatus, PaymentStatus
    <3>7. pay'[q].status \in {"PENDING", "FAILED"} \cup PayPatchStatuses
      <4>1. pay[q].status \in PaymentStatus
        BY <1>1 DEF PayRows
      <4>2. pay'[q].status = Patched(pay[q].status, patch.status)
        BY <1>1, <2>2 DEF PatchedPay, PayRows
      <4>3. patch.status \in PayPatchStatuses \cup {Absent}
        BY DEF PayPatches
      <4> QED BY <1>2, <4>1, <4>2, <4>3 DEF Patched, PaymentStatus
    <3>8. Atomic!PaymentArrives(q)
      BY <2>7, <3>1, <3>2, <3>5, <3>6, <3>7, SameRows DEF Atomic!PaymentArrives, TxView, PayView
    <3>9. Guarded # Txs
      BY <2>10, <1>0, CallTypes
    <3> QED BY <3>8, <3>9 DEF Atomic!AtomicNext
  <2>11. CASE call[c].tx \notin Guarded /\ s \notin Guarded
    <3>1. SeenPay(q)' = SeenPay(q)
      BY <1>1, <2>5, <2>11
    <3> QED BY <2>6, <2>7, <3>1, NoPaySeen DEF View
  <2> QED BY <2>8, <2>9, <2>10, <2>11
<1> QED BY <1>4, <1>5

LEMMA RefundIsAtomic ==
  ASSUME GuardedInv, NEW c \in Callers, RefundWrite(c) \/ RemovePayWrite(c), AboutGuarded(call[c])
  PROVE  Atomic!AtomicNext
<1>0. /\ PaymentStep(c) /\ call[c] \in Calls /\ TypeOK
      /\ call[c].step \in {"pay.refund", "pay.delete"}
  BY DEF PaymentStep, RefundWrite, RemovePayWrite, GuardedInv, TypeOK
<1>a. SalesOf(call[c]) = {call[c].tx} /\ call[c].tx \in Guarded
  BY <1>0, SalesOfCall DEF AboutGuarded
<1> PICK q \in Pays : q = call[c].pay
  BY <1>0, CallTypes
<1>1. /\ LivePay(q) /\ SeenPay(q) = pay[q] /\ pay[q] \in PayRows /\ pay[q].tx = call[c].tx
      /\ Validated(c)
  BY <1>0, <1>a, PaymentSeen
<1>2. Atomic!LivePay(q)
  BY <1>1, SeenLive DEF LivePay
<1>3. \A p \in Pays \ {q} : pay'[p] = pay[p]
  BY <1>0 DEF RefundWrite, RemovePayWrite, TypeOK, TablesTypeOK
<1>4. CASE RefundWrite(c)
  <2>1. pay[q].status = "COMPLETED"
    BY <1>1, <1>4 DEF RefundWrite, Validated
  <2>2. pay'[q] = RefundedPay(pay[q])
    BY <1>0, <1>1, <1>4 DEF RefundWrite, TypeOK, TablesTypeOK
  <2>3. pay'[q].tx = pay[q].tx
    BY <1>1, <2>2 DEF RefundedPay, PayRows
  <2> PICK s \in Guarded : s = pay'[q].tx /\ Removing(s)' = {}
    BY <1>0, <1>a, <1>1, <2>3, PaymentStepSeen
  <2>4. SeenPay(q)' = RefundedPay(pay[q])
    BY <2>2 DEF SeenPay
  <2>5. PayView' = [PayView EXCEPT ![q] = RefundedPay(pay[q])] /\ TxView' = TxView
    BY <1>0, <1>3, <2>4, PaymentStepSeen, OnePaySeen
  <2>6. Atomic!RefundPayment(q)
    BY <1>1, <1>2, <2>1, <2>5, SameRows DEF Atomic!RefundPayment, TxView, PayView
  <2> QED BY <2>6 DEF Atomic!AtomicNext
<1>5. CASE RemovePayWrite(c)
  <2>1. pay[q].status # "COMPLETED"
    BY <1>1, <1>5 DEF RemovePayWrite, Validated
  <2>2. pay'[q] = GoneRow
    BY <1>0, <1>1, <1>5 DEF RemovePayWrite, TypeOK, TablesTypeOK
  <2>3. SeenPay(q)' = GoneRow
    BY <2>2, VacantRows DEF SeenPay, LivePay
  <2>4. PayView' = [PayView EXCEPT ![q] = GoneRow] /\ TxView' = TxView
    BY <1>0, <1>3, <2>3, PaymentStepSeen, OnePaySeen
  <2>5. Atomic!RemovePayment(q)
    BY <1>1, <1>2, <2>1, <2>4, SameRows DEF Atomic!RemovePayment, TxView, PayView
  <2> QED BY <2>5 DEF Atomic!AtomicNext
<1> QED BY <1>4, <1>5

-----------------------------------------------------------------------------
(* The other sales *)

\* A payment that is on no guarded sale before and after is seen to be made, or to go.
LEMMA SeenOutside ==
  ASSUME NEW p \in Pays, ~PaymentOfGuarded(p), ~PaymentOfGuarded(p)',
         pay[p] = NoRow \/ LivePay(p), LivePay(p)' \/ pay'[p] = GoneRow
  PROVE  SeenPay(p) \in {NoRow, ElsewhereRow} /\ SeenPay(p)' \in {ElsewhereRow, GoneRow}
<1>1. SeenPay(p) \in {NoRow, ElsewhereRow}
  BY VacantRows DEF SeenPay, PaymentOfGuarded, LivePay
<1>2. CASE LivePay(p)'
  BY <1>1, <1>2 DEF SeenPay, PaymentOfGuarded
<1>3. CASE pay'[p] = GoneRow
  BY <1>1, <1>3, VacantRows DEF SeenPay, LivePay
<1> QED BY <1>1, <1>2, <1>3

LEMMA OutsideIsElsewhere ==
  ASSUME Guarded # Txs, TxView' = TxView,
         \A p \in Pays : \/ SeenPay(p)' = SeenPay(p)
                         \/ /\ SeenPay(p) \in {NoRow, ElsewhereRow}
                            /\ SeenPay(p)' \in {ElsewhereRow, GoneRow}
  PROVE  Atomic!AtomicNext
<1>1. PayView' = [p \in Pays |-> PayView'[p]]
  BY DEF PayView
<1>2. \A p \in Pays : PayView'[p] # PayView[p] =>
        PayView[p] \in {NoRow, ElsewhereRow} /\ PayView'[p] \in {ElsewhereRow, GoneRow}
  BY DEF PayView
<1>3. Atomic!PaymentsElsewhere
  BY <1>1, <1>2, SameRows DEF Atomic!PaymentsElsewhere, TxView, PayView
<1> QED BY <1>3 DEF Atomic!AtomicNext

\* A handler about no guarded sale touches no payment of one.
LEMMA OutsidePays ==
  ASSUME GuardedInv, NEW c \in Callers, Step(c), ~AboutGuarded(call[c]), NEW p \in Pays
  PROVE  \/ pay'[p] = pay[p]
         \/ /\ ~PaymentOfGuarded(p) /\ ~PaymentOfGuarded(p)'
            /\ pay[p] = NoRow \/ LivePay(p)
            /\ LivePay(p)' \/ pay'[p] = GoneRow
<1>0. TypeOK /\ TablesTypeOK /\ PaymentsKnown /\ call[c] \in Calls
  BY DEF GuardedInv, TypeOK
<1> SUFFICES ASSUME pay'[p] # pay[p]
             PROVE  /\ ~PaymentOfGuarded(p) /\ ~PaymentOfGuarded(p)'
                    /\ pay[p] = NoRow \/ LivePay(p)
                    /\ LivePay(p)' \/ pay'[p] = GoneRow
  OBVIOUS
<1>1. CASE UpdatePayWrite(c) \/ RefundWrite(c) \/ RemovePayWrite(c)
  <2>1. /\ p = call[c].pay /\ p \in PaymentOf(call[c])
        /\ LivePay(p) /\ pay[p] \in PayRows
        /\ \/ pay'[p] = GoneRow
           \/ pay'[p] = RefundedPay(pay[p])
           \/ /\ call[c].step = "pay.write" /\ call[c].patch \in PayPatches
              /\ pay'[p] = PatchedPay(pay[p], call[c].patch)
    BY <1>0, <1>1, OnePayChanged
  <2>2. ~PaymentOfGuarded(p)
    BY <1>0, <2>1 DEF PaymentsKnown, PaymentOfGuarded, AboutGuarded
  <2>3. CASE pay'[p] = GoneRow
    BY <2>1, <2>2, <2>3, VacantRows DEF PaymentOfGuarded, LivePay
  <2>4. CASE pay'[p] # GoneRow
    <3>1. pay'[p] \in PayRows
      BY <2>1, <2>4, RefundedPayType, PatchedPayType
    <3>2. LivePay(p)'
      BY <3>1 DEF PayRows, LivePay
    <3>3. pay'[p].tx = pay[p].tx \/ pay'[p].tx \in SalesOf(call[c])
      BY <1>0, <2>1, <2>4, SaleOfWrittenPay, SalesOfCall
    <3>4. pay'[p].tx \notin Guarded
      BY <2>1, <2>2, <3>3 DEF PaymentOfGuarded, AboutGuarded
    <3> QED BY <2>1, <2>2, <3>2, <3>4 DEF PaymentOfGuarded, LivePay
  <2> QED BY <2>3, <2>4
<1>2. CASE CreateInsert(c)
  <2>1. call[c].tx \in SalesOf(call[c]) /\ call[c].step = "pay.insert"
    BY <1>0, <1>2, SalesOfCall DEF CreateInsert, Idle
  <2>2. call[c].tx \notin Guarded
    BY <2>1 DEF AboutGuarded
  <2>3. pay[p] = NoRow /\ pay'[p] = NewPay(call[c].tx, call[c].amount)
    BY <1>0, <1>2 DEF CreateInsert, TablesTypeOK
  <2>4. LivePay(p)' /\ pay'[p].tx = call[c].tx
    BY <2>3 DEF NewPay, LivePay, PaymentStatus
  <2> QED BY <2>2, <2>3, <2>4, VacantRows DEF PaymentOfGuarded, LivePay
<1>3. CASE RemovePays(c)
  <2>1. call[c].tx \in SalesOf(call[c])
    BY <1>0, <1>3, SalesOfCall DEF RemovePays, Idle
  <2>2. p \in PaysOf(call[c].tx) /\ pay'[p] = GoneRow
    BY <1>3 DEF RemovePays, WithoutPaysOf
  <2> QED BY <2>1, <2>2, VacantRows DEF PaysOf, PaymentOfGuarded, LivePay, AboutGuarded
<1>4. CASE TransactionStep(c) /\ ~RemovePays(c)
  BY <1>4
  DEF TransactionStep, UpdateClear, TxWrite, CompleteReadLines, CompleteReadPays, CompleteWrite,
      RemoveLines, RemoveRow
<1> QED BY <1>1, <1>2, <1>3, <1>4 DEF Step, PaymentStep

\* So its statements are seen as payments elsewhere at most.
LEMMA OutsideIsAtomic ==
  ASSUME GuardedInv, NEW c \in Callers, Step(c), ~AboutGuarded(call[c])
  PROVE  Atomic!AtomicNext
<1>0. TypeOK /\ call[c] \in Calls
  BY DEF GuardedInv, TypeOK
<1>1. CASE TransactionStep(c)
  <2>1. call[c].tx \in Txs \ Guarded
    BY <1>0, <1>1, SaleStepElsewhere DEF AboutGuarded
  <2>2. TxView' = TxView
    BY <1>0, <1>1, <2>1, SaleStepElsewhere, StoreAssumption, NoTxSeen DEF StoreAssumption
  <2>3. \A p \in Pays : pay'[p] = pay[p] => SeenPay(p)' = SeenPay(p)
    BY <1>0, <1>1, <2>1, SaleStepPays
  <2> QED BY <2>1, <2>2, <2>3, OutsidePays, SeenOutside, OutsideIsElsewhere
<1>2. CASE PaymentStep(c)
  <2>1. call[c] # Idle
    BY <1>2 DEF PaymentStep, CreateInsert, UpdatePayWrite, RefundWrite, RemovePayWrite, Idle
  <2>2. call[c].tx \in Txs \ Guarded
    BY <1>0, <1>2, <2>1, SalesOfCall, PaymentStepSeen DEF AboutGuarded
  <2>3. TxView' = TxView /\ \A p \in Pays : pay'[p] = pay[p] => SeenPay(p)' = SeenPay(p)
    BY <1>2, PaymentStepSeen
  <2> QED BY <2>2, <2>3, OutsidePays, SeenOutside, OutsideIsElsewhere
<1> QED BY <1>1, <1>2 DEF Step

LEMMA StepsAreAtomic ==
  ASSUME ~Faults, GuardedInv, ClearsReplace, [Next]_vars
  PROVE  Atomic!AtomicNext \/ UNCHANGED View
<1>0. TypeOK
  BY DEF GuardedInv
<1>1. CASE CreateSale
  BY <1>1, CreateSaleIsAtomic
<1>2. ASSUME NEW c \in Callers, BeginCall(c) PROVE UNCHANGED View
  BY <1>0, <1>2, BeginIsInvisible
<1>3. ASSUME NEW c \in Callers, TransactionStep(c), AboutGuarded(call[c])
      PROVE  Atomic!AtomicNext \/ UNCHANGED View
  <2>1. call[c].tx \in Guarded
    BY <1>0, <1>3, SaleStepElsewhere DEF AboutGuarded
  <2> QED BY <1>3, <2>1, ClearIsAtomic, WriteIsAtomic, CompleteIsAtomic, RemoveIsAtomic,
             RemovalIsInvisible, ReadingIsInvisible
          DEF TransactionStep, Reading, GuardedInv
<1>4. ASSUME NEW c \in Callers, PaymentStep(c), AboutGuarded(call[c])
      PROVE  Atomic!AtomicNext \/ UNCHANGED View
  <2>1. CASE CreateInsert(c)
    <3>1. call[c].tx \in Guarded
      BY <1>0, <1>4, <2>1, SalesOfCall DEF CreateInsert, AboutGuarded, TypeOK
    <3> QED BY <2>1, <3>1, InsertIsAtomic
  <2>2. CASE UpdatePayWrite(c) \/ RefundWrite(c) \/ RemovePayWrite(c)
    BY <1>4, <2>2, PatchIsAtomic, RefundIsAtomic
  <2> QED BY <1>4, <2>1, <2>2 DEF PaymentStep
<1>5. ASSUME NEW c \in Callers, Step(c), ~AboutGuarded(call[c]) PROVE Atomic!AtomicNext
  BY <1>5, OutsideIsAtomic
<1>6. ASSUME NEW c \in Callers, Abort(c) PROVE FALSE
  BY <1>6 DEF Abort, Fail
<1>7. CASE UNCHANGED vars
  <2>1. \A s : Removing(s)' = Removing(s) /\ PendingLists(s)' = PendingLists(s)
    BY <1>7 DEF vars, Removing, PendingLists
  <2>2. ASSUME NEW s \in Guarded PROVE SeenTx(s)' = SeenTx(s)
    <3>1. Removing(s)' = Removing(s) /\ PendingLists(s)' = PendingLists(s) /\ tx' = tx /\ call' = call
      BY <1>7, <2>1 DEF vars
    <3> QED BY <3>1 DEF SeenTx
  <2>3. ASSUME NEW p \in Pays PROVE SeenPay(p)' = SeenPay(p)
    BY <1>7, <2>1 DEF vars, SeenPay, LivePay
  <2> QED BY <2>2, <2>3, NoTxSeen, NoPaySeen DEF View
<1> QED BY <1>1, <1>2, <1>3, <1>4, <1>5, <1>6, <1>7 DEF Next, Step

LEMMA NothingSeenAtFirst ==
  ASSUME Init
  PROVE  Atomic!TablesInit
<1>1. \A s : Removing(s) = {} /\ PendingLists(s) = {}
  BY DEF Init, HandlersInit, Removing, PendingLists, Idle
<1>2. \A s \in Guarded : SeenTx(s) = NoRow
  BY <1>1, StoreAssumption DEF SeenTx, Init, TablesInit, StoreAssumption
<1>3. \A p \in Pays : SeenPay(p) = NoRow
  BY VacantRows DEF SeenPay, LivePay, Init, TablesInit
<1> QED BY <1>2, <1>3, SameRows DEF Atomic!TablesInit

(***************************************************************************)
(* When nothing fails, the handlers of TransactionsService and             *)
(* PaymentsService implement for the guarded sales the API on which every  *)
(* request takes effect at once, whatever clients do to the other sales:   *)
(* no interleaving of the handlers' statements is observable on a guarded  *)
(* sale, however many sales, payments and registers there are.             *)
(***************************************************************************)
THEOREM SalesImplementAtomicSales ==
  ASSUME ~Faults
  PROVE  Spec => ImplementsAtomicSales
<1>1. Init => ClearsReplace
  BY DEF Init, HandlersInit, ClearsReplace, Idle
<1>2. TypeOK /\ ClearsReplace /\ [Next]_vars => ClearsReplace'
  BY ClearsStay
<1>3. Init => Atomic!TablesInit
  BY NothingSeenAtFirst
<1>4. TypeOK /\ Apart /\ PaymentsKnown /\ ChecksHold /\ ClearsReplace /\ [Next]_vars
        => [Atomic!AtomicNext]_<<[t \in Guarded |-> SeenTx(t)], [p \in Pays |-> SeenPay(p)]>>
  BY StepsAreAtomic DEF GuardedInv, View, TxView, PayView
<1> QED
  BY <1>1, <1>2, <1>3, <1>4, TypeCorrect, ChecksAreNeverStale, PTL
  DEF Spec, ImplementsAtomicSales, Atomic!AtomicSpec
=============================================================================
