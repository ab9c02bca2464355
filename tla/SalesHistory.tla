---------------------------- MODULE SalesHistory ----------------------------
(***************************************************************************)
(* Sales with a memory.  What a sale or a payment went through is lost when *)
(* a column is overwritten; the history variables keep it, and nothing     *)
(* reads them but the invariants below.                                    *)
(*                                                                         *)
(* A bill of a sale is a tax, less its discount, that the sale has had,    *)
(* together with line items it had then or later.  A sale of which only    *)
(* the lines, or only the tax, ever change has no bill but its totals.     *)
(***************************************************************************)
EXTENDS Sales

VARIABLES
  adjusts,   \* per sale, the taxes less discounts it has had
  bills,     \* per sale, its bills
  covered,   \* sales whose payments covered one of their bills in some state
  settled    \* payments that were COMPLETED in some state

historyVars == <<vars, adjusts, bills, covered, settled>>

HistoryInit ==
  /\ Init
  /\ adjusts = [t \in Txs |-> {}]
  /\ bills = [t \in Txs |-> {}]
  /\ covered = {}
  /\ settled = {}

LiveTxs == {t \in Txs : LiveTx(t)}

HistoryNext ==
  /\ Next
  /\ adjusts' = [t \in Txs |-> IF t \in LiveTxs' THEN adjusts[t] \cup {tx'[t].adjust} ELSE {}]
  /\ bills' = [t \in Txs |->
       IF t \in LiveTxs'
         THEN bills[t] \cup {tx'[t].subtotal + adjust : adjust \in adjusts'[t]}
         ELSE {}]
  /\ covered' = covered \cup {t \in LiveTxs' : \E bill \in bills'[t] : bill - Paid(t)' <= 0}
  /\ settled' = settled \cup {p \in Pays : pay'[p].status = "COMPLETED"}

HistorySpec == HistoryInit /\ [][HistoryNext]_historyVars

(***************************************************************************)
(* Whatever requests overtake each other, a sale carries a completion date *)
(* only if its payments covered a bill of it at some time: complete is the *)
(* one handler that writes the date, and it has read first the tax, then   *)
(* the line items and then the payments (157-204, 305-321).  That a bill   *)
(* was the sale's total at that time cannot be asked for: the tax may      *)
(* change between the first of these SELECTs and the last.                 *)
(***************************************************************************)
StampedBillWasPaid == \A t \in Txs : LiveTx(t) /\ tx[t].completedAt => t \in covered

(***************************************************************************)
(* Whatever requests overtake each other, a payment carries a refund date  *)
(* only if it was completed at some time (PaymentsService.refund, 196).    *)
(***************************************************************************)
RefundedWasSettled == \A p \in Pays : LivePay(p) /\ pay[p].refundedAt => p \in settled
=============================================================================
