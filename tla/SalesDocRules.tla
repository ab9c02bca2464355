---------------------------- MODULE SalesDocRules ----------------------------
(***************************************************************************)
(* A rule that the repository's documents state of the sales API and that  *)
(* the code does not keep, even when every request is atomic.              *)
(***************************************************************************)
EXTENDS AtomicSales

(***************************************************************************)
(* "COMPLETED - Transacción completada con pago" (PR-TRANSACTIONS.md:12):  *)
(* completed payments cover a completed sale.  calculateTotal counts       *)
(* pending and failed payments too.                                        *)
(***************************************************************************)
SettledPaysOf(t) == {p \in PaysOf(t) : pay[p].status = "COMPLETED"}
CompletedIsPaid == \A t \in Txs : tx[t].status = "COMPLETED" =>
  tx[t].subtotal + tx[t].adjust <= SumFunction([p \in SettledPaysOf(t) |-> pay[p].amount])
=============================================================================
