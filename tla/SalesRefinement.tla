--------------------------- MODULE SalesRefinement ---------------------------
(***************************************************************************)
(* When nothing fails, the handlers implement the atomic API of            *)
(* AtomicSales for the guarded sales, although update and remove write     *)
(* several times, and although handlers of the other sales interleave.     *)
(* An update with line items takes effect when it clears the old ones, a   *)
(* removal when it clears the line items, every other request when it      *)
(* writes; the tables as clients see them run ahead of the stored ones by  *)
(* what the handler in flight is still going to write.                     *)
(***************************************************************************)
EXTENDS Sales

Removing(t) ==
  {c \in Callers : call[c].step \in {"tx.rmPays", "tx.rmRow"} /\ call[c].tx = t}

SeenTx(t) ==
  IF Removing(t) # {} THEN GoneRow
  ELSE IF PendingLists(t) # {}
    THEN PatchedTx(tx[t], call[CHOOSE c \in PendingLists(t) : TRUE].patch)
  ELSE tx[t]

ElsewhereRow == [status |-> "ELSEWHERE"]

SeenPay(p) ==
  IF LivePay(p) /\ pay[p].tx \notin Guarded THEN ElsewhereRow
  ELSE IF LivePay(p) /\ Removing(pay[p].tx) # {} THEN GoneRow
  ELSE pay[p]

Atomic == INSTANCE AtomicSales
  WITH Txs <- Guarded, Others <- Guarded # Txs,
       tx <- [t \in Guarded |-> SeenTx(t)], pay <- [p \in Pays |-> SeenPay(p)]

(***************************************************************************)
(* On a sale whose register waits for an answer before its next request no *)
(* interleaving of the handlers' statements is observable, whatever        *)
(* clients do to the other sales.                                          *)
(***************************************************************************)
ImplementsAtomicSales == Atomic!AtomicSpec
=============================================================================
