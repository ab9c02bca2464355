---------------------------- MODULE MCSalesHistory ----------------------------
(* A small instance of SalesHistory for TLC. *)
EXTENDS SalesHistory, TLC

\* Callers are interchangeable, and so are payments.
CallersAndPayments == Permutations(Callers) \cup Permutations(Pays)
=============================================================================
