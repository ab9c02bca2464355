------------------------------- MODULE MCSales -------------------------------
(* Small instances of Sales for TLC. *)
EXTENDS SalesRefinement, TLC

\* Callers are interchangeable, and so are payments; sales are not, some being guarded.
CallersAndPayments == Permutations(Callers) \cup Permutations(Pays)
=============================================================================
