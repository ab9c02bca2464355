------------------------------- MODULE MCOrders -------------------------------
(* Small instances of Orders for TLC. *)
EXTENDS Orders, TLC

AnyCaller == Permutations(Callers)
OrderIds == Permutations(Ords)
=============================================================================
