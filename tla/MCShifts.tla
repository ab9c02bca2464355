------------------------------- MODULE MCShifts -------------------------------
(* A small instance of Shifts for TLC. *)
EXTENDS Shifts, TLC

CallersAndPlaces == Permutations(Callers) \cup Permutations(Locations)
=============================================================================
