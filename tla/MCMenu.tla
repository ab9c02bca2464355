--------------------------------- MODULE MCMenu ---------------------------------
(* Small instances of Menu for TLC. *)
EXTENDS Menu, TLC

Anyone ==
  Permutations(Callers) \cup Permutations(Words) \cup Permutations(Types)
    \cup Permutations(CatIds \ Placed) \cup Permutations(Guarded)
=============================================================================
