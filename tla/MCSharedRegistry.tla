-------------------------- MODULE MCSharedRegistry --------------------------
(* The symmetries under which the registry is model-checked. *)
EXTENDS SharedRegistry, TLC

(* Calls and names are interchangeable, types are not named anywhere. *)
Symmetry ==
  Permutations(Calls) \cup Permutations(Names) \cup Permutations(Types)
=============================================================================
