---------------------------- MODULE MCAccountSync ----------------------------
(* AccountSync for TLC: the keys and values are model values of the .cfg,  *)
(* which also says how many calls, requests, items and rows there are.     *)
EXTENDS AccountSync, TLC

\* Calls, requests and keys are interchangeable.
Symmetry == Permutations(Syncs) \cup Permutations(ExtIds) \cup Permutations(Uuids)
=============================================================================
