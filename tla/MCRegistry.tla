----------------------------- MODULE MCRegistry -----------------------------
(* Registry for TLC: rows, labels and requests are model values of the     *)
(* .cfg.                                                                   *)
EXTENDS Registry, TLC

\* Rows and requests of the same sort are interchangeable.
Symmetry == Permutations(Providers) \cup Permutations(Accounts) \cup Permutations(Labels)
              \cup Permutations(Edits) \cup Permutations(Deletes) \cup Permutations(Merges)
              \cup Permutations(Kinds)
=============================================================================
