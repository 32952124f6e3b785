------------------------------ MODULE MCLedger ------------------------------
(* Ledger for TLC: one request enters rows while the other moves them. *)
EXTENDS Ledger, TLC

CONSTANTS r1, r2

OneOfEach == (r1 :> {"add", "pay"}) @@ (r2 :> {"move", "drop"})

Symmetry == Permutations(Accounts) \cup Permutations(Payments) \cup Permutations(Providers)
=============================================================================
