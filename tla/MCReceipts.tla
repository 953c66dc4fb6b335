----------------------------- MODULE MCReceipts -----------------------------
(* Instances of Receipts for TLC. *)
EXTENDS Receipts, TLC

CONSTANTS k1, k2

EditAndPrepare == k1 :> "edit" @@ k2 :> "prepare"

Symmetry == Permutations(Calls) \cup Permutations(Hashes)
=============================================================================
