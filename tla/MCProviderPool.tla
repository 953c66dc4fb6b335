--------------------------- MODULE MCProviderPool ---------------------------
(* Instances of ProviderPool for TLC. *)
EXTENDS ProviderPool, TLC
=============================================================================
