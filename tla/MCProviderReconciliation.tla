------------------------ MODULE MCProviderReconciliation ------------------------
(* Instances of ProviderReconciliation for TLC. *)
EXTENDS ProviderReconciliation, TLC

MCSymmetry == Permutations(Workers) \cup Permutations(Tokens)
================================================================================
