-------------------------- MODULE MCEvidenceVault --------------------------
(***************************************************************************)
(* A small vault for TLC: two threads, two keys that may fight over one    *)
(* identity.                                                               *)
(***************************************************************************)
EXTENDS EvidenceVault, TLC

Symmetry == Permutations(Workers) \cup Permutations(Keys) \cup Permutations(Bodies)
=============================================================================
