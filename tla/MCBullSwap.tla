----------------------------- MODULE MCBullSwap -----------------------------
(* Instances of BullSwap for TLC. *)
EXTENDS BullSwap, TLC

\* Orders differ in nothing but their uid.
Symmetry == Permutations(Orders)
=============================================================================
