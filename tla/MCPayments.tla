----------------------------- MODULE MCPayments -----------------------------
(***************************************************************************)
(* Payments for TLC: requests and keys are interchangeable.                *)
(***************************************************************************)
EXTENDS Payments, TLC

Symmetry == Permutations(Requests) \cup Permutations(Keys)
=============================================================================
