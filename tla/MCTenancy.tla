----------------------------- MODULE MCTenancy -----------------------------
(***************************************************************************)
(* Tenancy for TLC.  Three secrets, two of which begin with the same       *)
(* digits: whichever of them is issued, the other one is a near miss.      *)
(***************************************************************************)
EXTENDS Tenancy, TLC

CONSTANTS k1, k2, k3, p1, p2

SharedPrefix == k1 :> p1 @@ k2 :> p1 @@ k3 :> p2

Symmetry == Permutations(Businesses) \cup Permutations(Customers)
=============================================================================
