------------------------------ MODULE MCPayments ------------------------------
(* Instances of Payments: one unit of stock, the last one, and the payments  *)
(* that race for it.                                                         *)
EXTENDS Payments, TLC

CONSTANTS new, product

MCProductOf == [l \in Listings |-> product]
MCOpeningStock == [l \in NewListings |-> MaxStock]
MCSymmetry == Permutations(Calls)
=============================================================================
