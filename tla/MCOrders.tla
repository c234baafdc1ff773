------------------------------- MODULE MCOrders -------------------------------
(* Instances of Orders: one pooled listing shared by racing checkouts, and   *)
(* one product whose NEW stock can be converted into Used offers.            *)
EXTENDS Orders, TLC

CONSTANTS new, product

MCProductOf == [l \in Listings |-> product]
MCOpeningStock == [l \in NewListings |-> MaxStock]
MCSymmetry == Permutations(OrderIds) \union Permutations(Requests) \union Permutations(UsedListings)
=============================================================================
