------------------------------- MODULE MCReturns -------------------------------
(* Instances of OrderReturns: one order of one product, sold NEW or Used, and *)
(* two returns of it.                                                         *)
EXTENDS OrderReturns, TLC

CONSTANTS new, product

MCProductOf == [l \in Listings |-> product]
MCOpeningStock == [l \in NewListings |-> MaxStock]
MCSymmetry == Permutations(ReturnIds)
=============================================================================
