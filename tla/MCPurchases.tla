------------------------------ MODULE MCPurchases ------------------------------
(* An instance of Purchases: a document of two lines and one of a single line, *)
(* all of which may turn out to be the same product.                           *)
EXTENDS Purchases, TLC

CONSTANTS product, d1, d2

MCProductOf == [l \in Listings |-> product]
MCOpeningStock == [l \in NewListings |-> 1]
MCDocOf == [i \in ItemIds |-> IF i = 3 THEN d2 ELSE d1]
MCExternalIdOf == [i \in ItemIds |-> NoExternalId]

\* A line at its price, and one whose total includes a correction.
MCLineCosts == {[quantity |-> 1, unit |-> 2, total |-> 2], [quantity |-> 1, unit |-> 2, total |-> 3]}
MCExtras == {[shipping |-> 2, discount |-> 1]}
=============================================================================
