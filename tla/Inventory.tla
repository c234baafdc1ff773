------------------------------ MODULE Inventory ------------------------------
(***************************************************************************)
(* The ProductListing rows and every statement that changes their stock.   *)
(* A NEW listing pools interchangeable units; a USED_LIKE_NEW listing is   *)
(* one physical item with a lifecycle.  Each administrator operation is    *)
(* one database transaction on a listing row, so it is one action here;    *)
(* the order operations use the four *Items operators, the statements that *)
(* an order transaction runs for each of its lines.                        *)
(***************************************************************************)
EXTENDS Integers, FiniteSets

CONSTANTS NewListings,    \* listings with condition NEW
          UsedListings,   \* ids a USED_LIKE_NEW listing may be created under
          ProductOf,      \* the LegoProduct of each listing
          OpeningStock,   \* currentStock a NEW listing is created with
          MaxStock        \* largest value of the INTEGER column currentStock

Listings == NewListings \union UsedListings

ASSUME InventoryAssumption ==
  /\ NewListings \intersect UsedListings = {}
  /\ MaxStock \in Nat \ {0}
  /\ OpeningStock \in [NewListings -> 0..MaxStock]

VARIABLES currentStock,    \* units on the shelf, per listing
          reservedStock,   \* units promised to PENDING orders
          usedLifecycle,   \* "NONE" for NEW; "ABSENT" before a Used listing exists
          active,          \* listing offered to customers
          reactivating,    \* reactivation handlers past their lifecycle check
          orderMovements,  \* sum of InventoryMovement rows written for orders
          adminMovements   \* sum of InventoryMovement rows written by staff

stockVars == <<currentStock, reservedStock, usedLifecycle, active,
               reactivating, orderMovements, adminMovements>>

UsedLifecycles == {"ABSENT", "AVAILABLE", "SOLD", "RETIRED"}

InventoryTypeOK ==
  /\ currentStock \in [Listings -> 0..MaxStock]
  /\ reservedStock \in [Listings -> 0..MaxStock]
  /\ usedLifecycle \in [Listings -> UsedLifecycles \union {"NONE"}]
  /\ active \in [Listings -> BOOLEAN]
  /\ reactivating \in SUBSET UsedListings
  /\ orderMovements \in [Listings -> Int]
  /\ adminMovements \in [Listings -> Int]

InventoryInit ==
  /\ currentStock = [l \in Listings |-> IF l \in NewListings THEN OpeningStock[l] ELSE 0]
  /\ reservedStock = [l \in Listings |-> 0]
  /\ usedLifecycle = [l \in Listings |-> IF l \in NewListings THEN "NONE" ELSE "ABSENT"]
  /\ active = [l \in Listings |-> l \in NewListings]
  /\ reactivating = {}
  /\ orderMovements = [l \in Listings |-> 0]
  /\ adminMovements = [l \in Listings |-> 0]

Exists(l) == usedLifecycle[l] # "ABSENT"
Sellable(l) == usedLifecycle[l] \in {"NONE", "AVAILABLE"}

-----------------------------------------------------------------------------
(* The statements of an order transaction.  basket[l] is the quantity of    *)
(* the line for listing l, 0 when the order has no such line.               *)

Lines(basket) == {l \in Listings : basket[l] > 0}

\* Slip: the reserve statement compares with the shelf, not with what is left of it.
ReserveFromShelf(basket) ==
  /\ \A l \in Lines(basket) : Sellable(l) /\ currentStock[l] >= basket[l]
  /\ reservedStock' = [l \in Listings |-> reservedStock[l] + basket[l]]
  /\ UNCHANGED <<currentStock, usedLifecycle, active, reactivating,
                 orderMovements, adminMovements>>

\* createOrder, one conditional UPDATE per line: all succeed or all roll back.
ReserveItems(basket) ==
  /\ \A l \in Lines(basket) : Sellable(l) /\ reservedStock[l] <= currentStock[l] - basket[l]
  /\ reservedStock' = [l \in Listings |-> reservedStock[l] + basket[l]]
  /\ UNCHANGED <<currentStock, usedLifecycle, active, reactivating,
                 orderMovements, adminMovements>>

\* Expiry, and cancellation of a PENDING order.
ReleaseItems(basket) ==
  /\ \A l \in Lines(basket) : reservedStock[l] >= basket[l]
  /\ reservedStock' = [l \in Listings |-> reservedStock[l] - basket[l]]
  /\ UNCHANGED <<currentStock, usedLifecycle, active, reactivating,
                 orderMovements, adminMovements>>

\* Confirmation turns the reservation into a WEBSITE_SALE movement.
SellItems(basket) ==
  /\ \A l \in Lines(basket) :
       /\ currentStock[l] >= basket[l]
       /\ reservedStock[l] >= basket[l]
       /\ Sellable(l) /\ (l \in UsedListings => basket[l] = 1)
  /\ currentStock' = [l \in Listings |-> currentStock[l] - basket[l]]
  /\ reservedStock' = [l \in Listings |-> reservedStock[l] - basket[l]]
  /\ usedLifecycle' = [l \in Listings |-> IF l \in Lines(basket) \intersect UsedListings
                                          THEN "SOLD" ELSE usedLifecycle[l]]
  /\ orderMovements' = [l \in Listings |-> orderMovements[l] - basket[l]]
  /\ UNCHANGED <<active, reactivating, adminMovements>>

\* Slip: every line goes back on the shelf, the sold physical item too.
ReturnEverything(basket) == basket

\* What an order returns to the pool: a consumed Used item never is.
Poolable(basket) == [l \in Listings |-> IF l \in NewListings THEN basket[l] ELSE 0]

\* Slip: stock comes back without its movement.
TakeBackSilently(basket) ==
  /\ \A l \in Listings : currentStock[l] + Poolable(basket)[l] <= MaxStock
  /\ currentStock' = [l \in Listings |-> currentStock[l] + Poolable(basket)[l]]
  /\ UNCHANGED <<reservedStock, usedLifecycle, active, reactivating,
                 orderMovements, adminMovements>>

\* Cancellation of a CONFIRMED order: ORDER_CANCELLATION_RETURN movements.
\* An increment past the column's range raises and rolls back.
TakeBackItems(basket) ==
  /\ \A l \in Listings : currentStock[l] + Poolable(basket)[l] <= MaxStock
  /\ currentStock' = [l \in Listings |-> currentStock[l] + Poolable(basket)[l]]
  /\ orderMovements' = [l \in Listings |-> orderMovements[l] + Poolable(basket)[l]]
  /\ UNCHANGED <<reservedStock, usedLifecycle, active, reactivating, adminMovements>>

-----------------------------------------------------------------------------
(* Administrator operations.                                               *)

\* A Used offer whose stock reaches zero is retired by the same UPDATE.
SetStock(l, stock) ==
  /\ currentStock' = [currentStock EXCEPT ![l] = stock]
  /\ usedLifecycle' = [usedLifecycle EXCEPT ![l] =
                         IF l \in UsedListings /\ stock = 0 THEN "RETIRED" ELSE @]
  /\ adminMovements' = [adminMovements EXCEPT ![l] = @ + stock - currentStock[l]]
  /\ UNCHANGED <<reservedStock, active, reactivating, orderMovements>>

\* Slip: an adjustment that forgets the reservations, and one with no floor at all.
AdjustPastReservations(l, quantity) ==
  /\ Exists(l) /\ quantity # 0
  /\ l \in UsedListings => usedLifecycle[l] = "AVAILABLE" /\ quantity < 0
  /\ currentStock[l] + quantity \in 0..MaxStock
  /\ SetStock(l, currentStock[l] + quantity)

AdjustBelowZero(l, quantity) ==
  /\ Exists(l) /\ quantity # 0
  /\ l \in UsedListings => quantity < 0
  /\ currentStock[l] + quantity <= MaxStock
  /\ SetStock(l, currentStock[l] + quantity)

AdjustInventory(l, quantity) ==
  /\ Exists(l) /\ quantity # 0
  /\ l \in UsedListings => usedLifecycle[l] = "AVAILABLE" /\ quantity < 0
  /\ currentStock[l] + quantity \in reservedStock[l]..MaxStock
  /\ SetStock(l, currentStock[l] + quantity)

ReconcileStocktake(l, actualStock) ==
  /\ Exists(l)
  /\ l \in UsedListings =>
       /\ actualStock <= 1
       /\ usedLifecycle[l] # "AVAILABLE" => actualStock = 0
  /\ actualStock >= reservedStock[l]
  /\ actualStock # currentStock[l]
  /\ SetStock(l, actualStock)

\* Slip: damage is written off a unit some customer already reserved.
WriteOffReserved(l, quantity) ==
  /\ Exists(l) /\ quantity > 0
  /\ l \in UsedListings => usedLifecycle[l] = "AVAILABLE" /\ quantity = 1
  /\ currentStock[l] >= quantity
  /\ SetStock(l, currentStock[l] - quantity)

WriteOffInventory(l, quantity) ==
  /\ Exists(l) /\ quantity > 0
  /\ l \in UsedListings => usedLifecycle[l] = "AVAILABLE" /\ quantity = 1
  /\ currentStock[l] - quantity >= reservedStock[l]
  /\ SetStock(l, currentStock[l] - quantity)

\* At most one sellable Used offer per product, checked under the product lock.
NoUsedOfferInStock(product) ==
  \A u \in UsedListings : ProductOf[u] = product => currentStock[u] # 1

CreateUsedOffer(u) ==
  /\ u \in UsedListings /\ ~Exists(u)
  /\ NoUsedOfferInStock(ProductOf[u])
  /\ currentStock' = [currentStock EXCEPT ![u] = 1]
  /\ usedLifecycle' = [usedLifecycle EXCEPT ![u] = "AVAILABLE"]
  /\ active' = [active EXCEPT ![u] = TRUE]
  /\ adminMovements' = [adminMovements EXCEPT ![u] = @ + 1]
  /\ UNCHANGED <<reservedStock, reactivating, orderMovements>>

ConvertToUsedOffer(source, u) ==
  /\ u \in UsedListings /\ ~Exists(u)
  /\ NoUsedOfferInStock(ProductOf[u])
  /\ source \in NewListings /\ ProductOf[source] = ProductOf[u]
  /\ currentStock[source] - reservedStock[source] >= 1
  /\ currentStock' = [currentStock EXCEPT ![source] = @ - 1, ![u] = 1]
  /\ usedLifecycle' = [usedLifecycle EXCEPT ![u] = "AVAILABLE"]
  /\ active' = [active EXCEPT ![u] = TRUE]
  /\ adminMovements' = [adminMovements EXCEPT ![source] = @ - 1, ![u] = @ + 1]
  /\ UNCHANGED <<reservedStock, reactivating, orderMovements>>

DeactivateProduct(l) ==
  /\ Exists(l)
  /\ active' = [active EXCEPT ![l] = FALSE]
  /\ UNCHANGED <<currentStock, reservedStock, usedLifecycle, reactivating,
                 orderMovements, adminMovements>>

\* Reactivation reads the row and updates it in two statements without a
\* transaction: the offer may be sold or retired in between.
CheckReactivation(u) ==
  /\ usedLifecycle[u] = "AVAILABLE"
  /\ reactivating' = reactivating \union {u}
  /\ UNCHANGED <<currentStock, reservedStock, usedLifecycle, active,
                 orderMovements, adminMovements>>

\* What the check reads of a NEW listing never changes.
ReactivateProduct(l) ==
  /\ l \in NewListings \union reactivating
  /\ active' = [active EXCEPT ![l] = TRUE]
  /\ reactivating' = reactivating \ {l}
  /\ UNCHANGED <<currentStock, reservedStock, usedLifecycle, orderMovements, adminMovements>>

InventoryNext ==
  \/ \E l \in Listings, q \in -MaxStock..MaxStock : AdjustInventory(l, q)
  \/ \E l \in Listings, q \in 0..MaxStock : ReconcileStocktake(l, q)
  \/ \E l \in Listings, q \in 1..MaxStock : WriteOffInventory(l, q)
  \/ \E u \in UsedListings : CreateUsedOffer(u)
  \/ \E s \in NewListings, u \in UsedListings : ConvertToUsedOffer(s, u)
  \/ \E l \in Listings : DeactivateProduct(l)
  \/ \E u \in UsedListings : CheckReactivation(u)
  \/ \E l \in Listings : ReactivateProduct(l)
=============================================================================
