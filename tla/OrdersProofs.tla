----------------------------- MODULE OrdersProofs -----------------------------
(***************************************************************************)
(* What holds of Orders for every set of listings, orders and requests.    *)
(* Type correctness comes first, then the inductive invariant IInv: the    *)
(* facts about stock, used items and deadlines that each order transaction *)
(* relies on when it assumes its conditional UPDATEs succeed.              *)
(***************************************************************************)
EXTENDS Orders, FiniteSetTheorems, TLAPS

USE InventoryAssumption, OrdersAssumption

-----------------------------------------------------------------------------
(* Type correctness.                                                       *)

LEMMA InitType == Init => TypeOK
BY DEF Init, InventoryInit, TypeOK, InventoryTypeOK, Baskets, EmptyBasket, IdleRequest,
       NoDeadline, UsedLifecycles, Listings

\* The statements an order transaction runs keep the listing rows well typed.
LEMMA ItemsType ==
  ASSUME TypeOK, NEW basket \in Baskets,
         \/ ReserveItems(basket)
         \/ ReleaseItems(basket)
         \/ SellItems(basket)
         \/ TakeBackItems(basket)
  PROVE  InventoryTypeOK'
<1> USE DEF TypeOK, InventoryTypeOK, Baskets, Lines
<1>1. CASE ReserveItems(basket)
  <2>1. \A l \in Listings : reservedStock[l] + basket[l] \in 0..MaxStock
    BY <1>1 DEF ReserveItems
  <2> QED BY <1>1, <2>1 DEF ReserveItems
<1>2. CASE ReleaseItems(basket)
  <2>1. \A l \in Listings : reservedStock[l] - basket[l] \in 0..MaxStock
    BY <1>2 DEF ReleaseItems
  <2> QED BY <1>2, <2>1 DEF ReleaseItems
<1>3. CASE SellItems(basket)
  <2>1. \A l \in Listings : /\ currentStock[l] - basket[l] \in 0..MaxStock
                            /\ reservedStock[l] - basket[l] \in 0..MaxStock
                            /\ orderMovements[l] - basket[l] \in Int
    BY <1>3 DEF SellItems
  <2>2. usedLifecycle' \in [Listings -> UsedLifecycles \union {"NONE"}]
    BY <1>3 DEF SellItems, UsedLifecycles
  <2> QED BY <1>3, <2>1, <2>2 DEF SellItems
<1>4. CASE TakeBackItems(basket)
  BY <1>4 DEF TakeBackItems, Poolable
<1> QED BY <1>1, <1>2, <1>3, <1>4

LEMMA SetStockType ==
  ASSUME InventoryTypeOK, NEW l \in Listings, NEW stock \in 0..MaxStock, SetStock(l, stock)
  PROVE  InventoryTypeOK'
BY DEF SetStock, InventoryTypeOK, UsedLifecycles

LEMMA InventoryType == InventoryTypeOK /\ InventoryNext => InventoryTypeOK'
<1> SUFFICES ASSUME InventoryTypeOK, InventoryNext PROVE InventoryTypeOK'
  OBVIOUS
<1>1. ASSUME NEW l \in Listings, NEW q \in -MaxStock..MaxStock, AdjustInventory(l, q)
      PROVE InventoryTypeOK'
  <2>1. currentStock[l] + q \in 0..MaxStock
    BY <1>1 DEF AdjustInventory, InventoryTypeOK
  <2> QED BY <1>1, <2>1, SetStockType DEF AdjustInventory
<1>2. ASSUME NEW l \in Listings, NEW q \in 0..MaxStock, ReconcileStocktake(l, q)
      PROVE InventoryTypeOK'
  BY <1>2, SetStockType DEF ReconcileStocktake
<1>3. ASSUME NEW l \in Listings, NEW q \in 1..MaxStock, WriteOffInventory(l, q)
      PROVE InventoryTypeOK'
  <2>1. currentStock[l] - q \in 0..MaxStock
    BY <1>3 DEF WriteOffInventory, InventoryTypeOK
  <2> QED BY <1>3, <2>1, SetStockType DEF WriteOffInventory
<1>4. ASSUME NEW u \in UsedListings, CreateUsedOffer(u)
      PROVE InventoryTypeOK'
  BY <1>4 DEF CreateUsedOffer, InventoryTypeOK, UsedLifecycles, Listings
<1>5. ASSUME NEW s \in NewListings, NEW u \in UsedListings, ConvertToUsedOffer(s, u)
      PROVE InventoryTypeOK'
  BY <1>5 DEF ConvertToUsedOffer, InventoryTypeOK, UsedLifecycles, Listings
<1>6. ASSUME NEW l \in Listings, DeactivateProduct(l) \/ ReactivateProduct(l)
      PROVE InventoryTypeOK'
  BY <1>6 DEF DeactivateProduct, ReactivateProduct, InventoryTypeOK
<1>7. ASSUME NEW u \in UsedListings, CheckReactivation(u)
      PROVE InventoryTypeOK'
  BY <1>7 DEF CheckReactivation, InventoryTypeOK
<1> QED BY <1>1, <1>2, <1>3, <1>4, <1>5, <1>6, <1>7 DEF InventoryNext

\* A step of one order, of one request, of staff or of the clock.
LEMMA OrderType ==
  ASSUME TypeOK, NEW o \in OrderIds,
         OrderNext(o) \/ CreatePayment(o) \/ ExpireOrderReservation(o)
  PROVE  /\ InventoryTypeOK'
         /\ status' \in [OrderIds -> OrderStatuses \union {"NONE"}]
         /\ items' \in [OrderIds -> Baskets]
         /\ expiresAt' \in [OrderIds -> Nat \union {NoDeadline}]
         /\ payment' \in [OrderIds -> PaymentStatuses \union {"NONE"}]
         /\ key' \in [OrderIds -> Keys \union {NoKey}]
<1> USE DEF OrderStatuses, PaymentStatuses
<1>0. items[o] \in Baskets
  BY DEF TypeOK
<1>1. CASE ConfirmOrder(o)
  BY <1>0, <1>1, ItemsType DEF ConfirmOrder, ConfirmOrderInTransaction, TypeOK
<1>2. CASE CancelOrder(o)
  BY <1>0, <1>2, ItemsType DEF CancelOrder, TypeOK
<1>3. CASE DispatchOrder(o) \/ CompleteOrder(o) \/ CreatePayment(o)
  BY <1>3 DEF DispatchOrder, CompleteOrder, CreatePayment, TypeOK, InventoryTypeOK, stockVars
<1>4. CASE ExpireOrderReservation(o)
  BY <1>0, <1>4, ItemsType DEF ExpireOrderReservation, TypeOK
<1> QED BY <1>1, <1>2, <1>3, <1>4 DEF OrderNext

LEMMA NextType == TypeOK /\ [Next]_vars => TypeOK'
<1> SUFFICES ASSUME TypeOK, [Next]_vars PROVE TypeOK'
  OBVIOUS
<1> USE DEF TypeOK
<1>1. ASSUME NEW r \in Requests, NEW basket \in Baskets, NEW k \in Keys \union {NoKey},
             BeginCreateOrder(r, basket, k)
      PROVE TypeOK'
  BY <1>1 DEF BeginCreateOrder, stockVars, orderVars, InventoryTypeOK
<1>2. ASSUME NEW r \in Requests, FindExpiredCandidates(r)
      PROVE TypeOK'
  <2>1. ExpiredCandidates(r) \in SUBSET OrderIds
    BY DEF ExpiredCandidates
  <2>2. request' \in [Requests -> [phase : {"idle", "started", "expiring"}, at : Nat,
                                   items : Baskets, key : Keys \union {NoKey},
                                   candidates : SUBSET OrderIds]]
    BY <1>2, <2>1, ZenonT(60) DEF FindExpiredCandidates
  <2> QED BY <1>2, <2>2 DEF FindExpiredCandidates, stockVars, orderVars, InventoryTypeOK
<1>3. ASSUME NEW r \in Requests, NEW o \in OrderIds, ExpireCandidate(r, o)
      PROVE TypeOK'
  <2>1. request' \in [Requests -> [phase : {"idle", "started", "expiring"}, at : Nat,
                                   items : Baskets, key : Keys \union {NoKey},
                                   candidates : SUBSET OrderIds]]
    BY <1>3 DEF ExpireCandidate
  <2>2. CASE ExpireOrderReservation(o)
    BY <1>3, <2>1, <2>2, OrderType DEF ExpireCandidate
  <2>3. CASE UNCHANGED <<stockVars, orderVars>>
    BY <1>3, <2>1, <2>3 DEF ExpireCandidate, stockVars, orderVars, InventoryTypeOK
  <2> QED BY <1>3, <2>2, <2>3 DEF ExpireCandidate
<1>4. ASSUME NEW r \in Requests, NEW o \in OrderIds, CreateOrder(r, o)
      PROVE TypeOK'
  <2>1. InventoryTypeOK'
    BY <1>4, ItemsType DEF CreateOrder
  <2> QED BY <1>4, <2>1 DEF CreateOrder, OrderStatuses, IdleRequest, EmptyBasket, Baskets
<1>5. ASSUME NEW r \in Requests, EndCreateOrder(r)
      PROVE TypeOK'
  BY <1>5 DEF EndCreateOrder, stockVars, orderVars, InventoryTypeOK, IdleRequest, EmptyBasket, Baskets
<1>6. ASSUME NEW o \in OrderIds, OrderNext(o) \/ CreatePayment(o), UNCHANGED <<request, clock>>
      PROVE TypeOK'
  BY <1>6, OrderType
<1>7. CASE InventoryNext /\ UNCHANGED <<orderVars, request, clock>>
  BY <1>7, InventoryType DEF orderVars
<1>8. CASE Tick
  BY <1>8 DEF Tick, stockVars, orderVars, InventoryTypeOK
<1>9. CASE UNCHANGED vars
  BY <1>9 DEF vars, stockVars, orderVars, InventoryTypeOK
<1> QED BY <1>1, <1>2, <1>3, <1>4, <1>5, <1>6, <1>7, <1>8, <1>9 DEF Next, OrderSystem

\* Every variable keeps its type: no handler leaves a row, a request or a
\* counter outside the values the columns can hold.
THEOREM TypeCorrect == Spec => []TypeOK
BY InitType, NextType, PTL DEF Spec

-----------------------------------------------------------------------------
(* Counting units.  A sum over orders is the size of a set of pairs, so a  *)
(* status change adds or removes exactly the units of one order.           *)

LEMMA UnitsFinite ==
  ASSUME NEW quantity, NEW orders \in SUBSET OrderIds, NEW l
  PROVE  IsFiniteSet(Units(quantity, orders, l))
<1>1. IsFiniteSet(orders)
  BY FS_Subset
<1>2. IsFiniteSet(1..MaxQuantity)
  BY FS_Interval
<1>3. IsFiniteSet(orders \X (1..MaxQuantity))
  BY <1>1, <1>2, FS_Product
<1>4. Units(quantity, orders, l) \in SUBSET (orders \X (1..MaxQuantity))
  BY DEF Units
<1> QED BY <1>3, <1>4, FS_Subset

LEMMA UnitsOfOne ==
  ASSUME NEW quantity, NEW o, NEW l, NEW n \in 0..MaxQuantity, quantity[o][l] = n
  PROVE  Cardinality(Units(quantity, {o}, l)) = n
<1>1. Units(quantity, {o}, l) = {o} \X (1..n)
  <2>1. ASSUME NEW unit \in {o} \X (1..MaxQuantity)
        PROVE  unit[2] <= quantity[unit[1]][l] <=> unit \in {o} \X (1..n)
    OBVIOUS
  <2>2. {o} \X (1..n) \subseteq {o} \X (1..MaxQuantity)
    OBVIOUS
  <2> QED BY <2>1, <2>2 DEF Units
<1>2. IsFiniteSet({o}) /\ Cardinality({o}) = 1
  BY FS_Singleton
<1>3. IsFiniteSet(1..n) /\ Cardinality(1..n) = n
  BY FS_Interval
<1>4. Cardinality({o} \X (1..n)) = Cardinality({o}) * Cardinality(1..n)
  BY <1>2, <1>3, FS_Product, Zenon
<1>5. Cardinality({o}) * Cardinality(1..n) = n
  <2> DEFINE one == Cardinality({o})
             many == Cardinality(1..n)
  <2>1. one = 1 /\ many = n
    BY <1>2, <1>3
  <2> HIDE DEF one, many
  <2>2. one * many = n
    BY <2>1
  <2> QED BY <2>2 DEF one, many
<1> QED BY <1>1, <1>4, <1>5, Zenon

Agree(before, after, orders) == \A o \in orders : after[o] = before[o]

\* The units of other orders do not depend on what a new order asks for.
LEMMA UnitsSame ==
  ASSUME NEW before, NEW after, NEW orders, NEW l, Agree(before, after, orders)
  PROVE  Units(after, orders, l) = Units(before, orders, l)
BY DEF Units, Agree

\* An order that joins a set brings its units, and takes them when it leaves.
LEMMA UnitsAdd ==
  ASSUME NEW before, NEW after, NEW orders \in SUBSET OrderIds, NEW o \in OrderIds, o \notin orders,
         Agree(before, after, orders), NEW l, NEW n \in 0..MaxQuantity, after[o][l] = n
  PROVE  Cardinality(Units(after, orders \union {o}, l))
           = Cardinality(Units(before, orders, l)) + n
<1> DEFINE A == Units(before, orders, l)
           B == Units(after, {o}, l)
           C == Units(after, orders \union {o}, l)
<1>1. C = A \union B /\ A \intersect B = {}
  <2>1. A = Units(after, orders, l)
    BY UnitsSame
  <2> QED BY <2>1 DEF Units
<1>2. IsFiniteSet(A) /\ IsFiniteSet(B)
  BY UnitsFinite
<1>3. Cardinality(B) = n
  BY UnitsOfOne, Zenon
<1>4. Cardinality(C) = Cardinality(A) + n
  <2> HIDE DEF A, B, C
  <2>1. Cardinality(A \union B) = Cardinality(A) + Cardinality(B) - Cardinality(A \intersect B)
    BY <1>2, FS_Union, Zenon
  <2>2. Cardinality(A) \in Nat
    BY <1>2, FS_CardinalityType
  <2>3. Cardinality(A \intersect B) = 0
    BY <1>1, FS_EmptySet, Zenon
  <2>4. Cardinality(C) = Cardinality(A \union B)
    BY <1>1, Zenon
  <2> QED BY <1>3, <2>1, <2>2, <2>3, <2>4
<1> QED BY <1>4

LEMMA UnitsRemove ==
  ASSUME NEW quantity, NEW orders \in SUBSET OrderIds, NEW o \in orders,
         NEW l, NEW n \in 0..MaxQuantity, quantity[o][l] = n
  PROVE  /\ Cardinality(Units(quantity, orders \ {o}, l))
               = Cardinality(Units(quantity, orders, l)) - n
         /\ Cardinality(Units(quantity, orders, l)) >= n
<1> DEFINE rest == orders \ {o}
<1>1. /\ rest \in SUBSET OrderIds /\ o \in OrderIds /\ o \notin rest
      /\ rest \union {o} = orders
  OBVIOUS
<1> HIDE DEF rest
<1>2. Cardinality(Units(quantity, rest \union {o}, l)) = Cardinality(Units(quantity, rest, l)) + n
  <2>1. Agree(quantity, quantity, rest)
    BY DEF Agree
  <2> QED BY <1>1, <2>1, UnitsAdd, SMTT(30)
<1>3. Cardinality(Units(quantity, rest, l)) \in Nat
  BY <1>1, UnitsFinite, FS_CardinalityType, Zenon
<1>4. Units(quantity, rest \union {o}, l) = Units(quantity, orders, l)
  BY <1>1, Zenon
<1>5. /\ Cardinality(Units(quantity, rest, l)) = Cardinality(Units(quantity, orders, l)) - n
      /\ Cardinality(Units(quantity, orders, l)) >= n
  BY <1>2, <1>3, <1>4
<1> QED BY <1>5 DEF rest

-----------------------------------------------------------------------------
(* What a step does to the stock.  Whoever confirms, cancels or expires an *)
(* order, and whatever happens to its payment, there are five ways to move *)
(* it and its units together; everything about stock follows from these.   *)

MovesTo(o, s) == status' = [status EXCEPT ![o] = s] /\ UNCHANGED items

Places(o) ==
  /\ status[o] = "NONE"
  /\ items'[o] \in Baskets
  /\ items' = [items EXCEPT ![o] = items'[o]]
  /\ ReserveItems(items'[o])
  /\ status' = [status EXCEPT ![o] = "PENDING"]

Withdraws(o) ==
  /\ status[o] = "PENDING"
  /\ ReleaseItems(items[o])
  /\ MovesTo(o, "CANCELLED") \/ MovesTo(o, "EXPIRED")

Sells(o) ==
  /\ status[o] = "PENDING"
  /\ SellItems(items[o])
  /\ MovesTo(o, "CONFIRMED")

TakesBack(o) ==
  /\ status[o] = "CONFIRMED"
  /\ TakeBackItems(items[o])
  /\ MovesTo(o, "CANCELLED")

Ships(o) ==
  /\ UNCHANGED stockVars
  /\ \/ status[o] = "CONFIRMED" /\ MovesTo(o, "DISPATCHED")
     \/ status[o] = "DISPATCHED" /\ MovesTo(o, "COMPLETED")

OrderEffect(o) == Places(o) \/ Withdraws(o) \/ Sells(o) \/ TakesBack(o) \/ Ships(o)

Effect ==
  \/ UNCHANGED <<stockVars, status, items>>
  \/ InventoryNext /\ UNCHANGED <<status, items>>
  \/ \E o \in OrderIds : OrderEffect(o)

LEMMA CreateEffect ==
  ASSUME TypeOK, NEW r \in Requests, NEW o \in OrderIds, CreateOrder(r, o)
  PROVE  Places(o)
<1>1. request[r].items \in Baskets /\ items'[o] = request[r].items
  BY DEF TypeOK, CreateOrder
<1> QED BY <1>1 DEF CreateOrder, Places

LEMMA ExpireEffect ==
  ASSUME NEW o \in OrderIds, status[o] = "PENDING", ExpireOrderReservation(o)
  PROVE  Withdraws(o)
BY DEF ExpireOrderReservation, Withdraws, MovesTo

LEMMA OrderNextEffect ==
  ASSUME NEW o \in OrderIds, OrderNext(o)
  PROVE  OrderEffect(o)
<1>1. CASE ConfirmOrder(o)
  BY <1>1 DEF ConfirmOrder, ConfirmOrderInTransaction, OrderEffect, Sells, MovesTo
<1>2. CASE CancelOrder(o)
  BY <1>2 DEF CancelOrder, OrderEffect, Withdraws, TakesBack, MovesTo
<1>3. CASE DispatchOrder(o) \/ CompleteOrder(o)
  BY <1>3 DEF DispatchOrder, CompleteOrder, OrderEffect, Ships, MovesTo
<1> QED BY <1>1, <1>2, <1>3 DEF OrderNext

LEMMA SystemEffect == TypeOK /\ OrderSystem => Effect
<1> SUFFICES ASSUME TypeOK, OrderSystem PROVE Effect
  OBVIOUS
<1>1. ASSUME NEW r \in Requests, NEW o \in OrderIds, CreateOrder(r, o)
      PROVE  Effect
  BY <1>1, CreateEffect DEF Effect, OrderEffect
<1>2. ASSUME NEW r \in Requests, NEW o \in OrderIds, ExpireCandidate(r, o)
      PROVE  Effect
  <2>1. CASE Expirable(o, request[r].at)
    BY <1>2, <2>1, ExpireEffect DEF ExpireCandidate, Expirable, Effect, OrderEffect
  <2>2. CASE ~Expirable(o, request[r].at)
    BY <1>2, <2>2 DEF ExpireCandidate, Effect, orderVars
  <2> QED BY <2>1, <2>2
<1>3. ASSUME NEW o \in OrderIds, OrderNext(o) PROVE Effect
  BY <1>3, OrderNextEffect DEF Effect
<1>4. CASE InventoryNext /\ UNCHANGED <<orderVars, request, clock>>
  BY <1>4 DEF Effect, orderVars
<1>5. ASSUME NEW r \in Requests, NEW basket \in Baskets, NEW k \in Keys \union {NoKey},
             BeginCreateOrder(r, basket, k)
      PROVE  Effect
  BY <1>5 DEF BeginCreateOrder, Effect, orderVars
<1>6. ASSUME NEW r \in Requests, FindExpiredCandidates(r) \/ EndCreateOrder(r)
      PROVE  Effect
  BY <1>6 DEF FindExpiredCandidates, EndCreateOrder, Effect, orderVars
<1>7. CASE Tick
  BY <1>7 DEF Tick, Effect, orderVars
<1> QED BY <1>1, <1>2, <1>3, <1>4, <1>5, <1>6, <1>7 DEF OrderSystem

LEMMA NextEffect == TypeOK /\ [Next]_vars => Effect
<1> SUFFICES ASSUME TypeOK, [Next]_vars PROVE Effect
  OBVIOUS
<1>1. ASSUME NEW o \in OrderIds, CreatePayment(o) PROVE Effect
  BY <1>1 DEF CreatePayment, Effect
<1>2. CASE UNCHANGED vars
  BY <1>2 DEF vars, orderVars, Effect
<1> QED BY <1>1, <1>2, SystemEffect DEF Next

-----------------------------------------------------------------------------
(* The inductive invariant.  NoOversell alone is not inductive: creating a *)
(* Used offer sets its stock to 1, which is safe only because an absent    *)
(* offer has no stock and hence no reservation (UsedOfferConsistent).      *)
(* PendingConfirmable needs ReservedBacked: a PENDING order's quantity is  *)
(* part of reservedStock, which is part of currentStock.                   *)

StockInv == NoOversell /\ UsedOfferConsistent
IInv == TypeOK /\ StockInv /\ LedgerExplainsStock /\ ReservedBacked

LEMMA InitIInv == Init => IInv
<1> SUFFICES ASSUME Init PROVE StockInv /\ LedgerExplainsStock /\ ReservedBacked
  BY InitType DEF IInv
<1>1. StockInv
  BY DEF Init, InventoryInit, StockInv, NoOversell, UsedOfferConsistent, Listings
<1>6. LedgerExplainsStock
  BY DEF Init, InventoryInit, LedgerExplainsStock, Listings
<1>2. Pending = {}
  BY DEF Init, Pending
<1>3. \A l : Units(items, Pending, l) = {}
  BY <1>2 DEF Units
<1>4. \A l \in Listings : reservedStock[l] = 0
  BY DEF Init, InventoryInit
<1>5. ReservedBacked
  BY <1>3, <1>4, FS_EmptySet DEF ReservedBacked
<1> QED BY <1>1, <1>5, <1>6

LEMMA ItemsStock ==
  ASSUME TypeOK, StockInv, NEW basket \in Baskets,
         \/ ReserveItems(basket)
         \/ ReleaseItems(basket)
         \/ SellItems(basket)
         \/ TakeBackItems(basket)
  PROVE  StockInv'
<1> USE DEF TypeOK, InventoryTypeOK, StockInv, NoOversell, UsedOfferConsistent, Baskets, Lines, Listings
<1>1. CASE ReserveItems(basket)
  BY <1>1 DEF ReserveItems
<1>2. CASE ReleaseItems(basket)
  BY <1>2 DEF ReleaseItems
<1>3. CASE SellItems(basket)
  <2>1. NoOversell'
    BY <1>3 DEF SellItems
  <2>2. ASSUME NEW u \in UsedListings, basket[u] > 0
        PROVE  /\ usedLifecycle[u] = "AVAILABLE" /\ basket[u] = 1
               /\ usedLifecycle'[u] = "SOLD"
               /\ currentStock'[u] = 0 /\ orderMovements'[u] = -1
    BY <1>3, <2>2 DEF SellItems, Sellable
  <2>3. ASSUME NEW u \in UsedListings, ~(basket[u] > 0)
        PROVE  /\ usedLifecycle'[u] = usedLifecycle[u]
               /\ currentStock'[u] = currentStock[u] /\ orderMovements'[u] = orderMovements[u]
    BY <1>3, <2>3 DEF SellItems
  <2>4. UsedOfferConsistent'
    BY <2>2, <2>3
  <2> QED BY <2>1, <2>4
<1>4. CASE TakeBackItems(basket)
  BY <1>4 DEF TakeBackItems, Poolable
<1> QED BY <1>1, <1>2, <1>3, <1>4

LEMMA InventoryStock == InventoryTypeOK /\ StockInv /\ InventoryNext => StockInv'
<1> SUFFICES ASSUME InventoryTypeOK, StockInv, InventoryNext PROVE StockInv'
  OBVIOUS
<1> USE DEF InventoryTypeOK, StockInv, NoOversell, UsedOfferConsistent, Listings, UsedLifecycles
<1>1. ASSUME NEW l \in Listings, NEW q \in -MaxStock..MaxStock, AdjustInventory(l, q)
      PROVE StockInv'
  BY <1>1 DEF AdjustInventory, SetStock
<1>2. ASSUME NEW l \in Listings, NEW q \in 0..MaxStock, ReconcileStocktake(l, q)
      PROVE StockInv'
  BY <1>2 DEF ReconcileStocktake, SetStock
<1>3. ASSUME NEW l \in Listings, NEW q \in 1..MaxStock, WriteOffInventory(l, q)
      PROVE StockInv'
  BY <1>3 DEF WriteOffInventory, SetStock
<1>4. ASSUME NEW u \in UsedListings, CreateUsedOffer(u)
      PROVE StockInv'
  BY <1>4 DEF CreateUsedOffer, Exists, NoUsedOfferInStock
<1>5. ASSUME NEW s \in NewListings, NEW u \in UsedListings, ConvertToUsedOffer(s, u)
      PROVE StockInv'
  BY <1>5 DEF ConvertToUsedOffer, Exists, NoUsedOfferInStock
<1>6. ASSUME NEW l \in Listings, DeactivateProduct(l) \/ ReactivateProduct(l)
      PROVE StockInv'
  BY <1>6 DEF DeactivateProduct, ReactivateProduct
<1>7. ASSUME NEW u \in UsedListings, CheckReactivation(u)
      PROVE StockInv'
  BY <1>7 DEF CheckReactivation
<1> QED BY <1>1, <1>2, <1>3, <1>4, <1>5, <1>6, <1>7 DEF InventoryNext

\* A step that leaves the listing rows alone leaves StockInv alone.
LEMMA UnchangedStock == StockInv /\ UNCHANGED stockVars => StockInv'
BY DEF StockInv, NoOversell, UsedOfferConsistent, stockVars

\* Every statement that moves stock writes the movement that explains it.
LEMMA ItemsLedger ==
  ASSUME TypeOK, LedgerExplainsStock, NEW basket \in Baskets,
         \/ ReserveItems(basket)
         \/ ReleaseItems(basket)
         \/ SellItems(basket)
         \/ TakeBackItems(basket)
  PROVE  LedgerExplainsStock'
<1> USE DEF TypeOK, InventoryTypeOK, LedgerExplainsStock, Baskets, Listings
<1>1. CASE ReserveItems(basket) \/ ReleaseItems(basket)
  BY <1>1 DEF ReserveItems, ReleaseItems
<1>2. CASE SellItems(basket)
  BY <1>2 DEF SellItems
<1>3. CASE TakeBackItems(basket)
  <2> DEFINE pooled == Poolable(basket)
  <2>1. \A l \in Listings : pooled[l] \in Int
    BY DEF Poolable
  <2>2. /\ currentStock' = [l \in Listings |-> currentStock[l] + pooled[l]]
        /\ orderMovements' = [l \in Listings |-> orderMovements[l] + pooled[l]]
        /\ adminMovements' = adminMovements
    BY <1>3 DEF TakeBackItems
  <2> HIDE DEF pooled
  <2>3. ASSUME NEW l \in Listings
        PROVE  currentStock'[l] = (IF l \in NewListings THEN OpeningStock[l] ELSE 0)
                                    + orderMovements'[l] + adminMovements'[l]
    <3>1. /\ currentStock[l] \in Int /\ orderMovements[l] \in Int /\ adminMovements[l] \in Int
          /\ pooled[l] \in Int /\ (IF l \in NewListings THEN OpeningStock[l] ELSE 0) \in Int
      BY <2>1
    <3>2. /\ currentStock'[l] = currentStock[l] + pooled[l]
          /\ orderMovements'[l] = orderMovements[l] + pooled[l]
          /\ adminMovements'[l] = adminMovements[l]
      BY <2>2
    <3>3. currentStock[l] = (IF l \in NewListings THEN OpeningStock[l] ELSE 0)
                              + orderMovements[l] + adminMovements[l]
      OBVIOUS
    <3> QED BY <3>1, <3>2, <3>3
  <2> QED BY <2>3
<1> QED BY <1>1, <1>2, <1>3

LEMMA InventoryLedger ==
  ASSUME InventoryTypeOK, UsedOfferConsistent, LedgerExplainsStock, InventoryNext
  PROVE  LedgerExplainsStock'
<1> USE DEF InventoryTypeOK, LedgerExplainsStock, Listings
<1>1. ASSUME NEW l \in Listings, NEW stock \in 0..MaxStock, SetStock(l, stock)
      PROVE  LedgerExplainsStock'
  BY <1>1 DEF SetStock
<1>2. ASSUME NEW l \in Listings, NEW q \in -MaxStock..MaxStock, AdjustInventory(l, q)
      PROVE  LedgerExplainsStock'
  <2>1. currentStock[l] + q \in 0..MaxStock
    BY <1>2 DEF AdjustInventory
  <2> QED BY <1>1, <1>2, <2>1 DEF AdjustInventory
<1>3. ASSUME NEW l \in Listings, NEW q \in 0..MaxStock, ReconcileStocktake(l, q)
      PROVE  LedgerExplainsStock'
  BY <1>1, <1>3 DEF ReconcileStocktake
<1>4. ASSUME NEW l \in Listings, NEW q \in 1..MaxStock, WriteOffInventory(l, q)
      PROVE  LedgerExplainsStock'
  <2>1. currentStock[l] - q \in 0..MaxStock
    BY <1>4 DEF WriteOffInventory
  <2> QED BY <1>1, <1>4, <2>1 DEF WriteOffInventory
<1>5. ASSUME NEW u \in UsedListings, CreateUsedOffer(u)
      PROVE  LedgerExplainsStock'
  BY <1>5 DEF CreateUsedOffer, Exists, UsedOfferConsistent
<1>6. ASSUME NEW s \in NewListings, NEW u \in UsedListings, ConvertToUsedOffer(s, u)
      PROVE  LedgerExplainsStock'
  BY <1>6 DEF ConvertToUsedOffer, Exists, UsedOfferConsistent
<1>7. ASSUME NEW l \in Listings, DeactivateProduct(l) \/ CheckReactivation(l) \/ ReactivateProduct(l)
      PROVE  LedgerExplainsStock'
  BY <1>7 DEF DeactivateProduct, CheckReactivation, ReactivateProduct
<1> QED BY <1>2, <1>3, <1>4, <1>5, <1>6, <1>7 DEF InventoryNext

\* An order leaving PENDING releases or sells exactly its own units.
LEMMA LeavePending ==
  ASSUME TypeOK, ReservedBacked, NEW o \in OrderIds, status[o] = "PENDING",
         ReleaseItems(items[o]) \/ SellItems(items[o]),
         NEW s, s # "PENDING", status' = [status EXCEPT ![o] = s], items' = items
  PROVE  ReservedBacked'
<1>1. Pending' = Pending \ {o} /\ o \in Pending /\ Pending \in SUBSET OrderIds
  BY DEF Pending, TypeOK
<1>2. ASSUME NEW l \in Listings
      PROVE  reservedStock'[l] = Cardinality(Units(items', Pending', l))
  <2>1. PICK n \in 0..MaxQuantity : items[o][l] = n
    BY DEF TypeOK, Baskets
  <2>2. Cardinality(Units(items, Pending \ {o}, l)) = Cardinality(Units(items, Pending, l)) - n
    <3> DEFINE P == Pending
               q == items
    <3>1. P \in SUBSET OrderIds /\ o \in P /\ q[o][l] = n
      BY <1>1, <2>1
    <3> HIDE DEF P, q
    <3>2. Cardinality(Units(q, P \ {o}, l)) = Cardinality(Units(q, P, l)) - n
      BY <3>1, UnitsRemove, SMTT(20)
    <3> QED BY <3>2 DEF P, q
  <2>3. reservedStock'[l] = reservedStock[l] - items[o][l]
    BY DEF ReleaseItems, SellItems
  <2>4. reservedStock[l] = Cardinality(Units(items, Pending, l))
    BY DEF ReservedBacked
  <2>5. Units(items', Pending', l) = Units(items, Pending \ {o}, l)
    BY <1>1, Zenon
  <2>6. reservedStock'[l] = Cardinality(Units(items, Pending \ {o}, l))
    BY <2>1, <2>2, <2>3, <2>4
  <2> QED BY <2>5, <2>6, Zenon
<1> QED BY <1>2 DEF ReservedBacked

LEMMA EnterPending ==
  ASSUME TypeOK, ReservedBacked, NEW o \in OrderIds, Places(o)
  PROVE  ReservedBacked'
<1>1. /\ Pending' = Pending \union {o} /\ o \notin Pending /\ Pending \in SUBSET OrderIds
      /\ items'[o] \in Baskets /\ Agree(items, items', Pending)
  BY DEF Places, Pending, TypeOK, Agree
<1>2. ASSUME NEW l \in Listings
      PROVE  reservedStock'[l] = Cardinality(Units(items', Pending', l))
  <2>1. PICK n \in 0..MaxQuantity : items'[o][l] = n
    BY <1>1 DEF Baskets
  <2>2. Cardinality(Units(items', Pending', l)) = Cardinality(Units(items, Pending, l)) + n
    <3> DEFINE P == Pending
               Q == Pending'
               q == items
               r == items'
    <3>1. /\ P \in SUBSET OrderIds /\ o \notin P /\ Q = P \union {o} /\ r[o][l] = n
          /\ Agree(q, r, P)
      BY <1>1, <2>1
    <3> HIDE DEF P, Q, q, r
    <3>2. Cardinality(Units(r, P \union {o}, l)) = Cardinality(Units(q, P, l)) + n
      BY <3>1, UnitsAdd
    <3>3. Cardinality(Units(r, Q, l)) = Cardinality(Units(q, P, l)) + n
      BY <3>1, <3>2, Zenon
    <3> QED BY <3>3 DEF P, Q, q, r
  <2>3. reservedStock'[l] = reservedStock[l] + items'[o][l]
    BY DEF Places, ReserveItems
  <2>4. reservedStock[l] = Cardinality(Units(items, Pending, l))
    BY DEF ReservedBacked
  <2> QED BY <2>1, <2>2, <2>3, <2>4
<1> QED BY <1>2 DEF ReservedBacked

\* Neither reservations nor PENDING orders change.
LEMMA SamePending ==
  ASSUME ReservedBacked, UNCHANGED <<reservedStock, items>>, Pending' = Pending
  PROVE  ReservedBacked'
<1>1. \A l : Units(items', Pending', l) = Units(items, Pending, l)
  BY Zenon
<1> QED BY <1>1 DEF ReservedBacked

\* No effect on the stock disturbs the invariant, whatever caused it.
LEMMA EffectKeeps ==
  ASSUME IInv, Effect
  PROVE  StockInv' /\ LedgerExplainsStock' /\ ReservedBacked'
<1> USE DEF IInv
<1>0. \A o \in OrderIds : items[o] \in Baskets
  BY DEF TypeOK
<1>1. CASE UNCHANGED <<stockVars, status, items>>
  <2>1. Pending' = Pending
    BY <1>1 DEF Pending
  <2> QED BY <1>1, <2>1, UnchangedStock, SamePending DEF stockVars, LedgerExplainsStock
<1>2. CASE InventoryNext /\ UNCHANGED <<status, items>>
  <2>1. UNCHANGED reservedStock
    BY <1>2 DEF InventoryNext, AdjustInventory, ReconcileStocktake, WriteOffInventory, SetStock,
                CreateUsedOffer, ConvertToUsedOffer, DeactivateProduct, CheckReactivation,
                ReactivateProduct
  <2>2. Pending' = Pending
    BY <1>2 DEF Pending
  <2> QED BY <1>2, <2>1, <2>2, InventoryStock, InventoryLedger, SamePending DEF StockInv, TypeOK
<1>3. ASSUME NEW o \in OrderIds, Places(o)
      PROVE  StockInv' /\ LedgerExplainsStock' /\ ReservedBacked'
  <2>1. items'[o] \in Baskets /\ ReserveItems(items'[o])
    BY <1>3 DEF Places
  <2> QED BY <1>3, <2>1, ItemsStock, ItemsLedger, EnterPending
<1>4. ASSUME NEW o \in OrderIds, Withdraws(o)
      PROVE  StockInv' /\ LedgerExplainsStock' /\ ReservedBacked'
  <2>1. StockInv' /\ LedgerExplainsStock'
    BY <1>0, <1>4, ItemsStock, ItemsLedger DEF Withdraws
  <2>2. ReservedBacked'
    BY <1>4, LeavePending DEF Withdraws, MovesTo
  <2> QED BY <2>1, <2>2
<1>5. ASSUME NEW o \in OrderIds, Sells(o)
      PROVE  StockInv' /\ LedgerExplainsStock' /\ ReservedBacked'
  BY <1>0, <1>5, ItemsStock, ItemsLedger, LeavePending DEF Sells, MovesTo
<1>6. ASSUME NEW o \in OrderIds, TakesBack(o)
      PROVE  StockInv' /\ LedgerExplainsStock' /\ ReservedBacked'
  <2>1. Pending' = Pending
    BY <1>6 DEF TakesBack, MovesTo, Pending, TypeOK
  <2>2. UNCHANGED <<reservedStock, items>>
    BY <1>6 DEF TakesBack, TakeBackItems, MovesTo
  <2> QED BY <1>0, <1>6, <2>1, <2>2, ItemsStock, ItemsLedger, SamePending DEF TakesBack
<1>7. ASSUME NEW o \in OrderIds, Ships(o)
      PROVE  StockInv' /\ LedgerExplainsStock' /\ ReservedBacked'
  <2>1. Pending' = Pending
    BY <1>7 DEF Ships, MovesTo, Pending, TypeOK
  <2>2. UNCHANGED <<stockVars, items>>
    BY <1>7 DEF Ships, MovesTo
  <2> QED BY <2>1, <2>2, UnchangedStock, SamePending DEF stockVars, LedgerExplainsStock
<1> QED BY <1>1, <1>2, <1>3, <1>4, <1>5, <1>6, <1>7 DEF Effect, OrderEffect

LEMMA NextIInv == IInv /\ [Next]_vars => IInv'
<1> SUFFICES ASSUME IInv, [Next]_vars PROVE IInv'
  OBVIOUS
<1>1. TypeOK'
  BY NextType DEF IInv
<1>2. Effect
  BY NextEffect DEF IInv
<1> QED BY <1>1, <1>2, EffectKeeps DEF IInv

\* The inductive invariant: types, stock against reservations, and the reserved
\* column as the sum of the PENDING orders' lines, kept by every action.
THEOREM InductiveInvariant == Spec => []IInv
BY InitIInv, NextIInv, PTL DEF Spec

\* No unit is promised twice: reservations never exceed the stock, whatever
\* checkouts, expiry, cancellation, sales and staff corrections interleave.
THEOREM NeverOversells == Spec => []NoOversell
BY InductiveInvariant, PTL DEF IInv, StockInv

\* reservedStock is exactly what the PENDING orders hold.
THEOREM ReservationsAreBacked == Spec => []ReservedBacked
BY InductiveInvariant, PTL DEF IInv

\* A Used offer is in stock iff AVAILABLE, is sold at most once, and is the
\* only sellable Used offer of its product.
THEOREM UsedOffersConsistent == Spec => []UsedOfferConsistent
BY InductiveInvariant, PTL DEF IInv, StockInv

\* The stock checks of a confirmation cannot fail for a PENDING order.
THEOREM ReservedOrdersConfirmable == Spec => []PendingConfirmable
<1>1. IInv => PendingConfirmable
  <2> SUFFICES ASSUME IInv, NEW o \in Pending, NEW l \in Lines(items[o])
               PROVE  /\ currentStock[l] >= items[o][l]
                      /\ reservedStock[l] >= items[o][l]
                      /\ l \in UsedListings => usedLifecycle[l] = "AVAILABLE" /\ items[o][l] = 1
    BY DEF PendingConfirmable
  <2>1. /\ l \in Listings /\ items[o][l] > 0 /\ items[o][l] \in 0..MaxQuantity
        /\ currentStock[l] \in Int /\ reservedStock[l] \in Int
        /\ Pending \in SUBSET OrderIds
    BY DEF IInv, TypeOK, InventoryTypeOK, Pending, Lines, Baskets
  <2>2. Cardinality(Units(items, Pending, l)) >= items[o][l]
    BY <2>1, UnitsRemove
  <2>3. reservedStock[l] >= items[o][l] /\ reservedStock[l] <= currentStock[l]
    BY <2>1, <2>2 DEF IInv, ReservedBacked, StockInv, NoOversell
  <2>4. l \in UsedListings => currentStock[l] = IF usedLifecycle[l] = "AVAILABLE" THEN 1 ELSE 0
    BY DEF IInv, StockInv, UsedOfferConsistent
  <2> QED BY <2>1, <2>3, <2>4
<1> QED BY <1>1, InductiveInvariant, PTL

-----------------------------------------------------------------------------
(* The books.  Every effect moves the order movements of pooled stock and  *)
(* the units of fulfilled orders by the same number.                       *)

\* An order becomes fulfilled, or stops being it, and its movement is written.
LEMMA FulfilledMoves ==
  ASSUME TypeOK, NEW o \in OrderIds, NEW l \in NewListings, UNCHANGED items,
         \/ /\ o \notin Fulfilled /\ Fulfilled' = Fulfilled \union {o}
            /\ orderMovements'[l] = orderMovements[l] - items[o][l]
         \/ /\ o \in Fulfilled /\ Fulfilled' = Fulfilled \ {o}
            /\ orderMovements'[l] = orderMovements[l] + items[o][l]
  PROVE  orderMovements'[l] + Cardinality(Units(items', Fulfilled', l))
           = orderMovements[l] + Cardinality(Units(items, Fulfilled, l))
<1>1. PICK n \in 0..MaxQuantity : items[o][l] = n
  BY DEF TypeOK, Baskets, Listings
<1> DEFINE F == Fulfilled
           G == Fulfilled'
           q == items
           before == Cardinality(Units(q, F, l))
           after == Cardinality(Units(q, G, l))
<1>2. F \in SUBSET OrderIds /\ orderMovements[l] \in Int
  BY DEF Fulfilled, TypeOK, InventoryTypeOK, Listings
<1>3. before \in Nat
  BY <1>2, UnitsFinite, FS_CardinalityType, Zenon
<1>4. Units(items', Fulfilled', l) = Units(q, G, l)
  BY Zenon
<1>5. CASE o \notin F /\ G = F \union {o} /\ orderMovements'[l] = orderMovements[l] - n
  <2>1. q[o][l] = n /\ Agree(q, q, F)
    BY <1>1 DEF Agree
  <2> HIDE DEF F, G, q
  <2>2. Cardinality(Units(q, F \union {o}, l)) = Cardinality(Units(q, F, l)) + n
    BY <1>2, <1>5, <2>1, UnitsAdd, SMTT(30)
  <2>3. after = before + n
    BY <1>5, <2>2, Zenon
  <2> HIDE DEF before, after
  <2>4. orderMovements'[l] + after = orderMovements[l] + before
    BY <1>2, <1>3, <1>5, <2>3
  <2> QED BY <1>4, <2>4, Zenon DEF before, after, q, F, G
<1>6. CASE o \in F /\ G = F \ {o} /\ orderMovements'[l] = orderMovements[l] + n
  <2>1. q[o][l] = n
    BY <1>1
  <2> HIDE DEF F, G, q
  <2>2. Cardinality(Units(q, F \ {o}, l)) = Cardinality(Units(q, F, l)) - n
    BY <1>2, <1>6, <2>1, UnitsRemove, SMTT(30)
  <2>3. after = before - n
    BY <1>6, <2>2, Zenon
  <2> HIDE DEF before, after
  <2>4. orderMovements'[l] + after = orderMovements[l] + before
    BY <1>2, <1>3, <1>6, <2>3
  <2> QED BY <1>4, <2>4, Zenon DEF before, after, q, F, G
<1> QED BY <1>1, <1>5, <1>6

LEMMA EffectSales ==
  ASSUME TypeOK, Effect, NEW l \in NewListings
  PROVE  orderMovements'[l] + Cardinality(Units(items', Fulfilled', l))
           = orderMovements[l] + Cardinality(Units(items, Fulfilled, l))
<1> DEFINE Balanced == orderMovements'[l] + Cardinality(Units(items', Fulfilled', l))
                         = orderMovements[l] + Cardinality(Units(items, Fulfilled, l))
<1>1. ASSUME orderMovements'[l] = orderMovements[l], Fulfilled' = Fulfilled,
             Agree(items, items', Fulfilled)
      PROVE  Balanced
  <2>1. Units(items', Fulfilled, l) = Units(items, Fulfilled, l)
    BY <1>1, UnitsSame
  <2>2. Units(items', Fulfilled', l) = Units(items, Fulfilled, l)
    BY <1>1, <2>1, Zenon
  <2> QED BY <1>1, <2>2
<1>2. CASE UNCHANGED <<stockVars, status, items>>
  <2>1. orderMovements'[l] = orderMovements[l] /\ Fulfilled' = Fulfilled /\ Agree(items, items', Fulfilled)
    BY <1>2 DEF stockVars, Fulfilled, Agree
  <2> QED BY <1>1, <2>1
<1>3. CASE InventoryNext /\ UNCHANGED <<status, items>>
  <2>1. UNCHANGED orderMovements
    BY <1>3 DEF InventoryNext, AdjustInventory, ReconcileStocktake, WriteOffInventory, SetStock,
                CreateUsedOffer, ConvertToUsedOffer, DeactivateProduct, CheckReactivation,
                ReactivateProduct
  <2>2. Fulfilled' = Fulfilled /\ Agree(items, items', Fulfilled)
    BY <1>3 DEF Fulfilled, Agree
  <2> QED BY <1>1, <2>1, <2>2
<1>4. ASSUME NEW o \in OrderIds, Places(o) PROVE Balanced
  <2>1. UNCHANGED orderMovements
    BY <1>4 DEF Places, ReserveItems
  <2>2. Fulfilled' = Fulfilled /\ Agree(items, items', Fulfilled)
    BY <1>4 DEF Places, Fulfilled, Agree, TypeOK
  <2> QED BY <1>1, <2>1, <2>2
<1>5. ASSUME NEW o \in OrderIds, Withdraws(o) PROVE Balanced
  <2>1. UNCHANGED orderMovements
    BY <1>5 DEF Withdraws, ReleaseItems
  <2>2. Fulfilled' = Fulfilled /\ Agree(items, items', Fulfilled)
    BY <1>5 DEF Withdraws, MovesTo, Fulfilled, Agree, TypeOK
  <2> QED BY <1>1, <2>1, <2>2
<1>6. ASSUME NEW o \in OrderIds, Ships(o) PROVE Balanced
  <2>1. UNCHANGED orderMovements
    BY <1>6 DEF Ships, stockVars
  <2>2. Fulfilled' = Fulfilled /\ Agree(items, items', Fulfilled)
    BY <1>6 DEF Ships, MovesTo, Fulfilled, Agree, TypeOK
  <2> QED BY <1>1, <2>1, <2>2
<1>7. ASSUME NEW o \in OrderIds, Sells(o) PROVE Balanced
  <2>1. o \notin Fulfilled /\ Fulfilled' = Fulfilled \union {o} /\ UNCHANGED items
    BY <1>7 DEF Sells, MovesTo, Fulfilled, TypeOK
  <2>2. orderMovements'[l] = orderMovements[l] - items[o][l]
    BY <1>7 DEF Sells, SellItems, Listings
  <2> QED BY <2>1, <2>2, FulfilledMoves
<1>8. ASSUME NEW o \in OrderIds, TakesBack(o) PROVE Balanced
  <2>1. o \in Fulfilled /\ Fulfilled' = Fulfilled \ {o} /\ UNCHANGED items
    BY <1>8 DEF TakesBack, MovesTo, Fulfilled, TypeOK
  <2>2. orderMovements'[l] = orderMovements[l] + items[o][l]
    BY <1>8 DEF TakesBack, TakeBackItems, Poolable, Listings
  <2> QED BY <2>1, <2>2, FulfilledMoves
<1> QED BY <1>2, <1>3, <1>4, <1>5, <1>6, <1>7, <1>8 DEF Effect, OrderEffect

\* The movement ledger explains the stock of every listing, pooled or physical.
THEOREM LedgerIsComplete == Spec => []LedgerExplainsStock
BY InductiveInvariant, PTL DEF IInv

\* For pooled stock the order movements are exactly the fulfilled orders: each
\* sale and each cancellation of a confirmed order is booked once.
THEOREM SalesAreOrders == Spec => []SalesMatchOrders
<1>1. Init => SalesMatchOrders
  <2> SUFFICES ASSUME Init, NEW l \in NewListings
               PROVE  orderMovements[l] = -Cardinality(Units(items, Fulfilled, l))
    BY DEF SalesMatchOrders
  <2>0. Fulfilled = {}
    BY DEF Init, Fulfilled
  <2>1. Units(items, Fulfilled, l) = {}
    BY <2>0 DEF Units
  <2>2. Cardinality(Units(items, Fulfilled, l)) = 0
    BY <2>1, FS_EmptySet, Zenon
  <2>3. orderMovements[l] = 0
    BY DEF Init, InventoryInit, Listings
  <2>4. \A m, n \in Int : m + n = 0 => m = -n
    OBVIOUS
  <2>5. 0 + 0 = 0 /\ 0 \in Int
    OBVIOUS
  <2> QED BY <2>2, <2>3, <2>4, <2>5, Zenon
<1>2. TypeOK /\ TypeOK' /\ SalesMatchOrders /\ [Next]_vars => SalesMatchOrders'
  <2> SUFFICES ASSUME TypeOK, TypeOK', SalesMatchOrders, [Next]_vars, NEW l \in NewListings
               PROVE  orderMovements'[l] = -Cardinality(Units(items', Fulfilled', l))
    BY DEF SalesMatchOrders
  <2> DEFINE before == Cardinality(Units(items, Fulfilled, l))
             after == Cardinality(Units(items', Fulfilled', l))
  <2>1. orderMovements'[l] + after = orderMovements[l] + before
    BY NextEffect, EffectSales
  <2>2. orderMovements[l] = -before
    BY DEF SalesMatchOrders
  <2>3. before \in Nat /\ after \in Nat
    <3>1. Fulfilled \in SUBSET OrderIds /\ Fulfilled' \in SUBSET OrderIds
      BY DEF Fulfilled
    <3> QED BY <3>1, UnitsFinite, FS_CardinalityType, Zenon
  <2>4. orderMovements'[l] \in Int
    BY DEF TypeOK, InventoryTypeOK, Listings
  <2> HIDE DEF before, after
  <2>5. orderMovements'[l] = -after
    BY <2>1, <2>2, <2>3, <2>4
  <2> QED BY <2>5 DEF after
<1> QED BY <1>1, <1>2, TypeCorrect, PTL DEF Spec

-----------------------------------------------------------------------------
(* Payment, keys and endings.                                              *)

\* Payment and expiry exclude each other: whichever came first decides.
THEOREM PaidOrdersNeverExpire == Spec => []PaidNeverExpires
<1>1. Init => PaidNeverExpires
  BY DEF Init, PaidNeverExpires
<1>2. TypeOK /\ PaidNeverExpires /\ [Next]_vars => PaidNeverExpires'
  <2> SUFFICES ASSUME TypeOK, PaidNeverExpires, [Next]_vars PROVE PaidNeverExpires'
    OBVIOUS
  <2> USE DEF PaidNeverExpires, TypeOK
  <2>1. ASSUME NEW r \in Requests, NEW o \in OrderIds, CreateOrder(r, o)
        PROVE  PaidNeverExpires'
    BY <2>1 DEF CreateOrder
  <2>2. ASSUME NEW r \in Requests, NEW o \in OrderIds, ExpireCandidate(r, o)
        PROVE  PaidNeverExpires'
    BY <2>2 DEF ExpireCandidate, Expirable, ExpireOrderReservation, orderVars
  <2>3. ASSUME NEW o \in OrderIds, OrderNext(o) \/ CreatePayment(o)
        PROVE  PaidNeverExpires'
    BY <2>3 DEF OrderNext, ConfirmOrder, ConfirmOrderInTransaction, CancelOrder, DispatchOrder,
                CompleteOrder, CreatePayment
  <2>4. CASE UNCHANGED <<status, payment>>
    BY <2>4
  <2>5. ASSUME NEW r \in Requests, NEW basket \in Baskets, NEW k \in Keys \union {NoKey},
               BeginCreateOrder(r, basket, k)
        PROVE  UNCHANGED <<status, payment>>
    BY <2>5, Zenon DEF BeginCreateOrder, orderVars
  <2>6. ASSUME NEW r \in Requests, FindExpiredCandidates(r) \/ EndCreateOrder(r)
        PROVE  UNCHANGED <<status, payment>>
    BY <2>6, Zenon DEF FindExpiredCandidates, EndCreateOrder, orderVars
  <2>7. CASE InventoryNext /\ UNCHANGED <<orderVars, request, clock>>
    BY <2>4, <2>7 DEF orderVars
  <2>8. CASE Tick \/ UNCHANGED vars
    BY <2>4, <2>8 DEF Tick, vars, orderVars
  <2> QED BY <2>1, <2>2, <2>3, <2>4, <2>5, <2>6, <2>7, <2>8 DEF Next, OrderSystem
<1> QED BY <1>1, <1>2, TypeCorrect, PTL DEF Spec

\* However the calls with one Idempotency-Key interleave, at most one of them
\* creates an order: the second look, in the transaction, is the one that counts.
THEOREM KeysNameOneOrder == Spec => []OneOrderPerKey
<1>1. Init => OneOrderPerKey
  BY DEF Init, OneOrderPerKey
<1>2. TypeOK /\ OneOrderPerKey /\ [Next]_vars => OneOrderPerKey'
  <2> SUFFICES ASSUME TypeOK, OneOrderPerKey, [Next]_vars PROVE OneOrderPerKey'
    OBVIOUS
  <2> USE DEF OneOrderPerKey, TypeOK
  <2>1. ASSUME NEW r \in Requests, NEW o \in OrderIds, CreateOrder(r, o)
        PROVE  OneOrderPerKey'
    BY <2>1 DEF CreateOrder, Replayed, KeyTaken
  <2>2. CASE UNCHANGED key /\ \A o \in OrderIds : status[o] = "NONE" => status'[o] = "NONE"
    BY <2>2
  <2>3. ASSUME NEW r \in Requests, NEW o \in OrderIds, ExpireCandidate(r, o)
        PROVE  OneOrderPerKey'
    BY <2>2, <2>3 DEF ExpireCandidate, Expirable, ExpireOrderReservation, orderVars
  <2>4. ASSUME NEW o \in OrderIds, OrderNext(o) \/ CreatePayment(o)
        PROVE  OneOrderPerKey'
    BY <2>2, <2>4 DEF OrderNext, ConfirmOrder, ConfirmOrderInTransaction, CancelOrder,
                DispatchOrder, CompleteOrder, CreatePayment
  <2>5. CASE UNCHANGED <<status, key>>
    BY <2>5
  <2>6. ASSUME NEW r \in Requests, NEW basket \in Baskets, NEW k \in Keys \union {NoKey},
               BeginCreateOrder(r, basket, k)
        PROVE  UNCHANGED <<status, key>>
    BY <2>6, Zenon DEF BeginCreateOrder, orderVars
  <2>7. ASSUME NEW r \in Requests, FindExpiredCandidates(r) \/ EndCreateOrder(r)
        PROVE  UNCHANGED <<status, key>>
    BY <2>7, Zenon DEF FindExpiredCandidates, EndCreateOrder, orderVars
  <2>8. CASE InventoryNext /\ UNCHANGED <<orderVars, request, clock>>
    BY <2>5, <2>8 DEF orderVars
  <2>9. CASE Tick \/ UNCHANGED vars
    BY <2>5, <2>9 DEF Tick, vars, orderVars
  <2> QED BY <2>1, <2>3, <2>4, <2>5, <2>6, <2>7, <2>8, <2>9 DEF Next, OrderSystem
<1> QED BY <1>1, <1>2, TypeCorrect, PTL DEF Spec

\* No effect touches an order that is over or completed.
LEMMA EffectLeavesTerminal ==
  ASSUME TypeOK, Effect, NEW o \in OrderIds, status[o] \in {"COMPLETED", "CANCELLED", "EXPIRED"}
  PROVE  status'[o] = status[o]
BY DEF Effect, OrderEffect, Places, Withdraws, Sells, TakesBack, Ships, MovesTo, TypeOK

\* A finished order stays finished, whichever request was still looking at it.
THEOREM FinishedOrdersStay == Spec => TerminalOrdersStay
<1>1. TypeOK /\ [Next]_vars =>
        [\A o \in OrderIds :
           status[o] \in {"COMPLETED", "CANCELLED", "EXPIRED"} => status'[o] = status[o]]_vars
  BY NextEffect, EffectLeavesTerminal
<1> QED BY <1>1, TypeCorrect, PTL DEF Spec, TerminalOrdersStay

-----------------------------------------------------------------------------
(* The promise.  Available is what reservations leave of the stock; each   *)
(* effect is one step of StockPromise, or a stutter when an order only     *)
(* ships.                                                                  *)

Available == [l \in Listings |-> currentStock[l] - reservedStock[l]]
Phase == [o \in OrderIds |-> PhaseOf(status[o])]

\* An order that moves moves its phase and no other.
LEMMA PhaseMoves ==
  ASSUME TypeOK, NEW o \in OrderIds, NEW s \in OrderStatuses,
         status' = [status EXCEPT ![o] = s]
  PROVE  Phase' = [Phase EXCEPT ![o] = PhaseOf(s)]
BY DEF TypeOK, Phase

LEMMA PromiseInit == TypeOK /\ Init => Promised!Init
<1> SUFFICES ASSUME TypeOK, Init PROVE Promised!Init
  OBVIOUS
<1>1. Available \in [Listings -> Nat]
  BY DEF Init, InventoryInit, TypeOK, InventoryTypeOK, Available
<1>2. Phase = [o \in OrderIds |-> "new"]
  BY DEF Init, Phase, PhaseOf
<1>3. items = [o \in OrderIds |-> [l \in Listings |-> 0]]
  BY DEF Init, EmptyBasket
<1> QED BY <1>1, <1>2, <1>3 DEF Promised!Init, Available, Phase

LEMMA PlacesPromises ==
  ASSUME TypeOK, NoOversell, NEW o \in OrderIds, Places(o)
  PROVE  Promised!Promise(o)
<1> USE DEF TypeOK, InventoryTypeOK
<1>1. Phase[o] = "new" /\ Phase' = [Phase EXCEPT ![o] = "promised"]
  BY PhaseMoves DEF Places, Phase, PhaseOf, OrderStatuses
<1>2. \A l \in Listings : items'[o][l] \in 0..Available[l]
  BY DEF Places, ReserveItems, Available, Baskets, Lines, NoOversell
<1>3. Available' = [l \in Listings |-> Available[l] - items'[o][l]]
  BY DEF Places, ReserveItems, Available, Baskets
<1>4. items' = [items EXCEPT ![o] = items'[o]]
  BY DEF Places
<1> QED BY <1>1, <1>2, <1>3, <1>4 DEF Promised!Promise, Available, Phase

LEMMA WithdrawsWithdraw ==
  ASSUME TypeOK, NEW o \in OrderIds, Withdraws(o)
  PROVE  Promised!Withdraw(o)
<1> USE DEF TypeOK, InventoryTypeOK
<1>1. Phase[o] = "promised" /\ Phase' = [Phase EXCEPT ![o] = "over"]
  BY PhaseMoves DEF Withdraws, MovesTo, Phase, PhaseOf, OrderStatuses
<1>2. items[o] \in Baskets
  OBVIOUS
<1>3. Available' = [l \in Listings |-> Available[l] + items[o][l]]
  BY <1>2 DEF Withdraws, ReleaseItems, Available, Baskets
<1> QED BY <1>1, <1>3 DEF Promised!Withdraw, Available, Phase, Withdraws, MovesTo

LEMMA SellsSell ==
  ASSUME TypeOK, NEW o \in OrderIds, Sells(o)
  PROVE  Promised!Sell(o)
<1> USE DEF TypeOK, InventoryTypeOK
<1>1. Phase[o] = "promised" /\ Phase' = [Phase EXCEPT ![o] = "sold"]
  BY PhaseMoves DEF Sells, MovesTo, Phase, PhaseOf, OrderStatuses
<1>2. items[o] \in Baskets
  OBVIOUS
<1>3. Available' = Available
  BY <1>2 DEF Sells, SellItems, Available, Baskets
<1> QED BY <1>1, <1>3 DEF Promised!Sell, Available, Phase, Sells, MovesTo

LEMMA TakesBackUndoes ==
  ASSUME TypeOK, TypeOK', NoOversell, NoOversell', NEW o \in OrderIds, TakesBack(o)
  PROVE  Promised!Undo(o)
<1>1. Phase[o] = "sold" /\ Phase' = [Phase EXCEPT ![o] = "over"]
  BY PhaseMoves DEF TakesBack, MovesTo, Phase, PhaseOf, OrderStatuses
<1>2. Available' \in [Listings -> Nat]
  BY DEF TypeOK, InventoryTypeOK, NoOversell, Available
<1>3. ASSUME NEW l \in Listings
      PROVE  Available'[l] \in Available[l]..(Available[l] + items[o][l])
  <2>1. items[o][l] \in Nat /\ currentStock[l] \in Int /\ reservedStock[l] \in Int
    BY DEF TypeOK, InventoryTypeOK, Baskets
  <2>2. Poolable(items[o])[l] \in 0..items[o][l]
    BY <2>1 DEF Poolable
  <2>3. /\ currentStock'[l] = currentStock[l] + Poolable(items[o])[l]
        /\ reservedStock'[l] = reservedStock[l]
    BY DEF TakesBack, TakeBackItems
  <2> QED BY <2>1, <2>2, <2>3 DEF Available
<1> QED BY <1>1, <1>2, <1>3 DEF Promised!Undo, Available, Phase, TakesBack, MovesTo

\* Staff work leaves no promise broken: what is available stays a number of units.
LEMMA EffectPromises ==
  ASSUME TypeOK, TypeOK', NoOversell, NoOversell', Effect
  PROVE  Promised!Next \/ UNCHANGED <<Available, Phase, items>>
<1>1. CASE UNCHANGED <<stockVars, status, items>>
  BY <1>1 DEF stockVars, Available, Phase
<1>2. CASE InventoryNext /\ UNCHANGED <<status, items>>
  <2>1. Available' \in [Listings -> Nat]
    BY DEF TypeOK, InventoryTypeOK, NoOversell, Available
  <2>2. Promised!Staff
    BY <1>2, <2>1 DEF Promised!Staff, Available
  <2> QED BY <2>2 DEF Promised!Next
<1>3. ASSUME NEW o \in OrderIds, Places(o) \/ Withdraws(o) \/ Sells(o) \/ TakesBack(o)
      PROVE  Promised!Next
  <2>1. Promised!Promise(o) \/ Promised!Withdraw(o) \/ Promised!Sell(o) \/ Promised!Undo(o)
    BY <1>3, PlacesPromises, WithdrawsWithdraw, SellsSell, TakesBackUndoes
  <2> QED BY <2>1 DEF Promised!Next
<1>4. ASSUME NEW o \in OrderIds, Ships(o)
      PROVE  UNCHANGED <<Available, Phase, items>>
  <2>1. ASSUME NEW p \in OrderIds PROVE PhaseOf(status'[p]) = PhaseOf(status[p])
    BY <1>4 DEF Ships, MovesTo, PhaseOf, TypeOK
  <2>2. Phase' = Phase
    BY <2>1 DEF Phase
  <2> QED BY <1>4, <2>2 DEF Ships, MovesTo, stockVars, Available
<1> QED BY <1>1, <1>2, <1>3, <1>4 DEF Effect, OrderEffect

\* The order system implements StockPromise: units are promised only while they
\* are available, sold or given back once, and staff never touch promised ones.
THEOREM PromiseKept == Spec => KeepsPromise
<1>1. IInv /\ Init => Promised!Init
  BY PromiseInit DEF IInv
<1>2. IInv /\ IInv' /\ [Next]_vars => [Promised!Next]_(Promised!promiseVars)
  <2> SUFFICES ASSUME IInv, IInv', [Next]_vars
               PROVE  Promised!Next \/ UNCHANGED Promised!promiseVars
    OBVIOUS
  <2>1. Promised!Next \/ UNCHANGED <<Available, Phase, items>>
    BY NextEffect, EffectPromises DEF IInv, StockInv
  <2> QED BY <2>1 DEF Promised!promiseVars, Available, Phase
<1> QED BY <1>1, <1>2, InductiveInvariant, PTL DEF Spec, KeepsPromise, Promised!Spec
=============================================================================
