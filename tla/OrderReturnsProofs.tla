-------------------------- MODULE OrderReturnsProofs --------------------------
(***************************************************************************)
(* Returns, for any number of returns, orders and lines: a line's columns  *)
(* count exactly its open and its completed returns.  That is inductive    *)
(* once it is known that an order's quantities never change after it was   *)
(* placed, and that nothing is kept of an order before that.               *)
(***************************************************************************)
EXTENDS OrderReturns, OrdersProofs

USE InventoryAssumption, OrdersAssumption, ReturnsAssumption

\* Nothing is kept of an order that was not placed.
NothingUnordered == \A o \in OrderIds : status[o] = "NONE" => items[o] = EmptyBasket

\* The inductive invariant.
ReturnsIInv == ReturnsTypeOK /\ NothingUnordered /\ ReturnsBacked

-----------------------------------------------------------------------------
(* Orders under returns.                                                   *)

\* A placed order stays placed and keeps its quantities.
LEMMA PlacedItemsKept ==
  ASSUME TypeOK, NothingUnordered, [Next]_vars
  PROVE  /\ NothingUnordered'
         /\ \A o \in OrderIds : items'[o] = items[o] \/ status[o] = "NONE"
<1> USE DEF NothingUnordered
<1>1. ASSUME UNCHANGED orderVars
      PROVE  /\ NothingUnordered'
             /\ \A o \in OrderIds : items'[o] = items[o] \/ status[o] = "NONE"
  BY <1>1 DEF orderVars
<1>2. ASSUME UNCHANGED items, NEW o \in OrderIds, NEW s \in OrderStatuses,
             status' = [status EXCEPT ![o] = s]
      PROVE  /\ NothingUnordered'
             /\ \A p \in OrderIds : items'[p] = items[p] \/ status[p] = "NONE"
  BY <1>2 DEF TypeOK, OrderStatuses
<1>3. ASSUME NEW r \in Requests, NEW o \in OrderIds, ExpireCandidate(r, o)
      PROVE  /\ NothingUnordered'
             /\ \A p \in OrderIds : items'[p] = items[p] \/ status[p] = "NONE"
  BY <1>1, <1>2, <1>3 DEF ExpireCandidate, ExpireOrderReservation, OrderStatuses
<1>4. ASSUME NEW r \in Requests, NEW o \in OrderIds, CreateOrder(r, o)
      PROVE  /\ NothingUnordered'
             /\ \A p \in OrderIds : items'[p] = items[p] \/ status[p] = "NONE"
  BY <1>4 DEF CreateOrder, TypeOK
<1>5. ASSUME NEW o \in OrderIds, OrderNext(o)
      PROVE  /\ NothingUnordered'
             /\ \A p \in OrderIds : items'[p] = items[p] \/ status[p] = "NONE"
  BY <1>2, <1>5 DEF OrderNext, ConfirmOrder, ConfirmOrderInTransaction, CancelOrder, DispatchOrder,
                    CompleteOrder, OrderStatuses
<1>6. ASSUME NEW o \in OrderIds, CreatePayment(o)
      PROVE  /\ NothingUnordered'
             /\ \A p \in OrderIds : items'[p] = items[p] \/ status[p] = "NONE"
  BY <1>6 DEF CreatePayment
<1>7. ASSUME NEW r \in Requests, NEW basket \in Baskets, NEW k \in Keys \union {NoKey},
             BeginCreateOrder(r, basket, k)
      PROVE  UNCHANGED orderVars
  BY <1>7 DEF BeginCreateOrder
<1>8. ASSUME NEW r \in Requests, FindExpiredCandidates(r) \/ EndCreateOrder(r)
      PROVE  UNCHANGED orderVars
  BY <1>8 DEF FindExpiredCandidates, EndCreateOrder
<1>9. CASE Tick \/ UNCHANGED vars
  BY <1>1, <1>9 DEF Tick, vars
<1> QED BY <1>1, <1>3, <1>4, <1>5, <1>6, <1>7, <1>8, <1>9 DEF Next, OrderSystem

-----------------------------------------------------------------------------
(* Type correctness.                                                       *)

\* A return that exists names an order and a line.
LEMMA ReturnType ==
  ASSUME ReturnsTypeOK, NEW r \in ReturnIds, orderReturn[r].status # "NONE"
  PROVE  orderReturn[r] \in Returns
BY DEF ReturnsTypeOK, NoReturn

\* The table with one return replaced is a table.
LEMMA StoreType ==
  ASSUME ReturnsTypeOK, NEW r \in ReturnIds, NEW next \in Returns,
         orderReturn' = [orderReturn EXCEPT ![r] = next]
  PROVE  orderReturn' \in [ReturnIds -> Returns \union {NoReturn}]
BY DEF ReturnsTypeOK

\* A line's columns stay within what an order can hold.
LEMMA MoveType ==
  ASSUME ReturnsTypeOK, NEW o \in OrderIds, NEW l \in Listings, NEW n \in Int, NEW m \in Int,
         reservedReturnQuantity[o][l] + n \in 0..MaxQuantity,
         returnedQuantity[o][l] + m \in 0..MaxQuantity,
         MoveReturned(o, l, n, m)
  PROVE  /\ reservedReturnQuantity' \in [OrderIds -> Baskets]
         /\ returnedQuantity' \in [OrderIds -> Baskets]
         /\ \A p \in OrderIds, k \in Listings :
              /\ reservedReturnQuantity'[p][k]
                   = reservedReturnQuantity[p][k] + IF p = o /\ k = l THEN n ELSE 0
              /\ returnedQuantity'[p][k] = returnedQuantity[p][k] + IF p = o /\ k = l THEN m ELSE 0
<1>1. /\ reservedReturnQuantity \in [OrderIds -> [Listings -> 0..MaxQuantity]]
      /\ returnedQuantity \in [OrderIds -> [Listings -> 0..MaxQuantity]]
  BY DEF ReturnsTypeOK, Baskets
<1>2. /\ reservedReturnQuantity' = [reservedReturnQuantity EXCEPT ![o][l] = @ + n]
      /\ returnedQuantity' = [returnedQuantity EXCEPT ![o][l] = @ + m]
  BY DEF MoveReturned
<1> QED BY <1>1, <1>2 DEF Baskets

\* The units put back on the shelf fit on it.
LEMMA RestockType ==
  ASSUME TypeOK, NEW l \in Listings, NEW n \in 0..MaxQuantity, Restock(l, n),
         UNCHANGED <<orderVars, request, clock>>
  PROVE  TypeOK'
<1>1. currentStock[l] + n \in 0..MaxStock /\ orderMovements[l] + n \in Int
  BY DEF Restock, TypeOK, InventoryTypeOK
<1>2. InventoryTypeOK'
  BY <1>1 DEF Restock, TypeOK, InventoryTypeOK
<1> QED BY <1>2 DEF TypeOK, orderVars

\* A step that leaves the orders alone keeps their types.
LEMMA UnchangedType == TypeOK /\ UNCHANGED vars => TypeOK'
BY DEF TypeOK, InventoryTypeOK, vars, stockVars, orderVars

\* Nothing is ordered and nothing returned to begin with.
LEMMA ReturnsInitIInv == ReturnsInit => ReturnsIInv
<1> SUFFICES ASSUME ReturnsInit PROVE ReturnsIInv
  OBVIOUS
<1>1. ReturnsTypeOK
  <2>1. EmptyBasket \in Baskets
    BY DEF EmptyBasket, Baskets
  <2>2. TypeOK
    BY InitType DEF ReturnsInit
  <2> QED BY <2>1, <2>2 DEF ReturnsInit, ReturnsTypeOK
<1>2. NothingUnordered
  BY DEF ReturnsInit, Init, NothingUnordered
<1>3. ReturnsBacked
  <2>1. ASSUME NEW o \in OrderIds, NEW l \in Listings, NEW statuses, "NONE" \notin statuses
        PROVE  Cardinality(UnitsUnder(orderReturn, statuses, o, l)) = 0
    <3>1. UnitsUnder(orderReturn, statuses, o, l) = {}
      BY <2>1 DEF ReturnsInit, UnitsUnder, NoReturn
    <3> QED BY <3>1, FS_EmptySet, Zenon
  <2>2. "NONE" \notin OpenStatuses /\ "NONE" \notin ReturnedStatuses
    BY DEF OpenStatuses, ReturnedStatuses
  <2>3. \A o \in OrderIds, l \in Listings :
          /\ reservedReturnQuantity[o][l] = 0 /\ returnedQuantity[o][l] = 0 /\ items[o][l] = 0
    BY DEF ReturnsInit, Init, EmptyBasket
  <2> QED BY <2>1, <2>2, <2>3 DEF ReturnsBacked
<1> QED BY <1>1, <1>2, <1>3 DEF ReturnsIInv

-----------------------------------------------------------------------------
(* Counting the units under return.                                        *)

\* The units of one return.
UnitsOf(r, n) == {r} \X (1..n)

\* A return of n units has n units.
LEMMA UnitsOfSize ==
  ASSUME NEW r, NEW n \in 0..MaxQuantity
  PROVE  IsFiniteSet(UnitsOf(r, n)) /\ Cardinality(UnitsOf(r, n)) = n
<1>1. IsFiniteSet({r}) /\ Cardinality({r}) = 1
  BY FS_Singleton
<1>2. IsFiniteSet(1..n) /\ Cardinality(1..n) = n
  BY FS_Interval
<1>3. /\ IsFiniteSet({r} \X (1..n))
      /\ Cardinality({r} \X (1..n)) = Cardinality({r}) * Cardinality(1..n)
  BY <1>1, <1>2, FS_Product, Zenon
<1>4. Cardinality({r}) * Cardinality(1..n) = n
  <2> DEFINE one == Cardinality({r})
             many == Cardinality(1..n)
  <2>1. one = 1 /\ many = n
    BY <1>1, <1>2
  <2> HIDE DEF one, many
  <2>2. one * many = n
    BY <2>1
  <2> QED BY <2>2 DEF one, many
<1> QED BY <1>3, <1>4, Zenon DEF UnitsOf

\* Any set of units under return can be counted.
LEMMA UnitsUnderFinite ==
  ASSUME NEW returns, NEW statuses, NEW o, NEW l
  PROVE  IsFiniteSet(UnitsUnder(returns, statuses, o, l))
<1>1. IsFiniteSet(1..MaxQuantity)
  BY FS_Interval
<1>2. IsFiniteSet(ReturnIds \X (1..MaxQuantity))
  BY <1>1, FS_Product
<1>3. UnitsUnder(returns, statuses, o, l) \in SUBSET (ReturnIds \X (1..MaxQuantity))
  BY DEF UnitsUnder
<1> QED BY <1>2, <1>3, FS_Subset

\* A set that gains, or loses, the units of one return.
LEMMA UnitsMoved ==
  ASSUME NEW A, IsFiniteSet(A), NEW r, NEW n \in 0..MaxQuantity, A \intersect UnitsOf(r, n) = {},
         NEW B, B = A \union UnitsOf(r, n)
  PROVE  Cardinality(B) = Cardinality(A) + n
<1> DEFINE U == UnitsOf(r, n)
<1>1. IsFiniteSet(U) /\ Cardinality(U) = n
  BY UnitsOfSize
<1> HIDE DEF U
<1>2. Cardinality(A \union U) = Cardinality(A) + Cardinality(U) - Cardinality(A \intersect U)
  BY <1>1, FS_Union, Zenon
<1>3. Cardinality(A \intersect U) = 0
  BY FS_EmptySet, Zenon DEF U
<1>4. Cardinality(A) \in Nat
  BY FS_CardinalityType
<1>5. Cardinality(B) = Cardinality(A \union U)
  BY Zenon DEF U
<1> QED BY <1>1, <1>2, <1>3, <1>4, <1>5

-----------------------------------------------------------------------------
(* One return of the table changes, seen from the lines.                   *)

\* The tables of returns, and one table that differs from another at r.
Tables == [ReturnIds -> Returns \union {NoReturn}]
Replaces(table, r, next, changed) == changed = [table EXCEPT ![r] = next]

\* How many units of line (o, l) are in returns of the given statuses.
Count(table, statuses, o, l) == Cardinality(UnitsUnder(table, statuses, o, l))

\* It enters the given statuses.
LEMMA ReturnEnters ==
  ASSUME NEW table \in Tables, NEW r \in ReturnIds, NEW next \in Returns, NEW changed,
         Replaces(table, r, next, changed),
         NEW statuses, table[r].status \notin statuses, next.status \in statuses
  PROVE  Count(changed, statuses, next.order, next.listing)
           = Count(table, statuses, next.order, next.listing) + next.quantity
<1> DEFINE A == UnitsUnder(table, statuses, next.order, next.listing)
           B == UnitsUnder(changed, statuses, next.order, next.listing)
           n == next.quantity
<1>1. n \in 0..MaxQuantity
  BY DEF Returns
<1>2. changed[r] = next /\ \A s \in ReturnIds \ {r} : changed[s] = table[s]
  BY DEF Tables, Replaces
<1>3. A \intersect UnitsOf(r, n) = {}
  BY DEF UnitsUnder, UnitsOf
<1>4. B = A \union UnitsOf(r, n)
  BY <1>1, <1>2 DEF UnitsUnder, UnitsOf
<1>5. IsFiniteSet(A)
  BY UnitsUnderFinite
<1> HIDE DEF A, B, n
<1>6. Cardinality(B) = Cardinality(A) + n
  BY <1>1, <1>3, <1>4, <1>5, UnitsMoved
<1> QED BY <1>6 DEF A, B, n, Count

\* It leaves them.
LEMMA ReturnLeaves ==
  ASSUME NEW table \in Tables, NEW r \in ReturnIds, NEW old \in Returns, table[r] = old,
         NEW next \in Returns, NEW changed, Replaces(table, r, next, changed),
         NEW statuses, old.status \in statuses, next.status \notin statuses
  PROVE  Count(changed, statuses, old.order, old.listing)
           = Count(table, statuses, old.order, old.listing) - old.quantity
<1> DEFINE A == UnitsUnder(table, statuses, old.order, old.listing)
           B == UnitsUnder(changed, statuses, old.order, old.listing)
           n == old.quantity
<1>1. n \in 0..MaxQuantity
  BY DEF Returns
<1>2. changed[r] = next /\ \A s \in ReturnIds \ {r} : changed[s] = table[s]
  BY DEF Tables, Replaces
<1>3. B \intersect UnitsOf(r, n) = {}
  BY <1>2 DEF UnitsUnder, UnitsOf
<1>4. A = B \union UnitsOf(r, n)
  BY <1>1, <1>2 DEF UnitsUnder, UnitsOf
<1>5. IsFiniteSet(B)
  BY UnitsUnderFinite
<1> HIDE DEF A, B, n
<1>6. Cardinality(A) = Cardinality(B) + n
  BY <1>1, <1>3, <1>4, <1>5, UnitsMoved
<1>7. Cardinality(B) \in Nat
  BY <1>5, FS_CardinalityType
<1>8. Cardinality(B) = Cardinality(A) - n
  BY <1>1, <1>6, <1>7
<1> QED BY <1>8 DEF A, B, n, Count

\* It stays out of them.
LEMMA ReturnOutside ==
  ASSUME NEW table \in Tables, NEW r \in ReturnIds, NEW next \in Returns, NEW changed,
         Replaces(table, r, next, changed),
         NEW statuses, table[r].status \notin statuses, next.status \notin statuses, NEW o, NEW l
  PROVE  Count(changed, statuses, o, l) = Count(table, statuses, o, l)
<1>1. changed[r] = next /\ \A s \in ReturnIds \ {r} : changed[s] = table[s]
  BY DEF Tables, Replaces
<1>2. UnitsUnder(changed, statuses, o, l) = UnitsUnder(table, statuses, o, l)
  BY <1>1 DEF UnitsUnder
<1> QED BY <1>2, Zenon DEF Count

\* It stays in them and stays the same return.
LEMMA ReturnInside ==
  ASSUME NEW table \in Tables, NEW r \in ReturnIds, NEW next \in Returns, NEW changed,
         Replaces(table, r, next, changed),
         NEW statuses, table[r].status \in statuses, next.status \in statuses,
         next.order = table[r].order, next.listing = table[r].listing,
         next.quantity = table[r].quantity, NEW o, NEW l
  PROVE  Count(changed, statuses, o, l) = Count(table, statuses, o, l)
<1>1. changed[r] = next /\ \A s \in ReturnIds \ {r} : changed[s] = table[s]
  BY DEF Tables, Replaces
<1>2. UnitsUnder(changed, statuses, o, l) = UnitsUnder(table, statuses, o, l)
  BY <1>1 DEF UnitsUnder
<1> QED BY <1>2, Zenon DEF Count

\* It is a return of another line.
LEMMA ReturnElsewhere ==
  ASSUME NEW table \in Tables, NEW r \in ReturnIds, NEW next \in Returns, NEW changed,
         Replaces(table, r, next, changed),
         NEW statuses, NEW o, NEW l, ~(next.order = o /\ next.listing = l),
         table[r].status \in statuses => ~(table[r].order = o /\ table[r].listing = l)
  PROVE  Count(changed, statuses, o, l) = Count(table, statuses, o, l)
<1>1. changed[r] = next /\ \A s \in ReturnIds \ {r} : changed[s] = table[s]
  BY DEF Tables, Replaces
<1>2. UnitsUnder(changed, statuses, o, l) = UnitsUnder(table, statuses, o, l)
  BY <1>1 DEF UnitsUnder
<1> QED BY <1>2, Zenon DEF Count

-----------------------------------------------------------------------------
(* The steps.                                                              *)

\* A return of line (o, l) changes; n units more are under return, m more returned.
LEMMA ColumnsFollow ==
  ASSUME ReturnsIInv, NEW r \in ReturnIds, NEW next \in Returns,
         Replaces(orderReturn, r, next, orderReturn'),
         NEW o \in OrderIds, NEW l \in Listings, o = next.order, l = next.listing,
         orderReturn[r].status # "NONE" => orderReturn[r].order = o /\ orderReturn[r].listing = l,
         NEW n \in Int, NEW m \in Int, MoveReturned(o, l, n, m),
         Count(orderReturn', OpenStatuses, o, l) = Count(orderReturn, OpenStatuses, o, l) + n,
         Count(orderReturn', ReturnedStatuses, o, l)
           = Count(orderReturn, ReturnedStatuses, o, l) + m,
         reservedReturnQuantity[o][l] + n + returnedQuantity[o][l] + m <= items[o][l],
         TypeOK', UNCHANGED <<status, items>>
  PROVE  ReturnsIInv'
<1>0. ReturnsTypeOK /\ NothingUnordered /\ ReturnsBacked /\ orderReturn \in Tables
  BY DEF ReturnsIInv, ReturnsTypeOK, Tables
<1>1. \A p \in OrderIds, k \in Listings :
        /\ items[p][k] \in 0..MaxQuantity /\ reservedReturnQuantity[p][k] \in 0..MaxQuantity
        /\ returnedQuantity[p][k] \in 0..MaxQuantity
        /\ reservedReturnQuantity[p][k] = Count(orderReturn, OpenStatuses, p, k)
        /\ returnedQuantity[p][k] = Count(orderReturn, ReturnedStatuses, p, k)
        /\ reservedReturnQuantity[p][k] + returnedQuantity[p][k] <= items[p][k]
  BY <1>0 DEF ReturnsBacked, ReturnsTypeOK, TypeOK, Baskets, Count
<1>2. /\ Count(orderReturn', OpenStatuses, o, l) \in Nat
      /\ Count(orderReturn', ReturnedStatuses, o, l) \in Nat
  <2>1. /\ IsFiniteSet(UnitsUnder(orderReturn', OpenStatuses, o, l))
        /\ IsFiniteSet(UnitsUnder(orderReturn', ReturnedStatuses, o, l))
    BY UnitsUnderFinite
  <2> QED BY <2>1, FS_CardinalityType, Zenon DEF Count
<1>3. /\ reservedReturnQuantity[o][l] + n \in 0..MaxQuantity
      /\ returnedQuantity[o][l] + m \in 0..MaxQuantity
  BY <1>1, <1>2
<1>4. /\ reservedReturnQuantity' \in [OrderIds -> Baskets]
      /\ returnedQuantity' \in [OrderIds -> Baskets]
      /\ \A p \in OrderIds, k \in Listings :
           /\ reservedReturnQuantity'[p][k]
                = reservedReturnQuantity[p][k] + IF p = o /\ k = l THEN n ELSE 0
           /\ returnedQuantity'[p][k] = returnedQuantity[p][k] + IF p = o /\ k = l THEN m ELSE 0
  BY <1>0, <1>3, MoveType, SMTT(20)
<1>5. ReturnsTypeOK' /\ NothingUnordered'
  BY <1>0, <1>4, StoreType DEF ReturnsTypeOK, NothingUnordered, Replaces
<1>6. ASSUME NEW p \in OrderIds, NEW k \in Listings
      PROVE  /\ reservedReturnQuantity'[p][k] = Count(orderReturn', OpenStatuses, p, k)
             /\ returnedQuantity'[p][k] = Count(orderReturn', ReturnedStatuses, p, k)
             /\ reservedReturnQuantity'[p][k] + returnedQuantity'[p][k] <= items'[p][k]
  <2>1. CASE p = o /\ k = l
    <3>1. /\ reservedReturnQuantity'[o][l] = reservedReturnQuantity[o][l] + n
          /\ returnedQuantity'[o][l] = returnedQuantity[o][l] + m
      BY <1>4
    <3> QED BY <1>1, <2>1, <3>1
  <2>2. CASE ~(p = o /\ k = l)
    <3>1. /\ ~(next.order = p /\ next.listing = k)
          /\ orderReturn[r].status \in OpenStatuses => ~(orderReturn[r].order = p /\ orderReturn[r].listing = k)
          /\ orderReturn[r].status \in ReturnedStatuses => ~(orderReturn[r].order = p /\ orderReturn[r].listing = k)
      BY <2>2 DEF OpenStatuses, ReturnedStatuses
    <3>2. Count(orderReturn', OpenStatuses, p, k) = Count(orderReturn, OpenStatuses, p, k)
      BY <1>0, <3>1, ReturnElsewhere
    <3>3. Count(orderReturn', ReturnedStatuses, p, k) = Count(orderReturn, ReturnedStatuses, p, k)
      BY <1>0, <3>1, ReturnElsewhere
    <3>4. /\ reservedReturnQuantity'[p][k] = reservedReturnQuantity[p][k]
          /\ returnedQuantity'[p][k] = returnedQuantity[p][k]
      BY <1>1, <1>4, <2>2
    <3> QED BY <1>1, <3>2, <3>3, <3>4
  <2> QED BY <2>1, <2>2
<1>7. ReturnsBacked'
  BY <1>6 DEF ReturnsBacked, Count
<1> QED BY <1>5, <1>7 DEF ReturnsIInv

\* A request puts its units under return.
LEMMA RequestKeeps ==
  ASSUME ReturnsIInv, NEW r \in ReturnIds, NEW o \in OrderIds, NEW l \in Listings,
         NEW q \in 1..MaxQuantity, RequestOrderReturn(r, o, l, q)
  PROVE  ReturnsIInv'
<1> DEFINE next == [status |-> "REQUESTED", order |-> o, listing |-> l,
                    quantity |-> q, restockQuantity |-> 0]
<1>0. ReturnsTypeOK /\ orderReturn \in Tables /\ UNCHANGED vars
  BY DEF ReturnsIInv, ReturnsTypeOK, Tables, RequestOrderReturn
<1>1. /\ next \in Returns /\ next.order = o /\ next.listing = l /\ next.quantity = q
      /\ next.status = "REQUESTED"
  BY DEF Returns, ReturnStatuses
<1>2. Replaces(orderReturn, r, next, orderReturn') /\ orderReturn[r].status = "NONE"
  BY DEF RequestOrderReturn, Replaces
<1> HIDE DEF next
<1>3. reservedReturnQuantity[o][l] + q + returnedQuantity[o][l] + 0 <= items[o][l]
  BY <1>0 DEF RequestOrderReturn, Returnable, ReturnsTypeOK, TypeOK, Baskets
<1>4. Count(orderReturn', OpenStatuses, o, l) = Count(orderReturn, OpenStatuses, o, l) + q
  <2>1. next.status \in OpenStatuses /\ orderReturn[r].status \notin OpenStatuses
    BY <1>1, <1>2 DEF OpenStatuses
  <2>2. Count(orderReturn', OpenStatuses, next.order, next.listing)
          = Count(orderReturn, OpenStatuses, next.order, next.listing) + next.quantity
    BY <1>0, <1>1, <1>2, <2>1, ReturnEnters
  <2> QED BY <1>1, <2>2
<1>5. Count(orderReturn', ReturnedStatuses, o, l) = Count(orderReturn, ReturnedStatuses, o, l) + 0
  <2>1. orderReturn[r].status \notin ReturnedStatuses /\ next.status \notin ReturnedStatuses
    BY <1>1, <1>2 DEF ReturnedStatuses
  <2>2. Count(orderReturn', ReturnedStatuses, o, l) = Count(orderReturn, ReturnedStatuses, o, l)
    BY <1>0, <1>1, <1>2, <2>1, ReturnOutside
  <2>3. Count(orderReturn, ReturnedStatuses, o, l) \in Nat
    BY UnitsUnderFinite, FS_CardinalityType, Zenon DEF Count
  <2> QED BY <2>2, <2>3
<1>6. TypeOK' /\ UNCHANGED <<status, items>>
  BY <1>0, UnchangedType DEF ReturnsTypeOK, vars, orderVars
<1>7. MoveReturned(o, l, q, 0)
  BY DEF RequestOrderReturn
<1>8. q \in Int /\ 0 \in Int
  OBVIOUS
<1> QED BY <1>1, <1>2, <1>3, <1>4, <1>5, <1>6, <1>7, <1>8, ColumnsFollow, ZenonT(60)

\* A return goes on being open and stays what it is: no column has to move.
LEMMA ColumnsStay ==
  ASSUME ReturnsIInv, NEW r \in ReturnIds, NEW next \in Returns,
         Replaces(orderReturn, r, next, orderReturn'),
         orderReturn[r].status \in OpenStatuses, next.status \in OpenStatuses,
         next.order = orderReturn[r].order, next.listing = orderReturn[r].listing,
         next.quantity = orderReturn[r].quantity,
         UNCHANGED <<reservedReturnQuantity, returnedQuantity, vars>>
  PROVE  ReturnsIInv'
<1>0. ReturnsTypeOK /\ NothingUnordered /\ ReturnsBacked /\ orderReturn \in Tables
  BY DEF ReturnsIInv, ReturnsTypeOK, Tables
<1>1. ReturnsTypeOK' /\ NothingUnordered'
  BY <1>0, StoreType, UnchangedType DEF ReturnsTypeOK, NothingUnordered, Replaces, vars, orderVars
<1>2. ASSUME NEW o \in OrderIds, NEW l \in Listings
      PROVE  /\ Count(orderReturn', OpenStatuses, o, l) = Count(orderReturn, OpenStatuses, o, l)
             /\ Count(orderReturn', ReturnedStatuses, o, l) = Count(orderReturn, ReturnedStatuses, o, l)
  <2>1. Count(orderReturn', OpenStatuses, o, l) = Count(orderReturn, OpenStatuses, o, l)
    BY <1>0, ReturnInside
  <2>2. orderReturn[r].status \notin ReturnedStatuses /\ next.status \notin ReturnedStatuses
    BY DEF OpenStatuses, ReturnedStatuses
  <2>3. Count(orderReturn', ReturnedStatuses, o, l) = Count(orderReturn, ReturnedStatuses, o, l)
    BY <1>0, <2>2, ReturnOutside
  <2> QED BY <2>1, <2>3
<1>3. ReturnsBacked'
  <2>1. UNCHANGED <<reservedReturnQuantity, returnedQuantity, items>>
    BY DEF vars, orderVars
  <2> QED BY <1>0, <1>2, <2>1 DEF ReturnsBacked, Count
<1> QED BY <1>1, <1>3 DEF ReturnsIInv

\* Authorisation and receipt move no unit.
LEMMA AdvanceKeeps ==
  ASSUME ReturnsIInv, NEW r \in ReturnIds,
         AuthorizeOrderReturn(r) \/ ReceiveOrderReturn(r)
  PROVE  ReturnsIInv'
<1>1. ASSUME NEW from \in OpenStatuses, NEW to \in OpenStatuses, Advance(r, from, to)
      PROVE  ReturnsIInv'
  <2> DEFINE old == orderReturn[r]
             next == [old EXCEPT !.status = to]
  <2>1. old \in Returns /\ from # "NONE" /\ to \in ReturnStatuses
    BY <1>1, ReturnType DEF Advance, OpenStatuses, ReturnStatuses, ReturnsIInv
  <2>2. /\ next \in Returns /\ next.status = to /\ next.order = old.order
        /\ next.listing = old.listing /\ next.quantity = old.quantity
    BY <2>1 DEF Returns
  <2>3. Replaces(orderReturn, r, next, orderReturn')
    BY <1>1, Zenon DEF Advance, Replaces
  <2>4. /\ old.status \in OpenStatuses
        /\ UNCHANGED <<reservedReturnQuantity, returnedQuantity, vars>>
    BY <1>1 DEF Advance
  <2> HIDE DEF next
  <2> QED BY <1>1, <2>2, <2>3, <2>4, ColumnsStay
<1> QED BY <1>1 DEF AuthorizeOrderReturn, ReceiveOrderReturn, OpenStatuses

\* Inspection says what can be resold, and moves no unit.
LEMMA InspectKeeps ==
  ASSUME ReturnsIInv, NEW r \in ReturnIds, NEW restock \in 0..MaxQuantity,
         InspectOrderReturn(r, restock)
  PROVE  ReturnsIInv'
<1> DEFINE old == orderReturn[r]
           next == [old EXCEPT !.status = "INSPECTED", !.restockQuantity = restock]
<1>1. old \in Returns
  BY ReturnType DEF InspectOrderReturn, ReturnsIInv
<1>2. /\ next \in Returns /\ next.status = "INSPECTED" /\ next.order = old.order
      /\ next.listing = old.listing /\ next.quantity = old.quantity
  BY <1>1 DEF Returns, ReturnStatuses
<1>3. Replaces(orderReturn, r, next, orderReturn')
  BY DEF InspectOrderReturn, Replaces, ReturnsIInv, ReturnsTypeOK
<1>4. /\ old.status \in OpenStatuses /\ next.status \in OpenStatuses
      /\ UNCHANGED <<reservedReturnQuantity, returnedQuantity, vars>>
  BY <1>2 DEF InspectOrderReturn, OpenStatuses
<1> HIDE DEF next
<1> QED BY <1>2, <1>3, <1>4, ColumnsStay

\* A cancelled return gives its units back to what may be returned.
LEMMA CancelKeeps ==
  ASSUME ReturnsIInv, NEW r \in ReturnIds, CancelOrderReturn(r)
  PROVE  ReturnsIInv'
<1> DEFINE old == orderReturn[r]
           next == [old EXCEPT !.status = "CANCELLED"]
           o == old.order
           l == old.listing
           q == old.quantity
<1>0. ReturnsTypeOK /\ ReturnsBacked /\ orderReturn \in Tables /\ UNCHANGED vars
  BY DEF ReturnsIInv, ReturnsTypeOK, Tables, CancelOrderReturn
<1>1. old \in Returns /\ o \in OrderIds /\ l \in Listings /\ q \in 0..MaxQuantity
  BY <1>0, ReturnType DEF CancelOrderReturn, Returns
<1>2. next \in Returns /\ next.status = "CANCELLED" /\ next.order = o /\ next.listing = l
  BY <1>1 DEF Returns, ReturnStatuses
<1>3. /\ Replaces(orderReturn, r, next, orderReturn') /\ old.status = "REQUESTED"
      /\ MoveReturned(o, l, -q, 0)
  BY Zenon DEF CancelOrderReturn, Replaces
<1> HIDE DEF next, o, l, q
<1>4. Count(orderReturn', OpenStatuses, o, l) = Count(orderReturn, OpenStatuses, o, l) + (-q)
  <2>1. old.status \in OpenStatuses /\ next.status \notin OpenStatuses
    BY <1>2, <1>3 DEF OpenStatuses
  <2>2. Count(orderReturn', OpenStatuses, old.order, old.listing)
          = Count(orderReturn, OpenStatuses, old.order, old.listing) - old.quantity
    BY <1>0, <1>1, <1>2, <1>3, <2>1, ReturnLeaves
  <2>3. Count(orderReturn, OpenStatuses, o, l) \in Nat
    BY UnitsUnderFinite, FS_CardinalityType, Zenon DEF Count
  <2> QED BY <1>1, <2>2, <2>3 DEF o, l, q
<1>5. Count(orderReturn', ReturnedStatuses, o, l) = Count(orderReturn, ReturnedStatuses, o, l) + 0
  <2>1. old.status \notin ReturnedStatuses /\ next.status \notin ReturnedStatuses
    BY <1>2, <1>3 DEF ReturnedStatuses
  <2>2. Count(orderReturn', ReturnedStatuses, o, l) = Count(orderReturn, ReturnedStatuses, o, l)
    BY <1>0, <1>2, <1>3, <2>1, ReturnOutside
  <2>3. Count(orderReturn, ReturnedStatuses, o, l) \in Nat
    BY UnitsUnderFinite, FS_CardinalityType, Zenon DEF Count
  <2> QED BY <2>2, <2>3
<1>6. reservedReturnQuantity[o][l] + (-q) + returnedQuantity[o][l] + 0 <= items[o][l]
  BY <1>0, <1>1 DEF ReturnsBacked, ReturnsTypeOK, TypeOK, Baskets
<1>7. TypeOK' /\ UNCHANGED <<status, items>>
  BY <1>0, UnchangedType DEF ReturnsTypeOK, vars, orderVars
<1>8. -q \in Int /\ 0 \in Int
  BY <1>1
<1>9. old.status # "NONE" => old.order = o /\ old.listing = l
  BY DEF o, l
<1> QED BY <1>1, <1>2, <1>3, <1>4, <1>5, <1>6, <1>7, <1>8, <1>9, ColumnsFollow, ZenonT(60)

\* A completed return's units stop being under return and are returned.
LEMMA CompleteKeeps ==
  ASSUME ReturnsIInv, NEW r \in ReturnIds, CompleteOrderReturn(r)
  PROVE  ReturnsIInv'
<1> DEFINE old == orderReturn[r]
           next == [old EXCEPT !.status = "COMPLETED"]
           o == old.order
           l == old.listing
           q == old.quantity
<1>0. ReturnsTypeOK /\ TypeOK /\ ReturnsBacked /\ orderReturn \in Tables
  BY DEF ReturnsIInv, ReturnsTypeOK, Tables
<1>1. /\ old \in Returns /\ o \in OrderIds /\ l \in Listings /\ q \in 0..MaxQuantity
      /\ old.restockQuantity \in 0..MaxQuantity
  BY <1>0, ReturnType DEF CompleteOrderReturn, Returns
<1>2. next \in Returns /\ next.status = "COMPLETED" /\ next.order = o /\ next.listing = l
  BY <1>1 DEF Returns, ReturnStatuses
<1>3. /\ Replaces(orderReturn, r, next, orderReturn') /\ old.status = "INSPECTED"
      /\ MoveReturned(o, l, -q, q)
      /\ Restock(l, old.restockQuantity) /\ UNCHANGED <<orderVars, request, clock>>
  BY Zenon DEF CompleteOrderReturn, Replaces
<1> HIDE DEF next, o, l, q
<1>4. Count(orderReturn', OpenStatuses, o, l) = Count(orderReturn, OpenStatuses, o, l) + (-q)
  <2>1. old.status \in OpenStatuses /\ next.status \notin OpenStatuses
    BY <1>2, <1>3 DEF OpenStatuses
  <2>2. Count(orderReturn', OpenStatuses, old.order, old.listing)
          = Count(orderReturn, OpenStatuses, old.order, old.listing) - old.quantity
    BY <1>0, <1>1, <1>2, <1>3, <2>1, ReturnLeaves
  <2>3. Count(orderReturn, OpenStatuses, o, l) \in Nat
    BY UnitsUnderFinite, FS_CardinalityType, Zenon DEF Count
  <2> QED BY <1>1, <2>2, <2>3 DEF o, l, q
<1>5. Count(orderReturn', ReturnedStatuses, o, l) = Count(orderReturn, ReturnedStatuses, o, l) + q
  <2>1. old.status \notin ReturnedStatuses /\ next.status \in ReturnedStatuses
    BY <1>2, <1>3 DEF ReturnedStatuses
  <2>2. Count(orderReturn', ReturnedStatuses, next.order, next.listing)
          = Count(orderReturn, ReturnedStatuses, next.order, next.listing) + next.quantity
    BY <1>0, <1>2, <1>3, <2>1, ReturnEnters
  <2>3. next.quantity = q
    BY <1>1 DEF next, q, Returns
  <2> QED BY <1>2, <2>2, <2>3
<1>6. reservedReturnQuantity[o][l] + (-q) + returnedQuantity[o][l] + q <= items[o][l]
  BY <1>0, <1>1 DEF ReturnsBacked, ReturnsTypeOK, TypeOK, Baskets
<1>7. TypeOK' /\ UNCHANGED <<status, items>>
  BY <1>0, <1>1, <1>3, RestockType DEF orderVars
<1>8. -q \in Int /\ q \in Int
  BY <1>1
<1>9. old.status # "NONE" => old.order = o /\ old.listing = l
  BY DEF o, l
<1> QED BY <1>1, <1>2, <1>3, <1>4, <1>5, <1>6, <1>7, <1>8, <1>9, ColumnsFollow, ZenonT(60)

\* The operations of the orders leave the returns and the quantities ordered alone.
LEMMA OrdersKeep ==
  ASSUME ReturnsIInv, [Next]_vars, UNCHANGED returnVars
  PROVE  ReturnsIInv'
<1>0. ReturnsTypeOK /\ TypeOK /\ NothingUnordered /\ ReturnsBacked
  BY DEF ReturnsIInv, ReturnsTypeOK
<1>1. TypeOK'
  BY <1>0, NextType
<1>2. NothingUnordered' /\ \A o \in OrderIds : items'[o] = items[o] \/ status[o] = "NONE"
  BY <1>0, PlacedItemsKept
<1>3. ReturnsTypeOK'
  BY <1>0, <1>1 DEF ReturnsTypeOK, returnVars
<1>4. ASSUME NEW o \in OrderIds, NEW l \in Listings
      PROVE  reservedReturnQuantity[o][l] + returnedQuantity[o][l] <= items'[o][l]
  <2>1. /\ reservedReturnQuantity[o][l] \in Nat /\ returnedQuantity[o][l] \in Nat
        /\ items'[o][l] \in Nat
        /\ reservedReturnQuantity[o][l] + returnedQuantity[o][l] <= items[o][l]
    BY <1>0, <1>1 DEF ReturnsTypeOK, TypeOK, Baskets, ReturnsBacked
  <2>2. CASE items'[o] = items[o]
    BY <2>1, <2>2
  <2>3. CASE status[o] = "NONE"
    BY <1>0, <2>1, <2>3 DEF NothingUnordered, EmptyBasket
  <2> QED BY <1>2, <2>2, <2>3
<1>5. UNCHANGED <<orderReturn, reservedReturnQuantity, returnedQuantity>>
  BY DEF returnVars
<1>6. ReturnsBacked'
  BY <1>0, <1>4, <1>5 DEF ReturnsBacked
<1> QED BY <1>2, <1>3, <1>6 DEF ReturnsIInv

\* Every step keeps the columns.
LEMMA ReturnsStep == ReturnsIInv /\ [ReturnsNext]_returnsVars => ReturnsIInv'
<1> SUFFICES ASSUME ReturnsIInv, [ReturnsNext]_returnsVars PROVE ReturnsIInv'
  OBVIOUS
<1>1. CASE Next /\ UNCHANGED returnVars
  BY <1>1, OrdersKeep
<1>2. ASSUME NEW r \in ReturnIds, ReturnNext(r) PROVE ReturnsIInv'
  BY <1>2, RequestKeeps, CancelKeeps, AdvanceKeeps, InspectKeeps, CompleteKeeps DEF ReturnNext
<1>3. CASE UNCHANGED returnsVars
  BY <1>3, OrdersKeep DEF returnsVars
<1> QED BY <1>1, <1>2, <1>3 DEF ReturnsNext

-----------------------------------------------------------------------------
(* The books under returns.  What a completed return puts on the shelf is  *)
(* written as an order movement, and nothing else about returns is.        *)

\* A return that is not completed, before and after, restocks nothing.
LEMMA RestockedStays ==
  ASSUME ReturnsTypeOK, NEW r \in ReturnIds, NEW next, Replaces(orderReturn, r, next, orderReturn'),
         orderReturn[r].status # "COMPLETED", next.status # "COMPLETED", NEW l
  PROVE  UnitsRestocked(l)' = UnitsRestocked(l)
<1>1. orderReturn'[r] = next /\ \A s \in ReturnIds \ {r} : orderReturn'[s] = orderReturn[s]
  BY DEF ReturnsTypeOK, Replaces
<1> QED BY <1>1 DEF UnitsRestocked

\* The units on a shelf can be counted.
LEMMA RestockedFinite ==
  ASSUME NEW l
  PROVE  IsFiniteSet(UnitsRestocked(l)) /\ IsFiniteSet(UnitsRestocked(l)')
<1>1. IsFiniteSet(1..MaxQuantity)
  BY FS_Interval
<1>2. IsFiniteSet(ReturnIds \X (1..MaxQuantity))
  BY <1>1, FS_Product
<1>3. /\ UnitsRestocked(l) \in SUBSET (ReturnIds \X (1..MaxQuantity))
      /\ UnitsRestocked(l)' \in SUBSET (ReturnIds \X (1..MaxQuantity))
  BY DEF UnitsRestocked
<1> QED BY <1>2, <1>3, FS_Subset

\* Completion restocks what inspection found resellable, on its listing only.
LEMMA RestockedGrows ==
  ASSUME ReturnsTypeOK, NEW r \in ReturnIds, CompleteOrderReturn(r), NEW l
  PROVE  Cardinality(UnitsRestocked(l)')
           = Cardinality(UnitsRestocked(l))
               + IF orderReturn[r].listing = l THEN orderReturn[r].restockQuantity ELSE 0
<1> DEFINE n == IF orderReturn[r].listing = l THEN orderReturn[r].restockQuantity ELSE 0
           A == UnitsRestocked(l)
           B == UnitsRestocked(l)'
<1>1. orderReturn[r] \in Returns
  BY ReturnType DEF CompleteOrderReturn
<1>2. n \in 0..MaxQuantity /\ orderReturn[r].restockQuantity \in 0..MaxQuantity
  BY <1>1 DEF Returns
<1>3. /\ orderReturn' = [orderReturn EXCEPT ![r].status = "COMPLETED"]
      /\ orderReturn[r].status = "INSPECTED"
  BY DEF CompleteOrderReturn
<1>4. /\ orderReturn'[r].status = "COMPLETED" /\ orderReturn'[r].listing = orderReturn[r].listing
      /\ orderReturn'[r].restockQuantity = orderReturn[r].restockQuantity
      /\ \A s \in ReturnIds \ {r} : orderReturn'[s] = orderReturn[s]
  BY <1>1, <1>3 DEF ReturnsTypeOK, Returns
<1>5. A \intersect UnitsOf(r, n) = {}
  BY <1>3 DEF UnitsRestocked, UnitsOf
<1>6. B = A \union UnitsOf(r, n)
  <2>1. CASE orderReturn[r].listing = l
    BY <1>2, <1>3, <1>4, <2>1 DEF UnitsRestocked, UnitsOf
  <2>2. CASE orderReturn[r].listing # l
    <3>1. UnitsOf(r, n) = {}
      BY <2>2 DEF UnitsOf
    <3>2. B = A
      BY <1>3, <1>4, <2>2 DEF UnitsRestocked
    <3> QED BY <3>1, <3>2, Zenon
  <2> QED BY <2>1, <2>2
<1>7. IsFiniteSet(A)
  BY RestockedFinite
<1> HIDE DEF n, A, B
<1>8. Cardinality(B) = Cardinality(A) + n
  BY <1>2, <1>5, <1>6, <1>7, UnitsMoved
<1> QED BY <1>8 DEF A, B, n

\* The order movements, the completed returns and the fulfilled orders move together.
LEMMA ReturnsSales ==
  ASSUME ReturnsTypeOK, [ReturnsNext]_returnsVars, NEW l \in NewListings
  PROVE  orderMovements'[l] + Cardinality(Units(items', Fulfilled', l)) - Cardinality(UnitsRestocked(l)')
           = orderMovements[l] + Cardinality(Units(items, Fulfilled, l)) - Cardinality(UnitsRestocked(l))
<1> DEFINE before == Cardinality(Units(items, Fulfilled, l))
           after == Cardinality(Units(items', Fulfilled', l))
           restocked == Cardinality(UnitsRestocked(l))
           restockedAfter == Cardinality(UnitsRestocked(l)')
           Balanced == orderMovements'[l] + after - restockedAfter
                         = orderMovements[l] + before - restocked
<1>0. before \in Nat /\ restocked \in Nat /\ orderMovements[l] \in Int
  <2>1. Fulfilled \in SUBSET OrderIds
    BY DEF Fulfilled
  <2>2. before \in Nat /\ restocked \in Nat
    BY <2>1, UnitsFinite, RestockedFinite, FS_CardinalityType, Zenon
  <2> QED BY <2>2 DEF ReturnsTypeOK, TypeOK, InventoryTypeOK, Listings
<1>1. ASSUME [Next]_vars, UNCHANGED returnVars PROVE Balanced
  <2>1. orderMovements'[l] + after = orderMovements[l] + before
    BY <1>1, NextEffect, EffectSales DEF ReturnsTypeOK
  <2>2. UnitsRestocked(l)' = UnitsRestocked(l)
    BY <1>1 DEF returnVars, UnitsRestocked
  <2>3. restockedAfter = restocked
    BY <2>2, Zenon
  <2>4. after \in Nat
    <3>1. Fulfilled' \in SUBSET OrderIds
      BY DEF Fulfilled
    <3> QED BY <3>1, UnitsFinite, FS_CardinalityType, Zenon
  <2>5. orderMovements'[l] \in Int
    BY <1>1, NextType DEF ReturnsTypeOK, TypeOK, InventoryTypeOK, Listings
  <2> HIDE DEF before, after, restocked, restockedAfter
  <2> QED BY <1>0, <2>1, <2>3, <2>4, <2>5
<1>2. ASSUME NEW r \in ReturnIds, NEW next, Replaces(orderReturn, r, next, orderReturn'),
             orderReturn[r].status # "COMPLETED", next.status # "COMPLETED", UNCHANGED vars
      PROVE  Balanced
  <2>1. UnitsRestocked(l)' = UnitsRestocked(l)
    BY <1>2, RestockedStays
  <2>2. UNCHANGED <<orderMovements, items, status>>
    BY <1>2 DEF vars, stockVars, orderVars
  <2>3. Units(items', Fulfilled', l) = Units(items, Fulfilled, l)
    BY <2>2 DEF Fulfilled
  <2>4. after = before /\ restockedAfter = restocked
    BY <2>1, <2>3, Zenon
  <2> HIDE DEF before, after, restocked, restockedAfter
  <2> QED BY <2>2, <2>4
<1>3. ASSUME NEW r \in ReturnIds, CompleteOrderReturn(r) PROVE Balanced
  <2> DEFINE n == IF orderReturn[r].listing = l THEN orderReturn[r].restockQuantity ELSE 0
  <2>1. restockedAfter = restocked + n
    BY <1>3, RestockedGrows
  <2>3. orderReturn[r] \in Returns
    BY <1>3, ReturnType DEF CompleteOrderReturn
  <2>4. n \in Nat /\ orderMovements'[l] = orderMovements[l] + n
    BY <1>0, <1>3, <2>3 DEF Returns, CompleteOrderReturn, Restock, ReturnsTypeOK, TypeOK, InventoryTypeOK,
                            Listings
  <2>5. Units(items', Fulfilled', l) = Units(items, Fulfilled, l)
    BY <1>3 DEF CompleteOrderReturn, orderVars, Fulfilled
  <2>6. after = before
    BY <2>5, Zenon
  <2> HIDE DEF before, after, restocked, restockedAfter, n
  <2> QED BY <1>0, <2>1, <2>4, <2>6
<1>4. ASSUME NEW r \in ReturnIds, ReturnNext(r) PROVE Balanced
  <2>0. orderReturn \in [ReturnIds -> Returns \union {NoReturn}]
    BY DEF ReturnsTypeOK
  <2>1. ASSUME NEW o \in OrderIds, NEW k \in Listings, NEW q \in 1..MaxQuantity, RequestOrderReturn(r, o, k, q)
        PROVE  Balanced
    <3> DEFINE next == [status |-> "REQUESTED", order |-> o, listing |-> k, quantity |-> q,
                        restockQuantity |-> 0]
    <3>1. /\ Replaces(orderReturn, r, next, orderReturn') /\ next.status = "REQUESTED"
          /\ orderReturn[r].status = "NONE" /\ UNCHANGED vars
      BY <2>1, Zenon DEF RequestOrderReturn, Replaces
    <3> HIDE DEF next
    <3> QED BY <1>2, <3>1
  <2>2. ASSUME NEW s \in ReturnStatuses \ {"COMPLETED"}, orderReturn[r].status \notin {"NONE", "COMPLETED"},
               orderReturn' = [orderReturn EXCEPT ![r].status = s], UNCHANGED vars
        PROVE  Balanced
    <3> DEFINE next == [orderReturn[r] EXCEPT !.status = s]
    <3>1. orderReturn[r] \in Returns
      BY <2>2, ReturnType
    <3>2. next.status = s
      BY <3>1 DEF Returns
    <3>3. Replaces(orderReturn, r, next, orderReturn')
      BY <2>2, Zenon DEF Replaces
    <3> HIDE DEF next
    <3> QED BY <1>2, <2>2, <3>2, <3>3
  <2>3. CASE CancelOrderReturn(r)
    BY <2>2, <2>3 DEF CancelOrderReturn, ReturnStatuses
  <2>4. CASE AuthorizeOrderReturn(r) \/ ReceiveOrderReturn(r)
    BY <2>2, <2>4 DEF AuthorizeOrderReturn, ReceiveOrderReturn, Advance, ReturnStatuses
  <2>5. ASSUME NEW restock \in 0..MaxQuantity, InspectOrderReturn(r, restock) PROVE Balanced
    <3> DEFINE next == [orderReturn[r] EXCEPT !.status = "INSPECTED", !.restockQuantity = restock]
    <3>1. orderReturn[r] \in Returns /\ orderReturn[r].status = "RECEIVED" /\ UNCHANGED vars
      BY <2>5, ReturnType DEF InspectOrderReturn
    <3>2. next.status = "INSPECTED"
      BY <3>1 DEF Returns
    <3>3. Replaces(orderReturn, r, next, orderReturn')
      BY <2>0, <2>5 DEF InspectOrderReturn, Replaces
    <3> HIDE DEF next
    <3> QED BY <1>2, <3>1, <3>2, <3>3
  <2> QED BY <1>3, <1>4, <2>1, <2>3, <2>4, <2>5 DEF ReturnNext
<1>5. CASE UNCHANGED returnsVars
  BY <1>1, <1>5 DEF returnsVars
<1> QED BY <1>1, <1>4, <1>5 DEF ReturnsNext

\* What a return restocks is stock: reservations, Used offers and the ledger
\* stay right, because inspection lets no Used item back on the shelf.
LEMMA RestockKeeps ==
  ASSUME IInv, NEW r \in ReturnIds, CompleteOrderReturn(r), orderReturn[r] \in Returns
  PROVE  IInv'
<1> DEFINE l == orderReturn[r].listing
           n == orderReturn[r].restockQuantity
<1>1. /\ l \in Listings /\ n \in 0..MaxQuantity /\ (l \in UsedListings => n = 0)
      /\ Restock(l, n) /\ UNCHANGED <<orderVars, request, clock>>
  BY DEF CompleteOrderReturn, Returns
<1> HIDE DEF l, n
<1>2. TypeOK'
  BY <1>1, RestockType DEF IInv
<1> USE <1>1 DEF IInv, TypeOK, InventoryTypeOK, Restock
<1>3. NoOversell' /\ UsedOfferConsistent' /\ LedgerExplainsStock'
  <2>1. \A k \in Listings :
          /\ currentStock'[k] = currentStock[k] + IF k = l THEN n ELSE 0
          /\ orderMovements'[k] = orderMovements[k] + IF k = l THEN n ELSE 0
    OBVIOUS
  <2>2. NoOversell' /\ LedgerExplainsStock'
    BY <2>1 DEF StockInv, NoOversell, LedgerExplainsStock
  <2>3. UsedOfferConsistent'
    <3>1. \A u \in UsedListings : currentStock'[u] = currentStock[u] /\ orderMovements'[u] = orderMovements[u]
      BY <2>1 DEF Listings
    <3> QED BY <3>1 DEF StockInv, UsedOfferConsistent
  <2> QED BY <2>2, <2>3
<1>4. ReservedBacked'
  BY DEF ReservedBacked, Pending, orderVars
<1> QED BY <1>2, <1>3, <1>4 DEF StockInv

-----------------------------------------------------------------------------
(* The theorems.                                                           *)

\* The inductive invariant: types, no quantities before an order, and the columns.
THEOREM ReturnsInductive == ReturnsSpec => []ReturnsIInv
BY ReturnsInitIInv, ReturnsStep, PTL DEF ReturnsSpec

\* orderReturnService.ts: every return names a line of an order, and no column
\* passes what an order line can hold.
THEOREM ReturnsTypeCorrect == ReturnsSpec => []ReturnsTypeOK
<1>1. ReturnsIInv => ReturnsTypeOK
  BY DEF ReturnsIInv
<1> QED BY <1>1, ReturnsInductive, PTL

\* orderReturnService.ts: however many returns of a line run at once, its columns
\* count exactly the open and the completed ones, and never more than was bought.
THEOREM ReturnsAreBacked == ReturnsSpec => []ReturnsBacked
<1>1. ReturnsIInv => ReturnsBacked
  BY DEF ReturnsIInv
<1> QED BY <1>1, ReturnsInductive, PTL

\* Orders keep their promises under returns: reservations stay backed and never
\* exceed the stock, Used offers stay single, and the ledger explains the stock.
THEOREM StockUnderReturns == ReturnsSpec => []IInv
<1>1. ReturnsInit => IInv
  BY InitIInv DEF ReturnsInit
<1>2. ReturnsIInv /\ IInv /\ [ReturnsNext]_returnsVars => IInv'
  <2> SUFFICES ASSUME ReturnsIInv, IInv, [ReturnsNext]_returnsVars PROVE IInv'
    OBVIOUS
  <2>1. CASE [Next]_vars
    BY <2>1, NextIInv
  <2>2. ASSUME NEW r \in ReturnIds, CompleteOrderReturn(r) PROVE IInv'
    BY <2>2, ReturnType, RestockKeeps DEF ReturnsIInv, CompleteOrderReturn
  <2>3. ASSUME NEW r \in ReturnIds, ReturnNext(r) PROVE IInv' \/ UNCHANGED vars
    BY <2>2, <2>3 DEF ReturnNext, RequestOrderReturn, CancelOrderReturn, AuthorizeOrderReturn,
                ReceiveOrderReturn, Advance, InspectOrderReturn
  <2> QED BY <2>1, <2>3 DEF ReturnsNext, returnsVars
<1> QED BY <1>1, <1>2, ReturnsInductive, PTL DEF ReturnsSpec

\* A restocked unit is one more to promise: the stock promise is kept.
LEMMA RestockPromises ==
  ASSUME IInv, IInv', NEW r \in ReturnIds, CompleteOrderReturn(r)
  PROVE  Promised!Next
<1>1. Available' \in [Listings -> Nat]
  BY DEF IInv, StockInv, TypeOK, InventoryTypeOK, NoOversell, Available
<1>2. UNCHANGED <<status, items>>
  BY DEF CompleteOrderReturn, orderVars
<1>3. Promised!Staff
  BY <1>1, <1>2 DEF Promised!Staff, Available
<1> QED BY <1>3 DEF Promised!Next

\* The order system keeps the promise of StockPromise with returns coming back.
THEOREM PromiseKeptUnderReturns == ReturnsSpec => KeepsPromise
<1>1. IInv /\ ReturnsInit => Promised!Init
  BY PromiseInit DEF IInv, ReturnsInit
<1>2. IInv /\ IInv' /\ [ReturnsNext]_returnsVars => [Promised!Next]_(Promised!promiseVars)
  <2> SUFFICES ASSUME IInv, IInv', [ReturnsNext]_returnsVars
               PROVE  Promised!Next \/ UNCHANGED Promised!promiseVars
    OBVIOUS
  <2>1. CASE [Next]_vars
    <3>1. Promised!Next \/ UNCHANGED <<Available, Phase, items>>
      BY <2>1, NextEffect, EffectPromises DEF IInv, StockInv
    <3> QED BY <3>1 DEF Promised!promiseVars, Available, Phase
  <2>2. ASSUME NEW r \in ReturnIds, ReturnNext(r) PROVE Promised!Next \/ UNCHANGED vars
    BY <2>2, RestockPromises DEF ReturnNext, RequestOrderReturn, CancelOrderReturn, AuthorizeOrderReturn,
                ReceiveOrderReturn, Advance, InspectOrderReturn
  <2> QED BY <2>1, <2>2 DEF ReturnsNext, returnsVars
<1> QED BY <1>1, <1>2, StockUnderReturns, PTL DEF ReturnsSpec, KeepsPromise, Promised!Spec

\* orderReturnService.ts: what orders moved of pooled stock is what fulfilled
\* orders took, less what completed returns put back, each booked once.
THEOREM SalesMatchUnderReturns == ReturnsSpec => []SalesMatchReturns
<1>1. ReturnsInit => SalesMatchReturns
  <2> SUFFICES ASSUME ReturnsInit, NEW l \in NewListings
               PROVE  orderMovements[l]
                        = Cardinality(UnitsRestocked(l)) - Cardinality(Units(items, Fulfilled, l))
    BY DEF SalesMatchReturns
  <2>1. Units(items, Fulfilled, l) = {} /\ UnitsRestocked(l) = {}
    BY DEF ReturnsInit, Init, Fulfilled, Units, UnitsRestocked, NoReturn
  <2>2. Cardinality(Units(items, Fulfilled, l)) = 0 /\ Cardinality(UnitsRestocked(l)) = 0
    BY <2>1, FS_EmptySet, Zenon
  <2>3. orderMovements[l] = 0
    BY DEF ReturnsInit, Init, InventoryInit, Listings
  <2> QED BY <2>2, <2>3
<1>2. ReturnsIInv /\ ReturnsIInv' /\ SalesMatchReturns /\ [ReturnsNext]_returnsVars => SalesMatchReturns'
  <2> SUFFICES ASSUME ReturnsIInv, ReturnsIInv', SalesMatchReturns, [ReturnsNext]_returnsVars,
                      NEW l \in NewListings
               PROVE  orderMovements'[l] = Cardinality(UnitsRestocked(l)')
                                             - Cardinality(Units(items', Fulfilled', l))
    BY DEF SalesMatchReturns
  <2> DEFINE before == Cardinality(Units(items, Fulfilled, l))
             after == Cardinality(Units(items', Fulfilled', l))
             restocked == Cardinality(UnitsRestocked(l))
             restockedAfter == Cardinality(UnitsRestocked(l)')
  <2>1. orderMovements'[l] + after - restockedAfter = orderMovements[l] + before - restocked
    BY ReturnsSales DEF ReturnsIInv
  <2>2. orderMovements[l] = restocked - before
    BY DEF SalesMatchReturns
  <2>3. before \in Nat /\ after \in Nat /\ restocked \in Nat
    <3>1. Fulfilled \in SUBSET OrderIds /\ Fulfilled' \in SUBSET OrderIds
      BY DEF Fulfilled
    <3> QED BY <3>1, UnitsFinite, RestockedFinite, FS_CardinalityType, Zenon
  <2>4. restockedAfter \in Nat
    <3>1. IsFiniteSet(UnitsRestocked(l)')
      BY RestockedFinite
    <3> QED BY <3>1, FS_CardinalityType, Zenon
  <2>5. orderMovements'[l] \in Int
    BY DEF ReturnsIInv, ReturnsTypeOK, TypeOK, InventoryTypeOK, Listings
  <2> HIDE DEF before, after, restocked, restockedAfter
  <2>6. orderMovements[l] + before - restocked = 0
    BY <2>2, <2>3
  <2>7. orderMovements'[l] + after - restockedAfter = 0
    BY <2>1, <2>6, Zenon
  <2>8. \A m, n, k \in Int : m + n - k = 0 => m = k - n
    OBVIOUS
  <2>9. after \in Int /\ restockedAfter \in Int
    BY <2>3, <2>4
  <2>10. orderMovements'[l] = restockedAfter - after
    BY <2>5, <2>7, <2>8, <2>9, Zenon
  <2> QED BY <2>10 DEF after, restockedAfter
<1> QED BY <1>1, <1>2, ReturnsInductive, PTL DEF ReturnsSpec
=============================================================================
