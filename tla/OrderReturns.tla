----------------------------- MODULE OrderReturns -----------------------------
(***************************************************************************)
(* Returns of order lines: what a customer sends back, how far staff have  *)
(* got with it, and the units it puts back on the shelf.  Each handler is  *)
(* one transaction whose conditional UPDATEs claim the return row and the  *)
(* order line, so it is one action.  None of them looks at Order.status,   *)
(* and none of the order operations looks at the returns.                  *)
(***************************************************************************)
EXTENDS Orders

CONSTANTS ReturnIds,   \* returns that may come to exist
          AnyOrder     \* the order of a return that does not exist yet

ASSUME ReturnsAssumption ==
  /\ IsFiniteSet(ReturnIds)
  /\ AnyOrder \notin OrderIds

VARIABLES orderReturn,             \* OrderReturn rows
          reservedReturnQuantity,  \* OrderItem column: units under return
          returnedQuantity         \* OrderItem column: units returned

returnVars == <<orderReturn, reservedReturnQuantity, returnedQuantity>>
returnsVars == <<vars, returnVars>>

ReturnStatuses == {"REQUESTED", "AUTHORIZED", "RECEIVED", "INSPECTED", "COMPLETED", "CANCELLED"}
AnyListing == CHOOSE l \in Listings : TRUE
NoReturn == [status |-> "NONE", order |-> AnyOrder, listing |-> AnyListing,
             quantity |-> 0, restockQuantity |-> 0]

Returns == [status : ReturnStatuses, order : OrderIds, listing : Listings,
            quantity : 0..MaxQuantity, restockQuantity : 0..MaxQuantity]

ReturnsTypeOK ==
  /\ TypeOK
  /\ orderReturn \in [ReturnIds -> Returns \union {NoReturn}]
  /\ reservedReturnQuantity \in [OrderIds -> Baskets]
  /\ returnedQuantity \in [OrderIds -> Baskets]

ReturnsInit ==
  /\ Init
  /\ orderReturn = [r \in ReturnIds |-> NoReturn]
  /\ reservedReturnQuantity = [o \in OrderIds |-> EmptyBasket]
  /\ returnedQuantity = [o \in OrderIds |-> EmptyBasket]

-----------------------------------------------------------------------------

\* The line's columns after n units more under return and m units more returned.
MoveReturned(o, l, n, m) ==
  /\ reservedReturnQuantity' = [reservedReturnQuantity EXCEPT ![o][l] = @ + n]
  /\ returnedQuantity' = [returnedQuantity EXCEPT ![o][l] = @ + m]

\* Slip: the claim forgets what was already returned.
ReturnableAgain(o, l) == items[o][l] - reservedReturnQuantity[o][l]

Returnable(o, l) == items[o][l] - returnedQuantity[o][l] - reservedReturnQuantity[o][l]

RequestOrderReturn(r, o, l, quantity) ==
  /\ orderReturn[r].status = "NONE"
  /\ status[o] # "NONE" /\ items[o][l] > 0
  /\ quantity > 0
  /\ quantity <= Returnable(o, l)
  /\ MoveReturned(o, l, quantity, 0)
  /\ orderReturn' = [orderReturn EXCEPT ![r] =
       [status |-> "REQUESTED", order |-> o, listing |-> l,
        quantity |-> quantity, restockQuantity |-> 0]]
  /\ UNCHANGED vars

CancelOrderReturn(r) ==
  /\ orderReturn[r].status = "REQUESTED"
  /\ reservedReturnQuantity[orderReturn[r].order][orderReturn[r].listing] >= orderReturn[r].quantity
  /\ MoveReturned(orderReturn[r].order, orderReturn[r].listing, -orderReturn[r].quantity, 0)
  /\ orderReturn' = [orderReturn EXCEPT ![r].status = "CANCELLED"]
  /\ UNCHANGED vars

\* authorizeOrderReturn and receiveOrderReturn: one conditional UPDATE each.
Advance(r, from, to) ==
  /\ orderReturn[r].status = from
  /\ orderReturn' = [orderReturn EXCEPT ![r].status = to]
  /\ UNCHANGED <<reservedReturnQuantity, returnedQuantity, vars>>

AuthorizeOrderReturn(r) == Advance(r, "REQUESTED", "AUTHORIZED")
ReceiveOrderReturn(r) == Advance(r, "AUTHORIZED", "RECEIVED")

\* restock is 0 for every condition but AS_NEW; a Used item never goes back.
InspectOrderReturn(r, restock) ==
  /\ orderReturn[r].status = "RECEIVED"
  /\ restock <= orderReturn[r].quantity
  /\ restock > 0 => orderReturn[r].listing \in NewListings
  /\ orderReturn' = [orderReturn EXCEPT ![r].status = "INSPECTED", ![r].restockQuantity = restock]
  /\ UNCHANGED <<reservedReturnQuantity, returnedQuantity, vars>>

\* The ORDER_RETURN movement.
Restock(l, quantity) ==
  /\ currentStock[l] + quantity <= MaxStock
  /\ currentStock' = [currentStock EXCEPT ![l] = @ + quantity]
  /\ orderMovements' = [orderMovements EXCEPT ![l] = @ + quantity]
  /\ UNCHANGED <<reservedStock, usedLifecycle, active, reactivating, adminMovements>>

\* Slip: what was returned goes back on the shelf, not what was found resellable.
CompleteRestockingAll(r) ==
  LET o == orderReturn[r].order
      l == orderReturn[r].listing
      quantity == orderReturn[r].quantity
  IN /\ orderReturn[r].status = "INSPECTED"
     /\ returnedQuantity[o][l] + quantity <= items[o][l]
     /\ MoveReturned(o, l, -quantity, quantity)
     /\ Restock(l, quantity)
     /\ orderReturn' = [orderReturn EXCEPT ![r].status = "COMPLETED"]
     /\ UNCHANGED <<orderVars, request, clock>>

CompleteOrderReturn(r) ==
  LET o == orderReturn[r].order
      l == orderReturn[r].listing
      quantity == orderReturn[r].quantity
  IN /\ orderReturn[r].status = "INSPECTED"
     /\ l \in UsedListings => orderReturn[r].restockQuantity = 0
     /\ reservedReturnQuantity[o][l] >= quantity
     /\ returnedQuantity[o][l] + quantity <= items[o][l]
     /\ MoveReturned(o, l, -quantity, quantity)
     /\ Restock(l, orderReturn[r].restockQuantity)
     /\ orderReturn' = [orderReturn EXCEPT ![r].status = "COMPLETED"]
     /\ UNCHANGED <<orderVars, request, clock>>

ReturnNext(r) ==
  \/ \E o \in OrderIds, l \in Listings, q \in 1..MaxQuantity : RequestOrderReturn(r, o, l, q)
  \/ CancelOrderReturn(r)
  \/ AuthorizeOrderReturn(r)
  \/ ReceiveOrderReturn(r)
  \/ \E restock \in 0..MaxQuantity : InspectOrderReturn(r, restock)
  \/ CompleteOrderReturn(r)

ReturnsNext ==
  \/ Next /\ UNCHANGED returnVars
  \/ \E r \in ReturnIds : ReturnNext(r)

ReturnsSpec == ReturnsInit /\ [][ReturnsNext]_returnsVars

-----------------------------------------------------------------------------
(* Properties.                                                             *)

\* The units of the returns of line (o, l) that have one of the given statuses.
UnitsUnder(returns, statuses, o, l) ==
  {unit \in ReturnIds \X (1..MaxQuantity) :
     /\ returns[unit[1]].status \in statuses
     /\ returns[unit[1]].order = o /\ returns[unit[1]].listing = l
     /\ unit[2] <= returns[unit[1]].quantity}

\* The units that completed returns put back on the shelf of listing l.
UnitsRestocked(l) ==
  {unit \in ReturnIds \X (1..MaxQuantity) :
     /\ orderReturn[unit[1]].status = "COMPLETED"
     /\ orderReturn[unit[1]].listing = l
     /\ unit[2] <= orderReturn[unit[1]].restockQuantity}

OpenStatuses == {"REQUESTED", "AUTHORIZED", "RECEIVED", "INSPECTED"}
ReturnedStatuses == {"COMPLETED"}

\* However many returns of one line run at once, its two columns are exactly the
\* open and the completed returns, and no unit bought is returned twice.
ReturnsBacked ==
  \A o \in OrderIds, l \in Listings :
    /\ reservedReturnQuantity[o][l] = Cardinality(UnitsUnder(orderReturn, OpenStatuses, o, l))
    /\ returnedQuantity[o][l] = Cardinality(UnitsUnder(orderReturn, ReturnedStatuses, o, l))
    /\ reservedReturnQuantity[o][l] + returnedQuantity[o][l] <= items[o][l]

\* The stock that orders moved is what fulfilled orders took, less what completed
\* returns put back: completion restocks once, cancellation of a return nothing.
SalesMatchReturns ==
  \A l \in NewListings :
    orderMovements[l] = Cardinality(UnitsRestocked(l)) - Cardinality(Units(items, Fulfilled, l))
=============================================================================
