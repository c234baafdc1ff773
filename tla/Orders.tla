-------------------------------- MODULE Orders --------------------------------
(***************************************************************************)
(* The life of an order from checkout to completion, and the stock it      *)
(* reserves, sells and gives back.  Every order transaction locks its      *)
(* Order row first and keeps the rows it writes locked until commit, so it *)
(* is one action.  createOrder alone is several: it takes its timestamp,   *)
(* looks for expired reservations, expires them one transaction at a time  *)
(* and only then reserves, with other requests running in between.         *)
(***************************************************************************)
EXTENDS Inventory

CONSTANTS OrderIds,        \* orders that may come to exist
          Requests,        \* concurrent POST /orders handlers
          Keys,            \* (customer, Idempotency-Key) pairs
          NoKey,           \* a request without Idempotency-Key
          ReservationTTL,  \* reservation lifetime, 30 minutes in the code
          MaxQuantity,     \* bound on the quantity of a line
          MaxTime          \* bound on the clock

ASSUME OrdersAssumption ==
  /\ IsFiniteSet(OrderIds)
  /\ NoKey \notin Keys
  /\ ReservationTTL \in Nat \ {0}
  /\ MaxQuantity \in Nat \ {0}
  /\ MaxTime \in Nat

VARIABLES status,     \* Order.status, "NONE" before the row exists
          items,      \* OrderItem quantities per listing
          expiresAt,  \* Order.reservationExpiresAt, NoDeadline for NULL
          payment,    \* status of the order's Payment row, "NONE" without one
          key,        \* Order.creationIdempotencyKey
          request,    \* the createOrder calls in progress
          clock

orderVars == <<status, items, expiresAt, payment, key>>
vars == <<stockVars, orderVars, request, clock>>

NoDeadline == -1
Baskets == [Listings -> 0..MaxQuantity]
EmptyBasket == [l \in Listings |-> 0]
OrderStatuses == {"PENDING", "CONFIRMED", "DISPATCHED", "COMPLETED", "CANCELLED", "EXPIRED"}
PaymentStatuses == {"PENDING", "PROCESSING", "SUCCEEDED", "FAILED", "CANCELED"}
IdleRequest == [phase |-> "idle", at |-> 0, items |-> EmptyBasket,
                key |-> NoKey, candidates |-> {}]

TypeOK ==
  /\ InventoryTypeOK
  /\ status \in [OrderIds -> OrderStatuses \union {"NONE"}]
  /\ items \in [OrderIds -> Baskets]
  /\ expiresAt \in [OrderIds -> Nat \union {NoDeadline}]
  /\ payment \in [OrderIds -> PaymentStatuses \union {"NONE"}]
  /\ key \in [OrderIds -> Keys \union {NoKey}]
  /\ request \in [Requests -> [phase : {"idle", "started", "expiring"}, at : Nat,
                               items : Baskets, key : Keys \union {NoKey},
                               candidates : SUBSET OrderIds]]
  /\ clock \in Nat

Init ==
  /\ InventoryInit
  /\ status = [o \in OrderIds |-> "NONE"]
  /\ items = [o \in OrderIds |-> EmptyBasket]
  /\ expiresAt = [o \in OrderIds |-> NoDeadline]
  /\ payment = [o \in OrderIds |-> "NONE"]
  /\ key = [o \in OrderIds |-> NoKey]
  /\ request = [r \in Requests |-> IdleRequest]
  /\ clock = 0

-----------------------------------------------------------------------------
(* Expiry: the one transaction that ends an unpaid reservation.            *)

DeadlinePassed(o, asOf) == expiresAt[o] # NoDeadline /\ expiresAt[o] <= asOf

\* Slip: the deadline alone decides.
ExpirableThoughPaid(o, asOf) == status[o] = "PENDING" /\ DeadlinePassed(o, asOf)

Expirable(o, asOf) ==
  /\ status[o] = "PENDING"
  /\ DeadlinePassed(o, asOf)
  /\ payment[o] # "SUCCEEDED"

ExpireOrderReservation(o) ==
  /\ ReleaseItems(items[o])
  /\ status' = [status EXCEPT ![o] = "EXPIRED"]
  /\ expiresAt' = [expiresAt EXCEPT ![o] = NoDeadline]
  /\ UNCHANGED <<items, payment, key>>

-----------------------------------------------------------------------------
(* createOrder.                                                            *)

KeyTaken(k) == k # NoKey /\ \E o \in OrderIds : status[o] # "NONE" /\ key[o] = k

\* A replayed key is answered from the existing order before anything else.
BeginCreateOrder(r, basket, k) ==
  /\ request[r].phase = "idle"
  /\ Lines(basket) # {}
  /\ ~KeyTaken(k)
  /\ request' = [request EXCEPT ![r] =
                   [phase |-> "started", at |-> clock, items |-> basket,
                    key |-> k, candidates |-> {}]]
  /\ UNCHANGED <<stockVars, orderVars, clock>>

ExpiredCandidates(r) ==
  {o \in OrderIds :
     /\ status[o] = "PENDING"
     /\ DeadlinePassed(o, request[r].at)
     /\ Lines(items[o]) \intersect Lines(request[r].items) # {}}

FindExpiredCandidates(r) ==
  /\ request[r].phase = "started"
  /\ request' = [request EXCEPT ![r] =
                   [@ EXCEPT !.phase = "expiring", !.candidates = ExpiredCandidates(r)]]
  /\ UNCHANGED <<stockVars, orderVars, clock>>

\* Slip: the candidate list is believed as it was read.
ExpireStaleCandidate(r, o) ==
  /\ o \in request[r].candidates
  /\ request' = [request EXCEPT ![r].candidates = @ \ {o}]
  /\ ExpireOrderReservation(o)
  /\ UNCHANGED clock

\* A candidate that was paid, confirmed or cancelled meanwhile is left alone.
ExpireCandidate(r, o) ==
  /\ o \in request[r].candidates
  /\ request' = [request EXCEPT ![r].candidates = @ \ {o}]
  /\ IF Expirable(o, request[r].at)
     THEN ExpireOrderReservation(o)
     ELSE UNCHANGED <<stockVars, orderVars>>
  /\ UNCHANGED clock

\* Slip: the key is looked up once, before the transaction, and never again.
NeverReplayed(r) == FALSE

\* The order of the key is looked for again under the advisory lock.
Replayed(r) == KeyTaken(request[r].key)

CreateOrder(r, o) ==
  /\ request[r].phase = "expiring" /\ request[r].candidates = {}
  /\ ~Replayed(r)
  /\ \A l \in Lines(request[r].items) : Exists(l) /\ active[l]
  /\ ReserveItems(request[r].items)
  /\ status[o] = "NONE"
  /\ status' = [status EXCEPT ![o] = "PENDING"]
  /\ items' = [items EXCEPT ![o] = request[r].items]
  /\ expiresAt' = [expiresAt EXCEPT ![o] = request[r].at + ReservationTTL]
  /\ key' = [key EXCEPT ![o] = request[r].key]
  /\ request' = [request EXCEPT ![r] = IdleRequest]
  /\ UNCHANGED <<payment, clock>>

\* The call ends without an order: a replay found under the advisory lock, a
\* mismatch, a refused line, a missing address, an aborted transaction, a crash.
EndCreateOrder(r) ==
  /\ request[r].phase # "idle"
  /\ request' = [request EXCEPT ![r] = IdleRequest]
  /\ UNCHANGED <<stockVars, orderVars, clock>>

-----------------------------------------------------------------------------
(* Operations on an existing order.                                        *)

ConfirmOrderInTransaction(o) ==
  /\ status[o] = "PENDING"
  /\ SellItems(items[o])
  /\ status' = [status EXCEPT ![o] = "CONFIRMED"]
  /\ expiresAt' = [expiresAt EXCEPT ![o] = NoDeadline]
  /\ UNCHANGED <<items, key>>

\* An administrator confirms by hand, paid or not.
ConfirmOrder(o) == ConfirmOrderInTransaction(o) /\ UNCHANGED payment

\* cancelOrder and cancelOrderByAdmin; neither looks at the payment.
CancelOrder(o) ==
  /\ \/ /\ status[o] = "PENDING"
        /\ ReleaseItems(items[o])
        /\ expiresAt' = [expiresAt EXCEPT ![o] = NoDeadline]
     \/ /\ status[o] = "CONFIRMED"
        /\ TakeBackItems(items[o])
        /\ UNCHANGED expiresAt
  /\ status' = [status EXCEPT ![o] = "CANCELLED"]
  /\ UNCHANGED <<items, payment, key>>

\* Slip: an order is dispatched without having been confirmed.
DispatchUnconfirmed(o) ==
  /\ status[o] \in {"PENDING", "CONFIRMED"}
  /\ status' = [status EXCEPT ![o] = "DISPATCHED"]
  /\ UNCHANGED <<stockVars, items, expiresAt, payment, key>>

DispatchOrder(o) ==
  /\ status[o] = "CONFIRMED"
  /\ status' = [status EXCEPT ![o] = "DISPATCHED"]
  /\ UNCHANGED <<stockVars, items, expiresAt, payment, key>>

CompleteOrder(o) ==
  /\ status[o] = "DISPATCHED"
  /\ status' = [status EXCEPT ![o] = "COMPLETED"]
  /\ UNCHANGED <<stockVars, items, expiresAt, payment, key>>

\* An EXPIRED order, or one past its deadline, takes no manual payment.
CreatePayment(o) ==
  /\ status[o] \notin {"NONE", "EXPIRED"}
  /\ payment[o] = "NONE"
  /\ ~DeadlinePassed(o, clock)
  /\ payment' = [payment EXCEPT ![o] = "SUCCEEDED"]
  /\ UNCHANGED <<stockVars, status, items, expiresAt, key>>

Tick ==
  /\ clock < MaxTime
  /\ clock' = clock + 1
  /\ UNCHANGED <<stockVars, orderVars, request>>

OrderNext(o) ==
  \/ ConfirmOrder(o)
  \/ CancelOrder(o)
  \/ DispatchOrder(o)
  \/ CompleteOrder(o)

\* Everything but payments.
OrderSystem ==
  \/ \E r \in Requests, basket \in Baskets, k \in Keys \union {NoKey} : BeginCreateOrder(r, basket, k)
  \/ \E r \in Requests : FindExpiredCandidates(r)
  \/ \E r \in Requests, o \in OrderIds : ExpireCandidate(r, o)
  \/ \E r \in Requests, o \in OrderIds : CreateOrder(r, o)
  \/ \E r \in Requests : EndCreateOrder(r)
  \/ \E o \in OrderIds : OrderNext(o) /\ UNCHANGED <<request, clock>>
  \/ InventoryNext /\ UNCHANGED <<orderVars, request, clock>>
  \/ Tick

Next ==
  \/ OrderSystem
  \/ \E o \in OrderIds : CreatePayment(o) /\ UNCHANGED <<request, clock>>

Spec == Init /\ [][Next]_vars

-----------------------------------------------------------------------------
(* Properties.                                                             *)

\* The units of listing l that the orders of a set account for, one pair each.
Units(quantity, orders, l) ==
  {unit \in orders \X (1..MaxQuantity) : unit[2] <= quantity[unit[1]][l]}

Pending == {o \in OrderIds : status[o] = "PENDING"}
Fulfilled == {o \in OrderIds : status[o] \in {"CONFIRMED", "DISPATCHED", "COMPLETED"}}

\* reservedStock is exactly what the PENDING orders hold: no path (expiry racing
\* cancellation, a stale candidate list, confirmation) releases twice or forgets.
ReservedBacked ==
  \A l \in Listings : reservedStock[l] = Cardinality(Units(items, Pending, l))

\* No unit is promised to two customers, or promised and then adjusted away.
NoOversell == \A l \in Listings : reservedStock[l] <= currentStock[l]

\* Once reserved, an order can always be confirmed: the stock checks of
\* confirmOrderInTransaction cannot fail, whatever staff and others did since.
PendingConfirmable ==
  \A o \in Pending : \A l \in Lines(items[o]) :
    /\ currentStock[l] >= items[o][l]
    /\ reservedStock[l] >= items[o][l]
    /\ l \in UsedListings => usedLifecycle[l] = "AVAILABLE" /\ items[o][l] = 1

\* The movement ledger explains the stock: no operation changes one without
\* recording the other.
LedgerExplainsStock ==
  \A l \in Listings :
    currentStock[l] = (IF l \in NewListings THEN OpeningStock[l] ELSE 0)
                        + orderMovements[l] + adminMovements[l]

\* For pooled stock the order movements are exactly the fulfilled orders: a sale
\* is booked once, and a cancellation of a confirmed order books it back once.
SalesMatchOrders ==
  \A l \in NewListings : orderMovements[l] = -Cardinality(Units(items, Fulfilled, l))

\* A physical item: in stock iff AVAILABLE, one sale ever, and never two
\* sellable Used offers of one product.  The code keeps what the table's CHECK
\* constraint and partial unique index demand without relying on them to refuse.
UsedOfferConsistent ==
  \A u \in UsedListings :
    /\ usedLifecycle[u] # "NONE"
    /\ currentStock[u] = IF usedLifecycle[u] = "AVAILABLE" THEN 1 ELSE 0
    /\ orderMovements[u] = IF usedLifecycle[u] = "SOLD" THEN -1 ELSE 0
    /\ \A v \in UsedListings \ {u} :
         ProductOf[u] = ProductOf[v] => currentStock[u] + currentStock[v] < 2

\* Payment and expiry exclude each other: no order is both paid and expired.
PaidNeverExpires == \A o \in OrderIds : status[o] = "EXPIRED" => payment[o] # "SUCCEEDED"

\* Two calls with one Idempotency-Key never create two orders.
OneOrderPerKey ==
  \A o1, o2 \in OrderIds :
    o1 # o2 /\ status[o1] # "NONE" /\ status[o2] # "NONE" => key[o1] # key[o2] \/ key[o1] = NoKey

\* A finished order stays finished, whichever request was still looking at it.
TerminalOrdersStay ==
  [][\A o \in OrderIds :
       status[o] \in {"COMPLETED", "CANCELLED", "EXPIRED"} => status'[o] = status[o]]_vars

\* The order system keeps the promise: available is what currentStock leaves
\* after reservations, and each step of the code is one step of StockPromise.
PhaseOf(s) ==
  CASE s = "NONE" -> "new"
    [] s = "PENDING" -> "promised"
    [] s \in {"CONFIRMED", "DISPATCHED", "COMPLETED"} -> "sold"
    [] s \in {"CANCELLED", "EXPIRED"} -> "over"

Promised == INSTANCE StockPromise WITH
  available <- [l \in Listings |-> currentStock[l] - reservedStock[l]],
  phase <- [o \in OrderIds |-> PhaseOf(status[o])],
  units <- items

KeepsPromise == Promised!Spec
=============================================================================
