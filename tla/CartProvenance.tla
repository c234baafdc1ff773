---------------------------- MODULE CartProvenance ----------------------------
(***************************************************************************)
(* One customer's cart and the orders made from it.  Creating an order     *)
(* records which cart quantities it stands for; the transaction that       *)
(* confirms, cancels or expires the order only queues a task, and a worker *)
(* (or the next cart transaction) settles it later.                        *)
(*                                                                         *)
(* Cart transactions of a customer exclude each other by an advisory lock. *)
(* Order transactions do not take it, but all they do to these tables is   *)
(* to move a task between two states that count as attached, so a cart     *)
(* transaction sees the same quantities before and after: it is one step.  *)
(***************************************************************************)
EXTENDS Integers, FiniteSetsExt

CONSTANTS Listings,
          OrderIds,    \* integers: allocations are detached oldest order first
          MaxQuantity  \* bound on the quantity of a cart line

ASSUME CartAssumption ==
  /\ IsFiniteSet(OrderIds) /\ OrderIds \subseteq Nat
  /\ MaxQuantity \in Nat \ {0}

VARIABLES quantity,  \* CartItem.quantity, 0 without a row
          status,    \* Order.status, as far as it concerns the cart
          state,     \* OrderCartProvenance.state, "NONE" without a row
          linked,    \* OrderCartAllocation.cartItemId is not NULL
          visible    \* OrderCartAllocation.visibleQuantity

cartVars == <<quantity, status, state, linked, visible>>

PendingStates == {"CONSUME_PENDING", "RELEASE_PENDING"}
AttachedStates == {"ACTIVE"} \union PendingStates
States == AttachedStates \union {"NONE", "CONSUMED", "RELEASED"}
Quantities == [Listings -> 0..MaxQuantity]
NoLine == [l \in Listings |-> 0]

CartTypeOK ==
  /\ quantity \in Quantities
  /\ status \in [OrderIds -> {"NONE", "PENDING", "CONFIRMED", "CANCELLED", "EXPIRED"}]
  /\ state \in [OrderIds -> States]
  /\ linked \in [OrderIds -> [Listings -> BOOLEAN]]
  /\ visible \in [OrderIds -> Quantities]

CartInit ==
  /\ quantity = NoLine
  /\ status = [o \in OrderIds |-> "NONE"]
  /\ state = [o \in OrderIds |-> "NONE"]
  /\ linked = [o \in OrderIds |-> [l \in Listings |-> FALSE]]
  /\ visible = [o \in OrderIds |-> NoLine]

-----------------------------------------------------------------------------
(* A cart transaction reads the tables, settles what is queued and then    *)
(* does its own work; each of these is a function from tables to tables.   *)

Tables == [quantity |-> quantity, state |-> state, linked |-> linked, visible |-> visible]

Commit(t) ==
  /\ quantity' = t.quantity
  /\ state' = t.state
  /\ linked' = t.linked
  /\ visible' = t.visible

\* What the orders of a set still hold of the cart's row for l, unit by unit.
UnitsHeld(t, orders, l) ==
  {unit \in orders \X (1..MaxQuantity) :
     t.linked[unit[1]][l] /\ unit[2] <= t.visible[unit[1]][l]}

HeldBy(t, orders, l) == Cardinality(UnitsHeld(t, orders, l))

Attached(t) == {o \in OrderIds : t.state[o] \in AttachedStates}
Queued(t) == {o \in OrderIds : t.state[o] \in PendingStates}

\* Slip: a release is settled like a purchase.
BoughtOrReleased(t) == Queued(t)

Bought(t) == {o \in OrderIds : t.state[o] = "CONSUME_PENDING"}

allocatedQuantity(t, l) == HeldBy(t, Attached(t), l)

\* Otherwise settlement throws and its transaction rolls back.
Settleable(t) == \A l \in Listings : HeldBy(t, Bought(t), l) <= t.quantity[l]

\* A deleted row takes the references to it along (ON DELETE SET NULL).
Unlink(t, gone) == [o \in OrderIds |-> [l \in Listings |-> t.linked[o][l] /\ l \notin gone]]

\* What queued purchases take from a line: only what is still attached.
Taken(t, l) == HeldBy(t, Bought(t), l)

settleCartReconciliation(t) ==
  [quantity |-> [l \in Listings |-> t.quantity[l] - Taken(t, l)],
   linked |-> Unlink(t, {l \in Listings : Taken(t, l) > 0 /\ Taken(t, l) = t.quantity[l]}),
   visible |-> [o \in OrderIds |-> IF o \in Queued(t) THEN NoLine ELSE t.visible[o]],
   state |-> [o \in OrderIds |-> CASE t.state[o] = "CONSUME_PENDING" -> "CONSUMED"
                                   [] t.state[o] = "RELEASE_PENDING" -> "RELEASED"
                                   [] OTHER -> t.state[o]]]

\* Slip: the new total is stored, the allocations stay.
KeepAllocations(t, l, target) == t

\* Unallocated quantity goes first, then the oldest orders' allocations.
reduceAllocations(t, l, target) ==
  LET excess == allocatedQuantity(t, l) - target
      older(o) == HeldBy(t, {p \in Attached(t) : p < o}, l)
      reduction(o) == Max({0, Min({t.visible[o][l], excess - older(o)})})
  IN [t EXCEPT !.visible = [o \in OrderIds |->
        IF o \in Attached(t) /\ t.linked[o][l]
        THEN [t.visible[o] EXCEPT ![l] = @ - reduction(o)]
        ELSE t.visible[o]]]

SetQuantity(t, l, q) == [t EXCEPT !.quantity[l] = q]

DeleteRows(t, gone) ==
  [t EXCEPT !.quantity = [l \in Listings |-> IF l \in gone THEN 0 ELSE t.quantity[l]],
            !.linked = Unlink(t, gone)]

-----------------------------------------------------------------------------
(* The customer.  A refusal for lack of stock changes nothing.             *)

addCartItem(l, n) ==
  LET t == settleCartReconciliation(Tables) IN
  /\ Settleable(Tables)
  /\ t.quantity[l] + n <= MaxQuantity
  /\ Commit(SetQuantity(t, l, t.quantity[l] + n))
  /\ UNCHANGED status

\* A row that settlement consumed is replaced by a fresh one, linked to no order.
updateCartItem(l, q) ==
  LET t == settleCartReconciliation(Tables) IN
  /\ quantity[l] > 0
  /\ Settleable(Tables)
  /\ IF t.quantity[l] > 0
     THEN Commit(SetQuantity(reduceAllocations(t, l, q), l, q))
     ELSE Commit(SetQuantity(t, l, q))
  /\ UNCHANGED status

removeCartItem(l) ==
  LET t == settleCartReconciliation(Tables) IN
  /\ quantity[l] > 0
  /\ Settleable(Tables)
  /\ Commit(DeleteRows(reduceAllocations(t, l, 0), {l}))
  /\ UNCHANGED status

\* Every line of the cart is reduced to nothing, then all rows go.
Cleared(t) ==
  [t EXCEPT !.visible = [o \in OrderIds |-> [l \in Listings |->
     IF o \in Attached(t) /\ t.linked[o][l] THEN 0 ELSE t.visible[o][l]]]]

clearCart ==
  /\ Settleable(Tables)
  /\ Commit(DeleteRows(Cleared(settleCartReconciliation(Tables)), Listings))
  /\ UNCHANGED status

-----------------------------------------------------------------------------
(* Orders.                                                                 *)

Unallocated(t, l) == t.quantity[l] - allocatedQuantity(t, l)

\* A line that is not in the cart is ordered directly and leaves the cart alone.
createOrder(o, basket) ==
  LET t == settleCartReconciliation(Tables)
      saved == {l \in Listings : basket[l] > 0 /\ t.quantity[l] > 0}
  IN
  /\ status[o] = "NONE" /\ basket # NoLine
  /\ Settleable(Tables)
  /\ \A l \in saved : basket[l] <= Unallocated(t, l)
  /\ status' = [status EXCEPT ![o] = "PENDING"]
  /\ Commit(IF saved = {} THEN t ELSE
       [t EXCEPT !.state[o] = "ACTIVE",
                 !.linked[o] = [l \in Listings |-> l \in saved],
                 !.visible[o] = [l \in Listings |-> IF l \in saved THEN basket[l] ELSE 0]])

\* Slip: the two tasks are swapped.
QueueSwapped(o, consume) ==
  /\ state' = IF state[o] = "ACTIVE"
              THEN [state EXCEPT ![o] = IF consume THEN "RELEASE_PENDING" ELSE "CONSUME_PENDING"]
              ELSE state
  /\ UNCHANGED <<quantity, linked, visible>>

queueCartReconciliation(o, consume) ==
  /\ state' = IF state[o] = "ACTIVE"
              THEN [state EXCEPT ![o] = IF consume THEN "CONSUME_PENDING" ELSE "RELEASE_PENDING"]
              ELSE state
  /\ UNCHANGED <<quantity, linked, visible>>

Confirm(o) ==
  /\ status[o] = "PENDING"
  /\ status' = [status EXCEPT ![o] = "CONFIRMED"]
  /\ queueCartReconciliation(o, TRUE)

\* Cancelling a confirmed order does not restore the purchased cart quantity.
Cancel(o) ==
  /\ \/ status[o] = "PENDING" /\ queueCartReconciliation(o, FALSE)
     \/ status[o] = "CONFIRMED" /\ UNCHANGED <<quantity, state, linked, visible>>
  /\ status' = [status EXCEPT ![o] = "CANCELLED"]

Expire(o) ==
  /\ status[o] = "PENDING"
  /\ status' = [status EXCEPT ![o] = "EXPIRED"]
  /\ queueCartReconciliation(o, FALSE)

\* Slip: the worker looks for purchases only.
DrainPurchases ==
  /\ Bought(Tables) # {} /\ Settleable(Tables)
  /\ Commit(settleCartReconciliation(Tables))
  /\ UNCHANGED status

\* A failed attempt rolls back and is repeated at the next poll.
reconcilePendingCarts ==
  /\ Queued(Tables) # {} /\ Settleable(Tables)
  /\ Commit(settleCartReconciliation(Tables))
  /\ UNCHANGED status

CustomerNext ==
  \/ \E l \in Listings, n \in 1..MaxQuantity : addCartItem(l, n)
  \/ \E l \in Listings, q \in 1..MaxQuantity : updateCartItem(l, q)
  \/ \E l \in Listings : removeCartItem(l)
  \/ clearCart

CartNext ==
  \/ CustomerNext
  \/ \E o \in OrderIds, basket \in Quantities : createOrder(o, basket)
  \/ \E o \in OrderIds : Confirm(o) \/ Cancel(o) \/ Expire(o)
  \/ reconcilePendingCarts

\* The worker polls for as long as a server runs.
CartSpec == CartInit /\ [][CartNext]_cartVars /\ WF_cartVars(reconcilePendingCarts)

-----------------------------------------------------------------------------
(* Properties.                                                             *)

\* No order stands for quantity that the cart no longer has, through every edit,
\* overlap of orders and late settlement: unallocatedQuantity is never negative,
\* and settlement never fails.
AllocatedWithinCart ==
  \A l \in Listings : allocatedQuantity(Tables, l) <= quantity[l]

\* The task queued for an order is the one its outcome calls for, and a sale
\* that is cancelled later does not change it.
TaskMatchesOutcome ==
  \A o \in OrderIds : state[o] # "NONE" =>
    /\ state[o] = "ACTIVE" <=> status[o] = "PENDING"
    /\ status[o] = "CONFIRMED" => state[o] \in {"CONSUME_PENDING", "CONSUMED"}
    /\ status[o] = "EXPIRED" => state[o] \in {"RELEASE_PENDING", "RELEASED"}

\* Every queued task is settled although nobody waits for it.
QueuedIsSettled ==
  \A o \in OrderIds : state[o] \in PendingStates ~> state[o] \in {"CONSUMED", "RELEASED"}

\* Settlement is invisible: counting a queued purchase as taken and a queued
\* release as given back, the cart behaves as CartIntent, whenever and by whom
\* the tasks are settled.  Deleted lines are never consumed from a recreated row.
NotFree == {o \in OrderIds : state[o] \in {"ACTIVE", "CONSUME_PENDING"}}

Intent == INSTANCE CartIntent WITH
  free <- [l \in Listings |-> quantity[l] - HeldBy(Tables, NotFree, l)],
  held <- [o \in OrderIds |-> [l \in Listings |->
             IF state[o] = "ACTIVE" /\ linked[o][l] THEN visible[o][l] ELSE 0]]

ActsLikeIntent == Intent!Spec
=============================================================================
