------------------------------ MODULE CartProofs ------------------------------
(***************************************************************************)
(* Whatever the customer does to the cart and whenever the worker runs, a  *)
(* task is decided by its order's outcome alone: settlement moves a queued *)
(* task to the end its queue names, and everything else leaves tasks that  *)
(* are not ACTIVE alone.  The second part counts: what orders hold of a    *)
(* line is a set of units, so an allocation that shrinks is a smaller set, *)
(* and two orders hold disjoint ones.  The third shows that each step of   *)
(* the tables is a step of CartIntent, or none.                            *)
(***************************************************************************)
EXTENDS CartProvenance, FiniteSetTheorems, TLAPS

TaskTypes ==
  /\ status \in [OrderIds -> {"NONE", "PENDING", "CONFIRMED", "CANCELLED", "EXPIRED"}]
  /\ state \in [OrderIds -> States]

\* An order that does not exist yet has no task.
TaskNeedsOrder == \A o \in OrderIds : status[o] = "NONE" => state[o] = "NONE"

TaskIInv == TaskTypes /\ TaskNeedsOrder /\ TaskMatchesOutcome

\* What settling does to the task of an order.
SettledState(s) ==
  CASE s = "CONSUME_PENDING" -> "CONSUMED"
    [] s = "RELEASE_PENDING" -> "RELEASED"
    [] OTHER -> s

LEMMA SettleState ==
  settleCartReconciliation(Tables).state = [o \in OrderIds |-> SettledState(state[o])]
BY DEF settleCartReconciliation, Tables, SettledState

\* Editing lines after settlement does not touch tasks.
LEMMA EditsKeepState ==
  \A t, l, q : /\ SetQuantity(t, l, q).state = t.state
               /\ DeleteRows(t, l).state = t.state
               /\ reduceAllocations(t, l, q).state = t.state
               /\ Cleared(t).state = t.state
BY DEF SetQuantity, DeleteRows, reduceAllocations, Cleared

LEMMA TaskInit == CartInit => TaskIInv
BY DEF CartInit, TaskIInv, TaskTypes, TaskNeedsOrder, TaskMatchesOutcome, States, AttachedStates

\* A cart transaction that changes no order: settlement is all it does to tasks.
LEMMA SettleKeeps ==
  ASSUME TaskIInv, state' = [o \in OrderIds |-> SettledState(state[o])], UNCHANGED status
  PROVE  TaskIInv'
BY DEF TaskIInv, TaskTypes, TaskNeedsOrder, TaskMatchesOutcome, SettledState, States,
       AttachedStates, PendingStates

LEMMA CustomerSettles ==
  ASSUME CustomerNext
  PROVE  state' = [o \in OrderIds |-> SettledState(state[o])] /\ UNCHANGED status
<1> DEFINE t == settleCartReconciliation(Tables)
<1>1. t.state = [o \in OrderIds |-> SettledState(state[o])]
  BY SettleState
<1> HIDE DEF t
<1>2. \A l, n : Commit(SetQuantity(t, l, t.quantity[l] + n)) => state' = t.state
  <2>1. \A l, n : SetQuantity(t, l, t.quantity[l] + n).state = t.state
    BY EditsKeepState
  <2> QED BY <2>1, Zenon DEF Commit
<1>3. \A l, q : \/ Commit(SetQuantity(reduceAllocations(t, l, q), l, q))
                \/ Commit(SetQuantity(t, l, q))
                => state' = t.state
  <2>1. \A l, q : SetQuantity(reduceAllocations(t, l, q), l, q).state = t.state
    BY EditsKeepState
  <2>2. \A l, q : SetQuantity(t, l, q).state = t.state
    BY EditsKeepState, Zenon
  <2> QED BY <2>1, <2>2, Zenon DEF Commit
<1>4. \A l : Commit(DeleteRows(reduceAllocations(t, l, 0), {l})) => state' = t.state
  <2>1. \A l : DeleteRows(reduceAllocations(t, l, 0), {l}).state = t.state
    BY EditsKeepState
  <2> QED BY <2>1, Zenon DEF Commit
<1>5. Commit(DeleteRows(Cleared(t), Listings)) => state' = t.state
  <2>1. DeleteRows(Cleared(t), Listings).state = t.state
    BY EditsKeepState, Zenon
  <2> QED BY <2>1, Zenon DEF Commit
<1>6. state' = t.state /\ UNCHANGED status
  BY <1>2, <1>3, <1>4, <1>5, Zenon
     DEF CustomerNext, addCartItem, updateCartItem, removeCartItem, clearCart, t
<1> QED BY <1>1, <1>6, Zenon

LEMMA TaskNext == TaskIInv /\ [CartNext]_cartVars => TaskIInv'
<1> SUFFICES ASSUME TaskIInv, [CartNext]_cartVars PROVE TaskIInv'
  OBVIOUS
<1>1. CASE CustomerNext
  BY <1>1, CustomerSettles, SettleKeeps
<1>2. ASSUME NEW o \in OrderIds, NEW basket \in Quantities, createOrder(o, basket)
      PROVE  TaskIInv'
  <2>1. state[o] = "NONE" /\ status[o] = "NONE" /\ status' = [status EXCEPT ![o] = "PENDING"]
    BY <1>2 DEF createOrder, TaskIInv, TaskNeedsOrder
  <2> DEFINE settled == [p \in OrderIds |-> SettledState(state[p])]
  <2>2. state' = settled \/ state' = [settled EXCEPT ![o] = "ACTIVE"]
    <3> DEFINE t == settleCartReconciliation(Tables)
               lines == {l \in Listings : basket[l] > 0 /\ t.quantity[l] > 0}
               claimed == [t EXCEPT !.state[o] = "ACTIVE",
                                    !.linked[o] = [l \in Listings |-> l \in lines],
                                    !.visible[o] = [l \in Listings |->
                                                      IF l \in lines THEN basket[l] ELSE 0]]
    <3>1. t.state = settled
      BY SettleState
    <3>2. Commit(IF lines = {} THEN t ELSE claimed)
      BY <1>2, Zenon DEF createOrder
    <3>3. claimed.state = [t.state EXCEPT ![o] = "ACTIVE"]
      BY DEF settleCartReconciliation
    <3> HIDE DEF t, claimed, settled, lines
    <3>4. state' = t.state \/ state' = claimed.state
      BY <3>2, Zenon DEF Commit
    <3> QED BY <3>1, <3>3, <3>4, Zenon
  <2>3. settled[o] = "NONE"
    BY <2>1 DEF SettledState
  <2> QED BY <2>1, <2>2, <2>3
          DEF TaskIInv, TaskTypes, TaskNeedsOrder, TaskMatchesOutcome, SettledState, States,
              AttachedStates, PendingStates
<1>3. ASSUME NEW o \in OrderIds, Confirm(o) \/ Cancel(o) \/ Expire(o) PROVE TaskIInv'
  BY <1>3 DEF Confirm, Cancel, Expire, queueCartReconciliation, TaskIInv, TaskTypes,
     TaskNeedsOrder, TaskMatchesOutcome, States, AttachedStates, PendingStates
<1>4. CASE reconcilePendingCarts
  <2>1. state' = [o \in OrderIds |-> SettledState(state[o])] /\ UNCHANGED status
    BY <1>4, SettleState, Zenon DEF reconcilePendingCarts, Commit
  <2> QED BY <2>1, SettleKeeps
<1>5. CASE UNCHANGED cartVars
  BY <1>5 DEF cartVars, TaskIInv, TaskTypes, TaskNeedsOrder, TaskMatchesOutcome
<1> QED BY <1>1, <1>2, <1>3, <1>4, <1>5 DEF CartNext

\* A confirmed order's quantities are bought and an expired order's given back,
\* for any number of orders and lines and any schedule of the worker.
THEOREM TasksFollowOrders == CartSpec => []TaskMatchesOutcome
<1>1. TaskIInv => TaskMatchesOutcome
  BY DEF TaskIInv
<1> QED BY <1>1, TaskInit, TaskNext, PTL DEF CartSpec

-----------------------------------------------------------------------------
(* Quantities.  The tables of a cart transaction are a value t, so what it *)
(* does to them is stated of any tables, not of a state.                   *)

TablesOK(t) ==
  t \in [quantity : Quantities, state : [OrderIds -> States],
         linked : [OrderIds -> [Listings -> BOOLEAN]], visible : [OrderIds -> Quantities]]

Within(t) == \A l \in Listings : allocatedQuantity(t, l) <= t.quantity[l]

LEMMA HeldFinite ==
  ASSUME NEW t, NEW orders \in SUBSET OrderIds, NEW l
  PROVE  IsFiniteSet(UnitsHeld(t, orders, l)) /\ HeldBy(t, orders, l) \in Nat
<1>1. IsFiniteSet(orders)
  BY CartAssumption, FS_Subset
<1>2. IsFiniteSet(1..MaxQuantity)
  BY CartAssumption, FS_Interval
<1>3. IsFiniteSet(orders \X (1..MaxQuantity))
  BY <1>1, <1>2, FS_Product
<1>4. UnitsHeld(t, orders, l) \in SUBSET (orders \X (1..MaxQuantity))
  BY DEF UnitsHeld
<1>5. IsFiniteSet(UnitsHeld(t, orders, l))
  BY <1>3, <1>4, FS_Subset
<1> QED BY <1>5, FS_CardinalityType DEF HeldBy

\* Fewer units are no more.
LEMMA HeldLess ==
  ASSUME NEW t, NEW orders \in SUBSET OrderIds, NEW l, NEW s, NEW others,
         UnitsHeld(s, others, l) \subseteq UnitsHeld(t, orders, l)
  PROVE  HeldBy(s, others, l) <= HeldBy(t, orders, l)
<1>1. IsFiniteSet(UnitsHeld(t, orders, l))
  BY HeldFinite
<1>2. UnitsHeld(s, others, l) \in SUBSET UnitsHeld(t, orders, l)
  OBVIOUS
<1> QED BY <1>1, <1>2, FS_Subset, Zenon DEF HeldBy

LEMMA HeldNothing ==
  ASSUME NEW t, NEW orders, NEW l, UnitsHeld(t, orders, l) = {}
  PROVE  HeldBy(t, orders, l) = 0
BY FS_EmptySet, Zenon DEF HeldBy

LEMMA HeldBoth ==
  ASSUME NEW t, NEW some \in SUBSET OrderIds, NEW others \in SUBSET OrderIds, NEW l,
         some \intersect others = {}
  PROVE  HeldBy(t, some \union others, l) = HeldBy(t, some, l) + HeldBy(t, others, l)
<1> DEFINE A == UnitsHeld(t, some, l)
           B == UnitsHeld(t, others, l)
           C == UnitsHeld(t, some \union others, l)
<1>1. C = A \union B /\ A \intersect B = {}
  BY DEF UnitsHeld
<1>2. IsFiniteSet(A) /\ IsFiniteSet(B)
  BY HeldFinite
<1>3. Cardinality(C) = Cardinality(A) + Cardinality(B)
  <2> HIDE DEF A, B, C
  <2>1. Cardinality(A \union B) = Cardinality(A) + Cardinality(B) - Cardinality(A \intersect B)
    BY <1>2, FS_Union, Zenon
  <2>2. Cardinality(A) \in Nat /\ Cardinality(B) \in Nat
    BY <1>2, FS_CardinalityType
  <2>3. Cardinality(A \intersect B) = 0
    BY <1>1, FS_EmptySet, Zenon
  <2>4. Cardinality(C) = Cardinality(A \union B)
    BY <1>1, Zenon
  <2> QED BY <2>1, <2>2, <2>3, <2>4
<1> QED BY <1>3, Zenon DEF HeldBy

\* One order holds the visible quantity of its allocation.
LEMMA HeldByOne ==
  ASSUME NEW t, NEW o, NEW l, t.linked[o][l], NEW n \in 0..MaxQuantity, t.visible[o][l] = n
  PROVE  HeldBy(t, {o}, l) = n
<1> USE CartAssumption
<1>1. UnitsHeld(t, {o}, l) = {o} \X (1..n)
  <2>1. ASSUME NEW unit \in {o} \X (1..MaxQuantity)
        PROVE  t.linked[unit[1]][l] /\ unit[2] <= t.visible[unit[1]][l] <=> unit \in {o} \X (1..n)
    OBVIOUS
  <2>2. {o} \X (1..n) \subseteq {o} \X (1..MaxQuantity)
    OBVIOUS
  <2> QED BY <2>1, <2>2 DEF UnitsHeld
<1>2. IsFiniteSet({o}) /\ Cardinality({o}) = 1
  BY FS_Singleton
<1>3. IsFiniteSet(1..n) /\ Cardinality(1..n) = n
  BY FS_Interval
<1>4. Cardinality({o} \X (1..n)) = Cardinality({o}) * Cardinality(1..n)
  BY <1>2, <1>3, FS_Product, Zenon
<1>5. Cardinality({o}) * Cardinality(1..n) = n
  <2> DEFINE one == Cardinality({o})
             many == Cardinality(1..n)
  <2>1. one = 1 /\ many = n
    BY <1>2, <1>3
  <2> HIDE DEF one, many
  <2>2. one * many = n
    BY <2>1
  <2> QED BY <2>2 DEF one, many
<1> QED BY <1>1, <1>4, <1>5, Zenon DEF HeldBy

\* A set of naturals that is not empty has a least member.
LEMMA LeastOne ==
  ASSUME NEW T \in SUBSET Nat, T # {}
  PROVE  \E x \in T : \A y \in T : x <= y
<1> DEFINE Less == {pair \in Nat \X Nat : pair[1] < pair[2]}
<1>1. IsWellFoundedOn(Less, Nat)
  BY NatLessThanWellFounded DEF OpToRel
<1>2. \E x \in T : \A y \in T : ~(<<y, x>> \in Less)
  <2> HIDE DEF Less
  <2> QED BY <1>1, WFMin
<1>3. PICK x \in T : \A y \in T : ~(<<y, x>> \in Less)
  BY <1>2
<1>4. ASSUME NEW y \in T, y < x PROVE FALSE
  BY <1>3, <1>4
<1>5. \A y \in T : x \in Nat /\ y \in Nat
  OBVIOUS
<1> QED BY <1>4, <1>5

\* Settling takes what was bought, forgets what was released and never fails.
LEMMA SettleWithin ==
  ASSUME NEW t, TablesOK(t), Within(t)
  PROVE  LET s == settleCartReconciliation(t)
         IN Settleable(t) /\ TablesOK(s) /\ Within(s)
<1> DEFINE s == settleCartReconciliation(t)
<1>1. /\ Attached(t) \in SUBSET OrderIds /\ Bought(t) \subseteq Attached(t)
      /\ Attached(t) \ Bought(t) \in SUBSET OrderIds /\ Bought(t) \in SUBSET OrderIds
  BY DEF Attached, Bought, AttachedStates, PendingStates
<1>2. ASSUME NEW l \in Listings
      PROVE  /\ Taken(t, l) \in 0..t.quantity[l] /\ t.quantity[l] \in 0..MaxQuantity
             /\ HeldBy(t, Attached(t) \ Bought(t), l) <= t.quantity[l] - Taken(t, l)
  <2>1. HeldBy(t, Attached(t), l) = HeldBy(t, Bought(t), l) + HeldBy(t, Attached(t) \ Bought(t), l)
    <3>1. /\ Attached(t) = Bought(t) \union (Attached(t) \ Bought(t))
          /\ Bought(t) \intersect (Attached(t) \ Bought(t)) = {}
      BY <1>1
    <3> QED BY <1>1, <3>1, HeldBoth
  <2>2. HeldBy(t, Bought(t), l) \in Nat /\ HeldBy(t, Attached(t) \ Bought(t), l) \in Nat
    BY <1>1, HeldFinite
  <2>3. HeldBy(t, Attached(t), l) <= t.quantity[l]
    BY DEF Within, allocatedQuantity
  <2>4. t.quantity[l] \in 0..MaxQuantity
    BY DEF TablesOK, Quantities
  <2> QED BY <2>1, <2>2, <2>3, <2>4, CartAssumption DEF Taken
<1>3. Settleable(t)
  BY <1>2 DEF Settleable, Taken
<1>4. TablesOK(s)
  <2>1. s.quantity \in Quantities
    BY <1>2, CartAssumption DEF Quantities, settleCartReconciliation
  <2>2. s.state \in [OrderIds -> States]
    BY DEF settleCartReconciliation, TablesOK, States, AttachedStates, PendingStates
  <2>3. s.linked \in [OrderIds -> [Listings -> BOOLEAN]]
    BY DEF settleCartReconciliation, TablesOK, Unlink
  <2>4. s.visible \in [OrderIds -> Quantities]
    BY CartAssumption DEF settleCartReconciliation, TablesOK, Quantities, NoLine
  <2>5. s = [quantity |-> s.quantity, linked |-> s.linked, visible |-> s.visible, state |-> s.state]
    BY DEF settleCartReconciliation
  <2> QED BY <2>1, <2>2, <2>3, <2>4, <2>5 DEF TablesOK
<1>5. ASSUME NEW l \in Listings PROVE allocatedQuantity(s, l) <= s.quantity[l]
  <2>1. Attached(s) \subseteq Attached(t) \ Bought(t)
    BY DEF Attached, Bought, settleCartReconciliation, AttachedStates, PendingStates
  <2>2. \A o \in Attached(s) : /\ s.visible[o] = t.visible[o]
                               /\ s.linked[o][l] => t.linked[o][l]
    BY <2>1 DEF settleCartReconciliation, Attached, Bought, Queued, Unlink, AttachedStates, PendingStates
  <2>3. UnitsHeld(s, Attached(s), l) \subseteq UnitsHeld(t, Attached(t) \ Bought(t), l)
    <3> HIDE DEF s
    <3> QED BY <2>1, <2>2 DEF UnitsHeld
  <2>4. HeldBy(s, Attached(s), l) <= HeldBy(t, Attached(t) \ Bought(t), l)
    BY <1>1, <2>3, HeldLess
  <2>5. Attached(s) \in SUBSET OrderIds
    BY DEF Attached
  <2>6. HeldBy(s, Attached(s), l) \in Nat /\ HeldBy(t, Attached(t) \ Bought(t), l) \in Nat
    BY <1>1, <2>5, HeldFinite
  <2>7. s.quantity[l] = t.quantity[l] - Taken(t, l)
    BY DEF settleCartReconciliation
  <2> HIDE DEF s
  <2> QED BY <1>2, <2>4, <2>6, <2>7 DEF allocatedQuantity
<1> QED BY <1>3, <1>4, <1>5 DEF Within

-----------------------------------------------------------------------------
(* Reducing a line.  Either every allocation goes, or the oldest order     *)
(* with which the excess is reached keeps what is left of its own, all     *)
(* older ones lose theirs, and the younger ones hold no more than before.  *)

Clip(v, e) == Max({0, Min({v, e})})
Older(t, o, l) == HeldBy(t, {p \in Attached(t) : p < o}, l)
Reduction(t, l, target, o) ==
  Clip(t.visible[o][l], allocatedQuantity(t, l) - target - Older(t, o, l))

LEMMA MinOfTwo == ASSUME NEW a \in Int, NEW b \in Int PROVE Min({a, b}) = IF a <= b THEN a ELSE b
<1> DEFINE m == IF a <= b THEN a ELSE b
<1>1. m \in {a, b} /\ \A y \in {a, b} : m <= y
  OBVIOUS
<1>2. \A x \in {a, b} : (\A y \in {a, b} : x <= y) => x = m
  OBVIOUS
<1> HIDE DEF m
<1>3. Min({a, b}) = m
  BY <1>1, <1>2 DEF Min
<1> QED BY <1>3 DEF m

LEMMA MaxOfTwo == ASSUME NEW a \in Int, NEW b \in Int PROVE Max({a, b}) = IF a >= b THEN a ELSE b
<1> DEFINE m == IF a >= b THEN a ELSE b
<1>1. m \in {a, b} /\ \A y \in {a, b} : m >= y
  OBVIOUS
<1>2. \A x \in {a, b} : (\A y \in {a, b} : x >= y) => x = m
  OBVIOUS
<1> HIDE DEF m
<1>3. Max({a, b}) = m
  BY <1>1, <1>2 DEF Max
<1> QED BY <1>3 DEF m

LEMMA ClipIs ==
  ASSUME NEW v \in Nat, NEW e \in Int
  PROVE  Clip(v, e) = IF e <= 0 THEN 0 ELSE IF e <= v THEN e ELSE v
<1>1. Min({v, e}) = IF v <= e THEN v ELSE e
  BY MinOfTwo
<1>2. Min({v, e}) \in Int
  BY <1>1
<1>3. Max({0, Min({v, e})}) = IF 0 >= Min({v, e}) THEN 0 ELSE Min({v, e})
  BY <1>2, MaxOfTwo
<1> QED BY <1>1, <1>3 DEF Clip

LEMMA ReduceFields ==
  ASSUME NEW t, TablesOK(t), NEW l \in Listings, NEW target \in 0..MaxQuantity
  PROVE  LET r == reduceAllocations(t, l, target)
         IN /\ r.quantity = t.quantity /\ r.state = t.state /\ r.linked = t.linked
            /\ Attached(r) = Attached(t)
            /\ \A o \in OrderIds, k \in Listings :
                 r.visible[o][k] = IF o \in Attached(t) /\ t.linked[o][l] /\ k = l
                                   THEN t.visible[o][l] - Reduction(t, l, target, o)
                                   ELSE t.visible[o][k]
            /\ \A o \in OrderIds : Reduction(t, l, target, o) \in 0..t.visible[o][l]
            /\ TablesOK(r)
<1> DEFINE r == reduceAllocations(t, l, target)
<1>1. /\ r.quantity = t.quantity /\ r.state = t.state /\ r.linked = t.linked
      /\ r.visible = [o \in OrderIds |->
                        IF o \in Attached(t) /\ t.linked[o][l]
                        THEN [t.visible[o] EXCEPT ![l] = @ - Reduction(t, l, target, o)]
                        ELSE t.visible[o]]
      /\ r = [quantity |-> r.quantity, linked |-> r.linked, visible |-> r.visible, state |-> r.state]
  <2> DEFINE reduced == [o \in OrderIds |->
                          IF o \in Attached(t) /\ t.linked[o][l]
                          THEN [t.visible[o] EXCEPT ![l] = @ - Reduction(t, l, target, o)]
                          ELSE t.visible[o]]
  <2>1. r = [t EXCEPT !.visible = reduced]
    BY Zenon DEF reduceAllocations, Reduction, Older, Clip
  <2> HIDE DEF r, reduced
  <2>2. /\ r.quantity = t.quantity /\ r.state = t.state /\ r.linked = t.linked
        /\ r.visible = reduced
        /\ r = [quantity |-> r.quantity, linked |-> r.linked, visible |-> r.visible, state |-> r.state]
    BY <2>1 DEF TablesOK
  <2> QED BY <2>2 DEF r, reduced
<1>2. Attached(r) = Attached(t)
  BY <1>1, Zenon DEF Attached
<1>3. ASSUME NEW o \in OrderIds PROVE Reduction(t, l, target, o) \in 0..t.visible[o][l]
  <2>1. {p \in Attached(t) : p < o} \in SUBSET OrderIds /\ Attached(t) \in SUBSET OrderIds
    BY DEF Attached
  <2>2. Older(t, o, l) \in Nat /\ allocatedQuantity(t, l) \in Nat
    BY <2>1, HeldFinite DEF Older, allocatedQuantity
  <2>3. t.visible[o][l] \in Nat
    BY CartAssumption DEF TablesOK, Quantities
  <2> DEFINE e == allocatedQuantity(t, l) - target - Older(t, o, l)
             v == t.visible[o][l]
  <2>4. e \in Int /\ v \in Nat
    BY <2>2, <2>3, CartAssumption
  <2> HIDE DEF e, v
  <2>5. Clip(v, e) \in 0..v
    BY <2>4, ClipIs
  <2> QED BY <2>5 DEF Reduction, e, v
<1>4. \A o \in OrderIds : t.visible[o] \in [Listings -> 0..MaxQuantity]
  BY DEF TablesOK, Quantities
<1>5. \A o \in OrderIds, k \in Listings :
         r.visible[o][k] = IF o \in Attached(t) /\ t.linked[o][l] /\ k = l
                           THEN t.visible[o][l] - Reduction(t, l, target, o)
                           ELSE t.visible[o][k]
  <2> HIDE DEF r
  <2> QED BY <1>1, <1>4
<1>6. r.visible \in [OrderIds -> Quantities]
  <2>1. ASSUME NEW o \in OrderIds
        PROVE  [t.visible[o] EXCEPT ![l] = @ - Reduction(t, l, target, o)] \in Quantities
    <3>1. t.visible[o][l] \in 0..MaxQuantity
      BY <1>4
    <3>2. t.visible[o][l] - Reduction(t, l, target, o) \in 0..MaxQuantity
      BY <1>3, <3>1, CartAssumption
    <3> QED BY <1>4, <3>2 DEF Quantities
  <2> HIDE DEF r
  <2> QED BY <1>1, <1>4, <2>1 DEF Quantities
<1>7. TablesOK(r)
  <2> HIDE DEF r
  <2> QED BY <1>1, <1>6 DEF TablesOK
<1> HIDE DEF r
<1>8. QED BY <1>1, <1>2, <1>3, <1>5, <1>7 DEF r

\* Reducing a line leaves no more allocated than its new total, and no other line changes.
LEMMA ReduceReaches ==
  ASSUME NEW t, TablesOK(t), NEW l \in Listings, NEW target \in 0..MaxQuantity
  PROVE  LET r == reduceAllocations(t, l, target)
         IN /\ allocatedQuantity(r, l) <= target
            /\ \A k \in Listings : k # l => allocatedQuantity(r, k) = allocatedQuantity(t, k)
<1> DEFINE r == reduceAllocations(t, l, target)
           A == Attached(t)
           v(o) == t.visible[o][l]
           excess == allocatedQuantity(t, l) - target
           Reaches == {o \in A : t.linked[o][l] /\ Older(t, o, l) + v(o) >= excess}
<1>1. /\ Attached(r) = A /\ r.linked = t.linked
      /\ \A o \in OrderIds, k \in Listings :
           r.visible[o][k] = IF o \in A /\ t.linked[o][l] /\ k = l
                             THEN v(o) - Reduction(t, l, target, o)
                             ELSE t.visible[o][k]
      /\ \A o \in OrderIds : Reduction(t, l, target, o) \in 0..v(o)
  BY ReduceFields
<1>2. A \in SUBSET OrderIds /\ OrderIds \in SUBSET Nat
  BY CartAssumption DEF Attached
<1>3. /\ \A o \in OrderIds : v(o) \in 0..MaxQuantity /\ v(o) \in Nat
      /\ \A o \in OrderIds : Older(t, o, l) \in Nat
      /\ allocatedQuantity(t, l) \in Nat /\ excess \in Int /\ target \in Nat
  <2>1. \A o \in OrderIds : v(o) \in 0..MaxQuantity /\ v(o) \in Nat
    BY CartAssumption DEF TablesOK, Quantities
  <2>2. \A o \in OrderIds : {p \in A : p < o} \in SUBSET OrderIds
    BY <1>2
  <2>3. \A o \in OrderIds : Older(t, o, l) \in Nat
    BY <2>2, HeldFinite DEF Older
  <2>4. allocatedQuantity(t, l) \in Nat
    BY <1>2, HeldFinite DEF allocatedQuantity
  <2> QED BY <2>1, <2>3, <2>4, CartAssumption
<1>4. \A o \in OrderIds : Reduction(t, l, target, o) =
         (IF excess - Older(t, o, l) <= 0 THEN 0
          ELSE IF excess - Older(t, o, l) <= v(o) THEN excess - Older(t, o, l) ELSE v(o))
  <2> SUFFICES ASSUME NEW o \in OrderIds
               PROVE  Reduction(t, l, target, o) =
                        (IF excess - Older(t, o, l) <= 0 THEN 0
                         ELSE IF excess - Older(t, o, l) <= v(o) THEN excess - Older(t, o, l) ELSE v(o))
    OBVIOUS
  <2> DEFINE e == excess - Older(t, o, l)
             w == v(o)
  <2>1. e \in Int /\ w \in Nat
    BY <1>3
  <2> HIDE DEF e, w
  <2>2. Clip(w, e) = IF e <= 0 THEN 0 ELSE IF e <= w THEN e ELSE w
    BY <2>1, ClipIs
  <2> QED BY <2>2 DEF e, w, Reduction
<1>5. ASSUME NEW o \in A, t.linked[o][l], o \notin Reaches PROVE r.visible[o][l] = 0
  <2>1. o \in OrderIds /\ Older(t, o, l) + v(o) < excess
    BY <1>2, <1>3, <1>5
  <2>2. Reduction(t, l, target, o) = v(o)
    <3> HIDE DEF excess, v, A, r
    <3> QED BY <1>3, <1>4, <2>1
  <2> HIDE DEF excess, r, Reaches
  <2> QED BY <1>1, <1>3, <1>5, <2>1, <2>2
<1>6. allocatedQuantity(r, l) <= target
  <2>1. CASE Reaches = {}
    <3>1. UnitsHeld(r, A, l) = {}
      <4>1. \A o \in A : ~t.linked[o][l] \/ r.visible[o][l] = 0
        BY <1>5, <2>1
      <4> HIDE DEF r, A
      <4> QED BY <1>1, <4>1, CartAssumption DEF UnitsHeld
    <3>2. HeldBy(r, A, l) = 0
      BY <3>1, HeldNothing
    <3> HIDE DEF r, A
    <3> QED BY <1>1, <1>3, <3>2 DEF allocatedQuantity
  <2>2. CASE Reaches # {}
    <3>1. PICK o \in Reaches : \A p \in Reaches : o <= p
      <4>1. Reaches \in SUBSET Nat
        BY <1>2
      <4> HIDE DEF Reaches
      <4> QED BY <2>2, <4>1, LeastOne
    <3> DEFINE before == {p \in A : p < o}
               after == {p \in A : p > o}
               red == Reduction(t, l, target, o)
    <3>2. /\ o \in A /\ o \in OrderIds /\ t.linked[o][l] /\ Older(t, o, l) + v(o) >= excess
          /\ before \in SUBSET OrderIds /\ after \in SUBSET OrderIds /\ {o} \in SUBSET OrderIds
          /\ (before \union {o}) \in SUBSET OrderIds /\ ({o} \union after) \in SUBSET OrderIds
      BY <1>2
    <3>3. A = (before \union {o}) \union after
      <4>1. \A p \in A : p \in Nat /\ o \in Nat
        BY <1>2, <3>2
      <4>2. \A p \in A : p < o \/ p = o \/ p > o
        BY <4>1
      <4> HIDE DEF Reaches
      <4> QED BY <3>2, <4>2
    <3>4. before \intersect {o} = {} /\ (before \union {o}) \intersect after = {} /\ {o} \intersect after = {}
      <4>1. \A p \in A : p \in Nat /\ o \in Nat
        BY <1>2, <3>2
      <4>2. \A p \in A : ~(p < o /\ p > o) /\ (p = o => ~(p < o) /\ ~(p > o))
        BY <4>1
      <4>3. o \notin before /\ o \notin after
        <5> HIDE DEF A, Reaches
        <5> QED BY <3>2, <4>2
      <4>4. \A p \in before : p \notin after
        <5> HIDE DEF A, Reaches
        <5> QED BY <4>2
      <4> HIDE DEF before, after
      <4> QED BY <4>3, <4>4
    <3>5. HeldBy(t, A, l) = (Older(t, o, l) + v(o)) + HeldBy(t, after, l)
      <4>1. HeldBy(t, before \union {o}, l) = HeldBy(t, before, l) + HeldBy(t, {o}, l)
        <5> HIDE DEF before, after
        <5> QED BY <3>2, <3>4, HeldBoth
      <4>2. HeldBy(t, (before \union {o}) \union after, l) = HeldBy(t, before \union {o}, l) + HeldBy(t, after, l)
        <5> HIDE DEF before, after
        <5> QED BY <3>2, <3>4, HeldBoth
      <4>3. HeldBy(t, {o}, l) = v(o)
        <5> DEFINE n == v(o)
        <5>1. n \in 0..MaxQuantity /\ t.visible[o][l] = n
          BY <1>3, <3>2
        <5> HIDE DEF n
        <5>2. HeldBy(t, {o}, l) = n
          BY <3>2, <5>1, HeldByOne
        <5> QED BY <5>2 DEF n
      <4>4. HeldBy(t, before, l) = Older(t, o, l)
        BY DEF Older
      <4> HIDE DEF A, before, after, v
      <4> QED BY <3>3, <4>1, <4>2, <4>3, <4>4
    <3>6. HeldBy(r, A, l) <= (v(o) - red) + HeldBy(t, after, l)
      <4>1. HeldBy(r, A, l) <= HeldBy(r, {o} \union after, l)
        <5>1. UnitsHeld(r, A, l) \subseteq UnitsHeld(r, {o} \union after, l)
          <6>1. ASSUME NEW p \in before, r.linked[p][l] PROVE r.visible[p][l] = 0
            <7>1. p \in A /\ t.linked[p][l]
              BY <1>1, <6>1
            <7>2. p \notin Reaches
              <8>1. p \in Nat /\ o \in Nat /\ p < o
                BY <1>2, <3>2
              <8> HIDE DEF Reaches
              <8> QED BY <3>1, <8>1
            <7> HIDE DEF r, A, Reaches
            <7> QED BY <1>5, <7>1, <7>2
          <6> HIDE DEF r, A, before, after
          <6> QED BY <3>3, <6>1, CartAssumption DEF UnitsHeld
        <5> HIDE DEF r, A, after
        <5> QED BY <3>2, <5>1, HeldLess
      <4>2. HeldBy(r, {o} \union after, l) = HeldBy(r, {o}, l) + HeldBy(r, after, l)
        <5> HIDE DEF r, after
        <5> QED BY <3>2, <3>4, HeldBoth
      <4>3. HeldBy(r, {o}, l) = v(o) - red
        <5> DEFINE n == v(o) - red
        <5>1. r.visible[o][l] = n /\ r.linked[o][l]
          <6> HIDE DEF r, A, Reaches
          <6> QED BY <1>1, <3>2
        <5>2. n \in 0..MaxQuantity
          <6>1. v(o) \in 0..MaxQuantity /\ red \in 0..v(o)
            BY <1>1, <1>3, <3>2
          <6> HIDE DEF v, red
          <6> QED BY <6>1, CartAssumption
        <5> HIDE DEF n, r
        <5>3. HeldBy(r, {o}, l) = n
          BY <5>1, <5>2, HeldByOne
        <5> QED BY <5>3 DEF n
      <4>4. HeldBy(r, after, l) <= HeldBy(t, after, l)
        <5>1. \A p \in after : r.visible[p][l] <= t.visible[p][l]
          <6>1. \A p \in after : p \in OrderIds /\ r.visible[p][l] \in {v(p), v(p) - Reduction(t, l, target, p)}
            <7> HIDE DEF r
            <7> QED BY <1>1, <1>2, <3>2
          <6>2. \A p \in OrderIds : v(p) \in Nat /\ Reduction(t, l, target, p) \in 0..v(p)
            BY <1>1, <1>3
          <6> HIDE DEF r, after, A
          <6> QED BY <6>1, <6>2
        <5>2. \A p \in after : r.visible[p][l] \in Int /\ t.visible[p][l] \in Int
          <6>1. \A p \in after : p \in OrderIds
            BY <3>2
          <6>2. TablesOK(r)
            BY ReduceFields
          <6>3. \A p \in OrderIds : /\ r.visible[p] \in [Listings -> 0..MaxQuantity]
                                    /\ t.visible[p] \in [Listings -> 0..MaxQuantity]
            <7> HIDE DEF r
            <7> QED BY <6>2 DEF TablesOK, Quantities
          <6>4. \A p \in OrderIds : r.visible[p][l] \in 0..MaxQuantity /\ t.visible[p][l] \in 0..MaxQuantity
            <7> HIDE DEF r
            <7> QED BY <6>3
          <6>5. \A n \in 0..MaxQuantity : n \in Int
            OBVIOUS
          <6> HIDE DEF r, after, A, Reaches, v, excess
          <6> QED BY <6>1, <6>4, <6>5, Zenon
        <5>3. UnitsHeld(r, after, l) \subseteq UnitsHeld(t, after, l)
          <6> HIDE DEF r, after
          <6> QED BY <1>1, <5>1, <5>2, CartAssumption DEF UnitsHeld
        <5> HIDE DEF r, after
        <5> QED BY <3>2, <5>3, HeldLess
      <4>5. /\ HeldBy(r, A, l) \in Nat /\ HeldBy(r, {o} \union after, l) \in Nat
            /\ HeldBy(r, after, l) \in Nat /\ HeldBy(t, after, l) \in Nat
            /\ v(o) \in Int /\ red \in Int
        <5>1. v(o) \in Int /\ red \in Int
          BY <1>1, <1>3, <3>2
        <5> HIDE DEF r, A, after, v, red
        <5> QED BY <1>2, <3>2, <5>1, HeldFinite
      <4> HIDE DEF r, A, after, v, red
      <4> QED BY <4>1, <4>2, <4>3, <4>4, <4>5
    <3>7. red >= excess - Older(t, o, l) /\ red \in Int
      <4>1. red = (IF excess - Older(t, o, l) <= 0 THEN 0
                   ELSE IF excess - Older(t, o, l) <= v(o) THEN excess - Older(t, o, l) ELSE v(o))
        BY <1>4, <3>2
      <4>2. v(o) \in Nat /\ Older(t, o, l) \in Nat /\ excess \in Int /\ Older(t, o, l) + v(o) >= excess
        BY <1>3, <3>2
      <4> HIDE DEF v, excess, red
      <4> QED BY <4>1, <4>2
    <3>8. HeldBy(t, after, l) \in Nat /\ HeldBy(r, A, l) \in Nat /\ v(o) \in Nat /\ Older(t, o, l) \in Nat
      <4>1. v(o) \in Nat /\ Older(t, o, l) \in Nat
        BY <1>3, <3>2
      <4> HIDE DEF r, A, after, v
      <4> QED BY <1>2, <3>2, <4>1, HeldFinite
    <3>9. excess = HeldBy(t, A, l) - target /\ allocatedQuantity(r, l) = HeldBy(r, A, l)
      <4>1. Attached(r) = A
        BY <1>1
      <4> HIDE DEF r
      <4> QED BY <4>1 DEF allocatedQuantity
    <3> HIDE DEF r, A, after, v, red, excess
    <3> QED BY <1>3, <3>5, <3>6, <3>7, <3>8, <3>9
  <2> QED BY <2>1, <2>2
<1>7. ASSUME NEW k \in Listings, k # l PROVE allocatedQuantity(r, k) = allocatedQuantity(t, k)
  <2>1. \A o \in A : r.visible[o][k] = t.visible[o][k]
    <3> HIDE DEF r
    <3> QED BY <1>1, <1>2, <1>7
  <2>2. UnitsHeld(r, A, k) = UnitsHeld(t, A, k)
    <3> HIDE DEF r, A
    <3> QED BY <1>1, <2>1 DEF UnitsHeld
  <2> HIDE DEF r
  <2> QED BY <1>1, <2>2, Zenon DEF allocatedQuantity, HeldBy
<1> HIDE DEF r
<1> QED BY <1>6, <1>7 DEF r

-----------------------------------------------------------------------------
(* Reducing a line takes no more than it has to: what the youngest order   *)
(* that loses anything loses is the last of the excess.                    *)

LEMMA GreatestOne ==
  ASSUME NEW T \in SUBSET Nat, T # {}, IsFiniteSet(T)
  PROVE  \E x \in T : \A y \in T : y <= x
<1> DEFINE above(x) == {y \in T : y > x}
           C == {Cardinality(above(x)) : x \in T}
<1>1. \A x \in T : above(x) \in SUBSET T /\ IsFiniteSet(above(x)) /\ Cardinality(above(x)) \in Nat
  BY FS_Subset, FS_CardinalityType
<1>2. C \in SUBSET Nat /\ C # {}
  <2> HIDE DEF above
  <2> QED BY <1>1
<1>3. PICK c \in C : \A d \in C : c <= d
  <2> HIDE DEF C
  <2> QED BY <1>2, LeastOne
<1>4. PICK x \in T : c = Cardinality(above(x))
  BY <1>3
<1>5. ASSUME NEW y \in T, y > x PROVE FALSE
  <2> DEFINE X == above(x)
             Y == above(y)
  <2>1. x \in Nat /\ y \in Nat /\ \A z \in T : z \in Nat
    OBVIOUS
  <2>2. Y \in SUBSET X /\ y \in X /\ y \notin Y
    <3>1. \A z \in T : z > y => z > x
      BY <1>5, <2>1
    <3>2. ~(y > y)
      BY <2>1
    <3> QED BY <1>5, <3>1, <3>2
  <2>3. IsFiniteSet(X) /\ Cardinality(X) \in Nat /\ Cardinality(Y) \in Nat
    BY <1>1
  <2>4. Cardinality(X) <= Cardinality(Y)
    BY <1>3, <1>4
  <2> HIDE DEF X, Y
  <2>5. Cardinality(Y) <= Cardinality(X) /\ Cardinality(Y) # Cardinality(X)
    BY <2>2, <2>3, FS_Subset
  <2> QED BY <2>3, <2>4, <2>5
<1>6. \A y \in T : y \in Nat /\ x \in Nat
  OBVIOUS
<1> QED BY <1>5, <1>6

Before(A, o) == {p \in A : p < o}
After(A, o) == {p \in A : p > o}

\* The orders older than one, that order, and the younger ones.
LEMMA HeldInTurn ==
  ASSUME NEW t, NEW A \in SUBSET OrderIds, NEW o \in A, NEW l
  PROVE  HeldBy(t, A, l) = HeldBy(t, Before(A, o), l) + HeldBy(t, {o}, l) + HeldBy(t, After(A, o), l)
<1> DEFINE before == Before(A, o)
           after == After(A, o)
<1>1. \A p \in A : p \in Nat
  BY CartAssumption
<1>2. /\ before \in SUBSET OrderIds /\ after \in SUBSET OrderIds /\ {o} \in SUBSET OrderIds
      /\ ({o} \union after) \in SUBSET OrderIds
      /\ A = before \union ({o} \union after)
      /\ before \intersect ({o} \union after) = {} /\ {o} \intersect after = {}
  BY <1>1 DEF Before, After
<1> HIDE DEF before, after
<1>3. HeldBy(t, {o} \union after, l) = HeldBy(t, {o}, l) + HeldBy(t, after, l)
  BY <1>2, HeldBoth
<1>4. HeldBy(t, A, l) = HeldBy(t, before, l) + HeldBy(t, {o} \union after, l)
  BY <1>2, HeldBoth
<1>5. HeldBy(t, before, l) \in Nat /\ HeldBy(t, {o}, l) \in Nat /\ HeldBy(t, after, l) \in Nat
  BY <1>2, HeldFinite
<1>6. HeldBy(t, A, l) = HeldBy(t, before, l) + HeldBy(t, {o}, l) + HeldBy(t, after, l)
  BY <1>3, <1>4, <1>5
<1> QED BY <1>6 DEF before, after

\* If an order loses anything of a line, the line is reduced to its new total exactly.
LEMMA ReduceExact ==
  ASSUME NEW t, TablesOK(t), NEW l \in Listings, NEW target \in 0..MaxQuantity, NEW o \in OrderIds,
         reduceAllocations(t, l, target).visible[o][l] # t.visible[o][l]
  PROVE  allocatedQuantity(reduceAllocations(t, l, target), l) = target
<1> DEFINE r == reduceAllocations(t, l, target)
           A == Attached(t)
           v(p) == t.visible[p][l]
           red(p) == Reduction(t, l, target, p)
           Cut == {p \in A : t.linked[p][l] /\ red(p) > 0}
<1>1. /\ Attached(r) = A /\ r.linked = t.linked
      /\ \A p \in OrderIds : r.visible[p][l] = IF p \in A /\ t.linked[p][l] THEN v(p) - red(p) ELSE v(p)
      /\ \A p \in OrderIds : red(p) \in 0..v(p)
      /\ TablesOK(r)
  BY ReduceFields
<1>2. A \in SUBSET OrderIds /\ OrderIds \in SUBSET Nat /\ IsFiniteSet(OrderIds)
  BY CartAssumption DEF Attached
<1>3. \A p \in OrderIds : v(p) \in 0..MaxQuantity /\ r.visible[p][l] \in 0..MaxQuantity
  <2> HIDE DEF r
  <2> QED BY <1>1 DEF TablesOK, Quantities
<1>4. \A p \in OrderIds : v(p) \in Nat /\ red(p) \in Nat
  BY <1>1, <1>3, CartAssumption
<1>5. Cut # {}
  <2>1. o \in A /\ t.linked[o][l] /\ v(o) - red(o) # v(o)
    <3> HIDE DEF red, A
    <3> QED BY <1>1
  <2>2. red(o) > 0
    <3> HIDE DEF red, v
    <3> QED BY <1>4, <2>1
  <2> QED BY <2>1, <2>2
<1>6. PICK g \in Cut : \A p \in Cut : p <= g
  <2>1. Cut \in SUBSET OrderIds
    BY <1>2
  <2> HIDE DEF Cut
  <2>2. Cut \in SUBSET Nat /\ IsFiniteSet(Cut)
    BY <1>2, <2>1, FS_Subset
  <2> QED BY <1>5, <2>2, GreatestOne
<1>7. g \in A /\ g \in OrderIds /\ t.linked[g][l] /\ red(g) > 0
  BY <1>2
<1> DEFINE before == Before(A, g)
           after == After(A, g)
<1>8. HeldBy(r, after, l) = HeldBy(t, after, l)
  <2>1. \A p \in after : p \in OrderIds /\ r.visible[p][l] = v(p)
    <3> SUFFICES ASSUME NEW p \in after PROVE p \in OrderIds /\ r.visible[p][l] = v(p)
      OBVIOUS
    <3>1. p \in A /\ p \in OrderIds /\ p > g /\ p \in Nat /\ g \in Nat
      BY <1>2, <1>7 DEF After
    <3>2. p \notin Cut
      <4> HIDE DEF Cut
      <4> QED BY <1>6, <3>1
    <3>3. t.linked[p][l] => red(p) = 0
      <4>1. t.linked[p][l] => ~(red(p) > 0)
        <5> HIDE DEF red
        <5> QED BY <3>1, <3>2
      <4> HIDE DEF red
      <4> QED BY <1>4, <3>1, <4>1
    <3> HIDE DEF red, r, A
    <3> QED BY <1>1, <1>4, <3>1, <3>3
  <2>2. UnitsHeld(r, after, l) = UnitsHeld(t, after, l)
    <3> HIDE DEF r, after
    <3> QED BY <1>1, <2>1 DEF UnitsHeld
  <2> QED BY <2>2, Zenon DEF HeldBy
<1>9. /\ HeldBy(t, {g}, l) = v(g) /\ HeldBy(r, {g}, l) = v(g) - red(g)
  <2>1. HeldBy(t, {g}, l) = v(g)
    BY <1>3, <1>7, HeldByOne
  <2>2. HeldBy(r, {g}, l) = v(g) - red(g)
    <3> DEFINE n == v(g) - red(g)
    <3>1. r.visible[g][l] = n /\ r.linked[g][l] /\ n \in 0..MaxQuantity
      <4> HIDE DEF r, A, red
      <4> QED BY <1>1, <1>3, <1>7
    <3> HIDE DEF n, r
    <3>2. HeldBy(r, {g}, l) = n
      BY <3>1, HeldByOne
    <3> QED BY <3>2 DEF n
  <2> QED BY <2>1, <2>2
<1>10. /\ HeldBy(t, A, l) = Older(t, g, l) + HeldBy(t, {g}, l) + HeldBy(t, after, l)
       /\ HeldBy(r, A, l) = HeldBy(r, before, l) + HeldBy(r, {g}, l) + HeldBy(r, after, l)
  <2>1. \A s : HeldBy(s, A, l) = HeldBy(s, before, l) + HeldBy(s, {g}, l) + HeldBy(s, after, l)
    <3> SUFFICES ASSUME NEW s
                 PROVE  HeldBy(s, A, l) = HeldBy(s, before, l) + HeldBy(s, {g}, l) + HeldBy(s, after, l)
      OBVIOUS
    <3>1. A \in SUBSET OrderIds /\ g \in A
      BY <1>2, <1>7
    <3> HIDE DEF A, Cut
    <3> QED BY <3>1, HeldInTurn
  <2>2. Older(t, g, l) = HeldBy(t, before, l)
    BY DEF Older, Before
  <2> HIDE DEF r, before, after, A
  <2> QED BY <2>1, <2>2
<1>11. /\ HeldBy(r, before, l) \in Nat /\ HeldBy(t, after, l) \in Nat /\ Older(t, g, l) \in Nat
       /\ allocatedQuantity(t, l) \in Nat /\ target \in Nat
  <2>1. before \in SUBSET OrderIds /\ after \in SUBSET OrderIds
    BY <1>2 DEF Before, After
  <2>2. HeldBy(r, before, l) \in Nat /\ HeldBy(t, after, l) \in Nat /\ HeldBy(t, before, l) \in Nat
    <3> HIDE DEF r, before, after
    <3> QED BY <2>1, HeldFinite
  <2>3. allocatedQuantity(t, l) \in Nat
    BY <1>2, HeldFinite DEF allocatedQuantity
  <2> QED BY <2>2, <2>3, CartAssumption DEF Older, Before
<1>12. red(g) <= allocatedQuantity(t, l) - target - Older(t, g, l)
  <2> DEFINE e == allocatedQuantity(t, l) - target - Older(t, g, l)
             w == v(g)
             n == red(g)
  <2>1. e \in Int /\ w \in Nat /\ n > 0
    BY <1>4, <1>7, <1>11
  <2>2. n = Clip(w, e)
    BY Zenon DEF Reduction
  <2> HIDE DEF e, w, n
  <2>3. n <= e
    BY <2>1, <2>2, ClipIs
  <2> QED BY <2>3 DEF e, n
<1>13. allocatedQuantity(t, l) = HeldBy(t, A, l) /\ allocatedQuantity(r, l) = HeldBy(r, A, l)
  <2> HIDE DEF r
  <2> QED BY <1>1, Zenon DEF allocatedQuantity
<1>14. allocatedQuantity(r, l) <= target
  BY ReduceReaches
<1>15. v(g) \in Nat /\ red(g) \in Nat
  BY <1>4, <1>7
<1> DEFINE total == allocatedQuantity(t, l)
           rest == allocatedQuantity(r, l)
           older == Older(t, g, l)
           oldAfter == HeldBy(r, before, l)
           young == HeldBy(t, after, l)
           shown == v(g)
           lost == red(g)
<1>16. /\ total = older + shown + young /\ rest = oldAfter + (shown - lost) + young
       /\ lost <= total - target - older /\ rest <= target
       /\ older \in Nat /\ oldAfter \in Nat /\ young \in Nat /\ shown \in Nat /\ lost \in Nat
       /\ target \in Nat /\ total \in Nat
  BY <1>8, <1>9, <1>10, <1>11, <1>12, <1>13, <1>14, <1>15, Zenon
<1> HIDE DEF total, rest, older, oldAfter, young, shown, lost, r
<1>17. rest = target
  <2>1. lost + target + older <= total
    BY <1>16
  <2>2. rest + lost = oldAfter + shown + young
    BY <1>16
  <2>3. rest \in Int /\ rest + lost >= shown + young
    BY <1>16, <2>2
  <2> QED BY <1>16, <2>1, <2>3
<1> QED BY <1>17 DEF rest, r

-----------------------------------------------------------------------------
(* Cart transactions, one by one.                                          *)

LEMMA SetFields ==
  ASSUME NEW t, TablesOK(t), NEW l, NEW q
  PROVE  LET s == SetQuantity(t, l, q)
         IN /\ s.quantity = [t.quantity EXCEPT ![l] = q]
            /\ s.state = t.state /\ s.linked = t.linked /\ s.visible = t.visible
            /\ s = [quantity |-> s.quantity, linked |-> s.linked, visible |-> s.visible, state |-> s.state]
<1> DEFINE s == SetQuantity(t, l, q)
           changed == [t.quantity EXCEPT ![l] = q]
<1>1. s = [t EXCEPT !.quantity = changed]
  BY DEF SetQuantity
<1> HIDE DEF s, changed
<1>2. /\ s.quantity = changed
      /\ s.state = t.state /\ s.linked = t.linked /\ s.visible = t.visible
      /\ s = [quantity |-> s.quantity, linked |-> s.linked, visible |-> s.visible, state |-> s.state]
  BY <1>1 DEF TablesOK
<1> QED BY <1>2 DEF s, changed

LEMMA SetWithin ==
  ASSUME NEW t, TablesOK(t), NEW l \in Listings, NEW q \in 0..MaxQuantity,
         allocatedQuantity(t, l) <= q,
         \A k \in Listings : k # l => allocatedQuantity(t, k) <= t.quantity[k]
  PROVE  TablesOK(SetQuantity(t, l, q)) /\ Within(SetQuantity(t, l, q))
<1> DEFINE s == SetQuantity(t, l, q)
<1>1. /\ s.quantity = [t.quantity EXCEPT ![l] = q]
      /\ s.state = t.state /\ s.linked = t.linked /\ s.visible = t.visible
      /\ s = [quantity |-> s.quantity, linked |-> s.linked, visible |-> s.visible, state |-> s.state]
  BY SetFields
<1> HIDE DEF s
<1>2. s.quantity \in Quantities
  BY <1>1 DEF TablesOK, Quantities
<1>3. TablesOK(s)
  BY <1>1, <1>2 DEF TablesOK
<1>4. \A k \in Listings : allocatedQuantity(s, k) = allocatedQuantity(t, k)
  BY <1>1, Zenon DEF allocatedQuantity, Attached, HeldBy, UnitsHeld
<1>5. \A k \in Listings : s.quantity[k] = IF k = l THEN q ELSE t.quantity[k]
  BY <1>1 DEF TablesOK, Quantities
<1> QED BY <1>3, <1>4, <1>5 DEF Within, s

LEMMA DeleteFields ==
  ASSUME NEW t, TablesOK(t), NEW gone
  PROVE  LET s == DeleteRows(t, gone)
         IN /\ s.quantity = [l \in Listings |-> IF l \in gone THEN 0 ELSE t.quantity[l]]
            /\ s.linked = Unlink(t, gone)
            /\ s.state = t.state /\ s.visible = t.visible
            /\ s = [quantity |-> s.quantity, linked |-> s.linked, visible |-> s.visible, state |-> s.state]
<1> DEFINE s == DeleteRows(t, gone)
           kept == [l \in Listings |-> IF l \in gone THEN 0 ELSE t.quantity[l]]
           links == Unlink(t, gone)
<1>1. s = [t EXCEPT !.quantity = kept, !.linked = links]
  BY Zenon DEF DeleteRows
<1> HIDE DEF s, kept, links
<1>2. /\ s.quantity = kept /\ s.linked = links
      /\ s.state = t.state /\ s.visible = t.visible
      /\ s = [quantity |-> s.quantity, linked |-> s.linked, visible |-> s.visible, state |-> s.state]
  BY <1>1 DEF TablesOK
<1> QED BY <1>2 DEF s, kept, links

LEMMA DeleteWithin ==
  ASSUME NEW t, TablesOK(t), NEW gone \in SUBSET Listings,
         \A k \in Listings \ gone : allocatedQuantity(t, k) <= t.quantity[k]
  PROVE  TablesOK(DeleteRows(t, gone)) /\ Within(DeleteRows(t, gone))
<1> DEFINE s == DeleteRows(t, gone)
<1>1. /\ s.quantity = [l \in Listings |-> IF l \in gone THEN 0 ELSE t.quantity[l]]
      /\ s.linked = Unlink(t, gone)
      /\ s.state = t.state /\ s.visible = t.visible
      /\ s = [quantity |-> s.quantity, linked |-> s.linked, visible |-> s.visible, state |-> s.state]
  BY DeleteFields
<1> HIDE DEF s
<1>2. s.quantity \in Quantities /\ s.linked \in [OrderIds -> [Listings -> BOOLEAN]]
  BY <1>1, CartAssumption DEF TablesOK, Quantities, Unlink
<1>3. TablesOK(s)
  BY <1>1, <1>2 DEF TablesOK
<1>4. Attached(s) = Attached(t) /\ Attached(t) \in SUBSET OrderIds
  BY <1>1 DEF Attached
<1>5. ASSUME NEW k \in gone PROVE allocatedQuantity(s, k) = 0 /\ s.quantity[k] = 0
  <2>1. UnitsHeld(s, Attached(s), k) = {}
    BY <1>1, <1>4 DEF UnitsHeld, Unlink
  <2> QED BY <1>1, <2>1, HeldNothing DEF allocatedQuantity
<1>6. ASSUME NEW k \in Listings \ gone
      PROVE  allocatedQuantity(s, k) = allocatedQuantity(t, k) /\ s.quantity[k] = t.quantity[k]
  <2>1. \A o \in OrderIds : s.linked[o][k] <=> t.linked[o][k]
    BY <1>1 DEF Unlink
  <2>2. UnitsHeld(s, Attached(s), k) = UnitsHeld(t, Attached(t), k)
    BY <1>1, <1>4, <2>1 DEF UnitsHeld
  <2> QED BY <1>1, <2>2 DEF allocatedQuantity, HeldBy
<1>7. Within(s)
  BY <1>5, <1>6 DEF Within
<1> QED BY <1>3, <1>7 DEF s

\* Clearing the allocations touches no task.
LEMMA ClearedOK ==
  ASSUME NEW t, TablesOK(t)
  PROVE  /\ TablesOK(Cleared(t))
         /\ Cleared(t).state = t.state /\ Cleared(t).quantity = t.quantity
<1> DEFINE s == Cleared(t)
           kept == [o \in OrderIds |-> [l \in Listings |->
                      IF o \in Attached(t) /\ t.linked[o][l] THEN 0 ELSE t.visible[o][l]]]
<1>1. kept \in [OrderIds -> Quantities]
  BY CartAssumption DEF TablesOK, Quantities
<1>2. s = [t EXCEPT !.visible = kept]
  BY Zenon DEF Cleared
<1> HIDE DEF kept, s
<1>3. /\ s.quantity = t.quantity /\ s.state = t.state /\ s.linked = t.linked /\ s.visible = kept
      /\ s = [quantity |-> s.quantity, linked |-> s.linked, visible |-> s.visible, state |-> s.state]
  BY <1>2 DEF TablesOK
<1> QED BY <1>1, <1>3 DEF TablesOK, s

\* What createOrder does to the settled tables when lines of the cart are ordered.
Claimed(t, o, basket, saved) ==
  [t EXCEPT !.state[o] = "ACTIVE",
            !.linked[o] = [l \in Listings |-> l \in saved],
            !.visible[o] = [l \in Listings |-> IF l \in saved THEN basket[l] ELSE 0]]

LEMMA ClaimFields ==
  ASSUME NEW t, TablesOK(t), NEW o, NEW basket, NEW saved
  PROVE  LET s == Claimed(t, o, basket, saved)
         IN /\ s.quantity = t.quantity
            /\ s.state = [t.state EXCEPT ![o] = "ACTIVE"]
            /\ s.linked = [t.linked EXCEPT ![o] = [l \in Listings |-> l \in saved]]
            /\ s.visible = [t.visible EXCEPT ![o] = [l \in Listings |-> IF l \in saved THEN basket[l] ELSE 0]]
            /\ s = [quantity |-> s.quantity, linked |-> s.linked, visible |-> s.visible, state |-> s.state]
<1> DEFINE s == Claimed(t, o, basket, saved)
           tasks == [t.state EXCEPT ![o] = "ACTIVE"]
           links == [t.linked EXCEPT ![o] = [l \in Listings |-> l \in saved]]
           shown == [t.visible EXCEPT ![o] = [l \in Listings |-> IF l \in saved THEN basket[l] ELSE 0]]
<1>1. s = [t EXCEPT !.state = tasks, !.linked = links, !.visible = shown]
  BY DEF Claimed
<1> HIDE DEF s, tasks, links, shown
<1>2. /\ s.quantity = t.quantity /\ s.state = tasks /\ s.linked = links /\ s.visible = shown
      /\ s = [quantity |-> s.quantity, linked |-> s.linked, visible |-> s.visible, state |-> s.state]
  BY <1>1 DEF TablesOK
<1> QED BY <1>2, Zenon DEF s, tasks, links, shown

\* An order claims only what nobody else has.
LEMMA ClaimWithin ==
  ASSUME NEW t, TablesOK(t), Within(t), NEW o \in OrderIds, t.state[o] = "NONE",
         NEW basket \in Quantities, NEW saved \in SUBSET Listings,
         \A l \in saved : basket[l] <= Unallocated(t, l)
  PROVE  TablesOK(Claimed(t, o, basket, saved)) /\ Within(Claimed(t, o, basket, saved))
<1> DEFINE s == Claimed(t, o, basket, saved)
<1>1. /\ s.quantity = t.quantity
      /\ s.state = [t.state EXCEPT ![o] = "ACTIVE"]
      /\ s.linked = [t.linked EXCEPT ![o] = [l \in Listings |-> l \in saved]]
      /\ s.visible = [t.visible EXCEPT ![o] = [l \in Listings |-> IF l \in saved THEN basket[l] ELSE 0]]
      /\ s = [quantity |-> s.quantity, linked |-> s.linked, visible |-> s.visible, state |-> s.state]
  BY ClaimFields
<1> HIDE DEF s
<1>2. TablesOK(s)
  <2>1. s.state \in [OrderIds -> States] /\ s.linked \in [OrderIds -> [Listings -> BOOLEAN]]
    BY <1>1 DEF TablesOK, States, AttachedStates
  <2>2. [l \in Listings |-> IF l \in saved THEN basket[l] ELSE 0] \in Quantities
    BY CartAssumption DEF Quantities
  <2>3. s.visible \in [OrderIds -> Quantities]
    BY <1>1, <2>2 DEF TablesOK
  <2> QED BY <1>1, <2>1, <2>3 DEF TablesOK
<1>3. /\ Attached(s) = Attached(t) \union {o} /\ Attached(t) \intersect {o} = {}
      /\ Attached(t) \in SUBSET OrderIds /\ {o} \in SUBSET OrderIds
  BY <1>1 DEF Attached, TablesOK, AttachedStates, PendingStates
<1>4. ASSUME NEW l \in Listings PROVE allocatedQuantity(s, l) <= s.quantity[l]
  <2>1. HeldBy(s, Attached(t) \union {o}, l) = HeldBy(s, Attached(t), l) + HeldBy(s, {o}, l)
    BY <1>3, HeldBoth
  <2>2. HeldBy(s, Attached(t), l) = HeldBy(t, Attached(t), l)
    <3>1. \A p \in Attached(t) : s.linked[p] = t.linked[p] /\ s.visible[p] = t.visible[p]
      BY <1>1, <1>3 DEF TablesOK
    <3>2. UnitsHeld(s, Attached(t), l) = UnitsHeld(t, Attached(t), l)
      BY <3>1 DEF UnitsHeld
    <3> QED BY <3>2, Zenon DEF HeldBy
  <2>3. s.linked[o][l] <=> l \in saved
    <3>1. t.linked \in [OrderIds -> [Listings -> BOOLEAN]]
      BY DEF TablesOK
    <3>2. s.linked[o] = [k \in Listings |-> k \in saved]
      BY <1>1, <3>1, Zenon
    <3> QED BY <3>2, Zenon
  <2>4. HeldBy(t, Attached(t), l) <= t.quantity[l] /\ HeldBy(t, Attached(t), l) \in Nat
    BY <1>3, HeldFinite DEF Within, allocatedQuantity
  <2>5. t.quantity[l] \in Nat
    BY CartAssumption DEF TablesOK, Quantities
  <2>6. CASE l \in saved
    <3>1. s.visible[o][l] = basket[l] /\ basket[l] \in 0..MaxQuantity
      BY <1>1, <2>6 DEF TablesOK, Quantities
    <3>2. HeldBy(s, {o}, l) = basket[l]
      BY <2>3, <2>6, <3>1, HeldByOne
    <3>3. basket[l] <= t.quantity[l] - HeldBy(t, Attached(t), l)
      BY <2>6 DEF Unallocated, allocatedQuantity
    <3> QED BY <1>1, <1>3, <2>1, <2>2, <2>4, <2>5, <3>1, <3>2, <3>3, CartAssumption DEF allocatedQuantity
  <2>7. CASE l \notin saved
    <3>1. UnitsHeld(s, {o}, l) = {}
      BY <2>3, <2>7 DEF UnitsHeld
    <3>2. HeldBy(s, {o}, l) = 0
      BY <3>1, HeldNothing
    <3> QED BY <1>1, <1>3, <2>1, <2>2, <2>4, <2>5, <3>2 DEF allocatedQuantity
  <2> QED BY <2>6, <2>7
<1> QED BY <1>2, <1>4 DEF Within, s

-----------------------------------------------------------------------------
(* The invariant.                                                          *)

CartIInv == CartTypeOK /\ TaskIInv /\ AllocatedWithinCart

NextTables == [quantity |-> quantity', state |-> state', linked |-> linked', visible |-> visible']

LEMMA TablesNow ==
  /\ CartTypeOK => TablesOK(Tables)
  /\ AllocatedWithinCart <=> Within(Tables)
BY DEF CartTypeOK, TablesOK, Tables, AllocatedWithinCart, Within

LEMMA TablesNext ==
  ASSUME TablesOK(NextTables), Within(NextTables),
         status' \in [OrderIds -> {"NONE", "PENDING", "CONFIRMED", "CANCELLED", "EXPIRED"}]
  PROVE  CartTypeOK' /\ AllocatedWithinCart'
<1>1. CartTypeOK'
  BY DEF CartTypeOK, TablesOK, NextTables
<1>2. AllocatedWithinCart'
  BY DEF AllocatedWithinCart, Within, allocatedQuantity, HeldBy, UnitsHeld, Attached, Tables, NextTables
<1> QED BY <1>1, <1>2

LEMMA CommitKeeps ==
  ASSUME NEW t, TablesOK(t), Within(t), Commit(t)
  PROVE  TablesOK(NextTables) /\ Within(NextTables)
<1>1. NextTables = t
  BY DEF NextTables, Commit, TablesOK
<1> QED BY <1>1

LEMMA QuantitiesInit == CartInit => CartTypeOK /\ AllocatedWithinCart
<1> SUFFICES ASSUME CartInit PROVE CartTypeOK /\ AllocatedWithinCart
  OBVIOUS
<1>1. NoLine \in Quantities
  BY CartAssumption DEF NoLine, Quantities
<1>2. CartTypeOK
  BY <1>1 DEF CartInit, CartTypeOK, States
<1>3. ASSUME NEW l \in Listings PROVE allocatedQuantity(Tables, l) <= quantity[l]
  <2>1. UnitsHeld(Tables, Attached(Tables), l) = {}
    BY DEF UnitsHeld, Attached, Tables, CartInit, AttachedStates, PendingStates
  <2>2. allocatedQuantity(Tables, l) = 0 /\ quantity[l] = 0
    BY <2>1, HeldNothing DEF allocatedQuantity, CartInit, NoLine
  <2> QED BY <2>2
<1> QED BY <1>2, <1>3 DEF AllocatedWithinCart

\* A customer's edit, on settled tables.
LEMMA CustomerKeeps ==
  ASSUME TablesOK(Tables), Within(Tables), CustomerNext
  PROVE  TablesOK(NextTables) /\ Within(NextTables)
<1> DEFINE t == settleCartReconciliation(Tables)
<1>1. TablesOK(t) /\ Within(t)
  BY SettleWithin
<1>2. \A l \in Listings : /\ t.quantity[l] \in 0..MaxQuantity
                          /\ allocatedQuantity(t, l) \in Nat
                          /\ allocatedQuantity(t, l) <= t.quantity[l]
  <2> HIDE DEF t
  <2>1. Attached(t) \in SUBSET OrderIds
    BY DEF Attached
  <2> QED BY <1>1, <2>1, HeldFinite DEF TablesOK, Quantities, Within, allocatedQuantity
<1>3. ASSUME NEW l \in Listings, NEW n \in 1..MaxQuantity, addCartItem(l, n)
      PROVE  TablesOK(NextTables) /\ Within(NextTables)
  <2>1. t.quantity[l] + n <= MaxQuantity /\ Commit(SetQuantity(t, l, t.quantity[l] + n))
    BY <1>3, Zenon DEF addCartItem
  <2> HIDE DEF t
  <2> DEFINE q == t.quantity[l] + n
  <2>2. q \in 0..MaxQuantity /\ allocatedQuantity(t, l) <= q
    BY <1>2, <2>1, CartAssumption
  <2>3. \A k \in Listings : k # l => allocatedQuantity(t, k) <= t.quantity[k]
    BY <1>2
  <2>4. Commit(SetQuantity(t, l, q))
    BY <2>1
  <2> HIDE DEF q
  <2>5. TablesOK(SetQuantity(t, l, q)) /\ Within(SetQuantity(t, l, q))
    BY <1>1, <2>2, <2>3, SetWithin
  <2> QED BY <2>4, <2>5, CommitKeeps
<1>4. ASSUME NEW l \in Listings, NEW q \in 1..MaxQuantity, updateCartItem(l, q)
      PROVE  TablesOK(NextTables) /\ Within(NextTables)
  <2> DEFINE r == reduceAllocations(t, l, q)
  <2>1. IF t.quantity[l] > 0 THEN Commit(SetQuantity(r, l, q)) ELSE Commit(SetQuantity(t, l, q))
    BY <1>4, Zenon DEF updateCartItem
  <2>2. q \in 0..MaxQuantity
    BY CartAssumption
  <2> HIDE DEF t
  <2>3. CASE t.quantity[l] > 0
    <3>1. TablesOK(r) /\ r.quantity = t.quantity
      BY <1>1, <2>2, CartAssumption, ReduceFields
    <3>2. /\ allocatedQuantity(r, l) <= q
          /\ \A k \in Listings : k # l => allocatedQuantity(r, k) = allocatedQuantity(t, k)
      BY <1>1, <2>2, CartAssumption, ReduceReaches
    <3>3. Commit(SetQuantity(r, l, q))
      BY <2>1, <2>3
    <3> HIDE DEF r
    <3>4. TablesOK(SetQuantity(r, l, q)) /\ Within(SetQuantity(r, l, q))
      BY <1>2, <2>2, <3>1, <3>2, SetWithin
    <3> QED BY <3>3, <3>4, CommitKeeps
  <2>4. CASE ~(t.quantity[l] > 0)
    <3>1. Commit(SetQuantity(t, l, q))
      BY <2>1, <2>4
    <3>2. allocatedQuantity(t, l) <= q
      BY <1>2, <2>2, <2>4, CartAssumption
    <3>3. TablesOK(SetQuantity(t, l, q)) /\ Within(SetQuantity(t, l, q))
      BY <1>1, <1>2, <2>2, <3>2, SetWithin
    <3> QED BY <3>1, <3>3, CommitKeeps
  <2> QED BY <2>3, <2>4
<1>5. ASSUME NEW l \in Listings, removeCartItem(l)
      PROVE  TablesOK(NextTables) /\ Within(NextTables)
  <2> DEFINE r == reduceAllocations(t, l, 0)
  <2>1. Commit(DeleteRows(r, {l}))
    BY <1>5, Zenon DEF removeCartItem
  <2> HIDE DEF t
  <2>2. TablesOK(r) /\ r.quantity = t.quantity
    BY <1>1, CartAssumption, ReduceFields
  <2>3. \A k \in Listings : k # l => allocatedQuantity(r, k) = allocatedQuantity(t, k)
    BY <1>1, CartAssumption, ReduceReaches
  <2> HIDE DEF r
  <2>4. \A k \in Listings \ {l} : allocatedQuantity(r, k) <= r.quantity[k]
    BY <1>2, <2>2, <2>3
  <2>5. TablesOK(DeleteRows(r, {l})) /\ Within(DeleteRows(r, {l}))
    BY <2>2, <2>4, DeleteWithin
  <2> QED BY <2>1, <2>5, CommitKeeps
<1>6. ASSUME clearCart PROVE TablesOK(NextTables) /\ Within(NextTables)
  <2> DEFINE c == Cleared(t)
  <2>1. Commit(DeleteRows(c, Listings))
    BY <1>6, Zenon DEF clearCart
  <2> HIDE DEF t
  <2>2. TablesOK(c)
    BY <1>1, ClearedOK
  <2> HIDE DEF c
  <2>3. TablesOK(DeleteRows(c, Listings)) /\ Within(DeleteRows(c, Listings))
    BY <2>2, DeleteWithin
  <2> QED BY <2>1, <2>3, CommitKeeps
<1> QED BY <1>3, <1>4, <1>5, <1>6 DEF CustomerNext

\* A new order: its task is still free, because settling gives none to it.
LEMMA CreateKeeps ==
  ASSUME TablesOK(Tables), Within(Tables), TaskIInv,
         NEW o \in OrderIds, NEW basket \in Quantities, createOrder(o, basket)
  PROVE  TablesOK(NextTables) /\ Within(NextTables)
<1> DEFINE t == settleCartReconciliation(Tables)
           saved == {l \in Listings : basket[l] > 0 /\ t.quantity[l] > 0}
<1>1. TablesOK(t) /\ Within(t)
  BY SettleWithin
<1>2. /\ \A l \in saved : basket[l] <= Unallocated(t, l)
      /\ Commit(IF saved = {} THEN t ELSE Claimed(t, o, basket, saved))
  BY Zenon DEF createOrder, Claimed
<1>3. t.state[o] = "NONE"
  <2>1. status[o] = "NONE" /\ state[o] = "NONE"
    BY DEF createOrder, TaskIInv, TaskNeedsOrder
  <2> QED BY <2>1, SettleState DEF SettledState
<1>4. saved \in SUBSET Listings
  OBVIOUS
<1> HIDE DEF t, saved
<1>5. CASE saved = {}
  BY <1>1, <1>2, <1>5, CommitKeeps
<1>6. CASE saved # {}
  <2>1. TablesOK(Claimed(t, o, basket, saved)) /\ Within(Claimed(t, o, basket, saved))
    BY <1>1, <1>2, <1>3, <1>4, ClaimWithin
  <2> QED BY <1>2, <1>6, <2>1, CommitKeeps
<1> QED BY <1>5, <1>6

\* Queueing moves a task between states that count as attached.
LEMMA QueueKeeps ==
  ASSUME TablesOK(Tables), Within(Tables), NEW o \in OrderIds, NEW consume \in BOOLEAN,
         queueCartReconciliation(o, consume)
  PROVE  TablesOK(NextTables) /\ Within(NextTables)
<1>1. state \in [OrderIds -> States]
  BY DEF TablesOK, Tables
<1>2. /\ state' \in [OrderIds -> States]
      /\ \A p \in OrderIds : state'[p] \in AttachedStates <=> state[p] \in AttachedStates
  BY <1>1 DEF queueCartReconciliation, States, AttachedStates, PendingStates
<1>3. quantity' = quantity /\ linked' = linked /\ visible' = visible
  BY DEF queueCartReconciliation
<1>4. TablesOK(NextTables)
  BY <1>2, <1>3 DEF TablesOK, Tables, NextTables
<1>5. Attached(NextTables) = Attached(Tables)
  BY <1>2 DEF Attached, Tables, NextTables
<1>6. /\ NextTables.quantity = Tables.quantity /\ NextTables.linked = Tables.linked
      /\ NextTables.visible = Tables.visible
  BY <1>3 DEF Tables, NextTables
<1>7. \A l \in Listings : allocatedQuantity(NextTables, l) = allocatedQuantity(Tables, l)
  BY <1>5, <1>6, Zenon DEF allocatedQuantity, HeldBy, UnitsHeld
<1> QED BY <1>4, <1>6, <1>7 DEF Within

LEMMA CartNextKeeps == CartIInv /\ [CartNext]_cartVars => CartIInv'
<1> SUFFICES ASSUME CartIInv, [CartNext]_cartVars PROVE CartIInv'
  OBVIOUS
<1>1. TablesOK(Tables) /\ Within(Tables) /\ TaskIInv
  BY TablesNow DEF CartIInv
<1>2. TaskIInv'
  BY <1>1, TaskNext
<1>3. CASE UNCHANGED cartVars
  BY <1>3, <1>2 DEF cartVars, CartIInv, CartTypeOK, AllocatedWithinCart, Tables,
     allocatedQuantity, HeldBy, UnitsHeld, Attached
<1>4. CASE CartNext
  <2>1. ASSUME NEW o \in OrderIds, Confirm(o) \/ Cancel(o) \/ Expire(o)
        PROVE  TablesOK(NextTables) /\ Within(NextTables)
    <3>1. \/ \E consume \in BOOLEAN : queueCartReconciliation(o, consume)
          \/ UNCHANGED <<quantity, state, linked, visible>>
      BY <2>1, Zenon DEF Confirm, Cancel, Expire
    <3>2. CASE UNCHANGED <<quantity, state, linked, visible>>
      <4>1. NextTables = Tables
        BY <3>2 DEF NextTables, Tables
      <4> QED BY <1>1, <4>1
    <3> QED BY <1>1, <3>1, <3>2, QueueKeeps
  <2>2. ASSUME reconcilePendingCarts PROVE TablesOK(NextTables) /\ Within(NextTables)
    <3> DEFINE t == settleCartReconciliation(Tables)
    <3>1. TablesOK(t) /\ Within(t)
      BY <1>1, SettleWithin
    <3>2. Commit(t)
      BY <2>2, Zenon DEF reconcilePendingCarts
    <3> HIDE DEF t
    <3> QED BY <3>1, <3>2, CommitKeeps
  <2>3. TablesOK(NextTables) /\ Within(NextTables)
    BY <1>1, <1>4, <2>1, <2>2, CustomerKeeps, CreateKeeps DEF CartNext
  <2>4. status' \in [OrderIds -> {"NONE", "PENDING", "CONFIRMED", "CANCELLED", "EXPIRED"}]
    BY <1>2 DEF TaskIInv, TaskTypes
  <2> QED BY <1>2, <2>3, <2>4, TablesNext DEF CartIInv
<1> QED BY <1>3, <1>4

\* The rows keep their types: in particular no step writes a negative quantity, or
\* one above the bound.
THEOREM CartTypeCorrect == CartSpec => []CartTypeOK
<1>1. CartInit => CartIInv
  BY TaskInit, QuantitiesInit DEF CartIInv
<1>2. CartIInv => CartTypeOK
  BY DEF CartIInv
<1> QED BY <1>1, <1>2, CartNextKeeps, PTL DEF CartSpec

\* Whatever is added, changed or removed while orders overlap and settlement is
\* late, no order stands for quantity the cart does not have: a settlement never
\* finds a line too small and unallocatedQuantity is never negative, for any
\* number of orders, lines and units.
THEOREM AllocationsWithinCart == CartSpec => []AllocatedWithinCart
<1>1. CartInit => CartIInv
  BY TaskInit, QuantitiesInit DEF CartIInv
<1>2. CartIInv => AllocatedWithinCart
  BY DEF CartIInv
<1> QED BY <1>1, <1>2, CartNextKeeps, PTL DEF CartSpec

\* Settlement never throws, so neither an edit nor a new order is ever refused for
\* it, and the worker never rolls back.
THEOREM SettlementSucceeds == CartSpec => []Settleable(Tables)
<1>1. CartInit => CartIInv
  BY TaskInit, QuantitiesInit DEF CartIInv
<1>2. CartIInv => Settleable(Tables)
  BY TablesNow, SettleWithin DEF CartIInv
<1> QED BY <1>1, <1>2, CartNextKeeps, PTL DEF CartSpec

-----------------------------------------------------------------------------
(* The cart as CartIntent sees it.  What is free and what each order       *)
(* claims are functions of the tables; each step of a cart transaction is  *)
(* shown to be a step of the intent, and settlement to be no step at all.  *)

NotFreeIn(t) == {o \in OrderIds : t.state[o] \in {"ACTIVE", "CONSUME_PENDING"}}
Free(t) == [l \in Listings |-> t.quantity[l] - HeldBy(t, NotFreeIn(t), l)]
Claims(t) == [o \in OrderIds |-> [l \in Listings |->
                IF t.state[o] = "ACTIVE" /\ t.linked[o][l] THEN t.visible[o][l] ELSE 0]]
Active(t) == {o \in OrderIds : t.state[o] = "ACTIVE"}
Settled(t) == \A o \in OrderIds : t.state[o] \notin PendingStates

Unseen(t, s) == Free(s) = Free(t) /\ Claims(s) = Claims(t)

EditStep(t, s) ==
  /\ Free(s) \in [Listings -> Nat]
  /\ \A o \in OrderIds, l \in Listings :
       /\ Claims(s)[o][l] \in 0..Claims(t)[o][l]
       /\ Claims(s)[o][l] < Claims(t)[o][l] => Free(s)[l] = 0

ClaimStep(o, t, s) ==
  /\ Claims(t)[o] = NoLine
  /\ \A l \in Listings : /\ Claims(s)[o][l] \in 0..Free(t)[l]
                         /\ Free(s)[l] = Free(t)[l] - Claims(s)[o][l]
  /\ Claims(s) = [Claims(t) EXCEPT ![o] = Claims(s)[o]]

PurchaseStep(o, t, s) == Claims(s) = [Claims(t) EXCEPT ![o] = NoLine] /\ Free(s) = Free(t)

AbandonStep(o, t, s) ==
  /\ Free(s) = [l \in Listings |-> Free(t)[l] + Claims(t)[o][l]]
  /\ Claims(s) = [Claims(t) EXCEPT ![o] = NoLine]

IntentStep(t, s) ==
  \/ Unseen(t, s) \/ EditStep(t, s)
  \/ \E o \in OrderIds : ClaimStep(o, t, s) \/ PurchaseStep(o, t, s) \/ AbandonStep(o, t, s)

LEMMA FreeAt ==
  ASSUME NEW t, NEW l \in Listings
  PROVE  Free(t)[l] = t.quantity[l] - HeldBy(t, NotFreeIn(t), l)
BY DEF Free

LEMMA ClaimAt ==
  ASSUME NEW t, NEW o \in OrderIds, NEW l \in Listings
  PROVE  Claims(t)[o][l] = IF t.state[o] = "ACTIVE" /\ t.linked[o][l] THEN t.visible[o][l] ELSE 0
BY DEF Claims

LEMMA ClaimsType ==
  ASSUME NEW t, TablesOK(t)
  PROVE  Claims(t) \in [OrderIds -> [Listings -> 0..MaxQuantity]]
BY CartAssumption DEF Claims, TablesOK, Quantities

\* An order that is not paid is attached, so what is claimed is in the cart.
LEMMA FreeType ==
  ASSUME NEW t, TablesOK(t), Within(t)
  PROVE  Free(t) \in [Listings -> Nat]
<1> SUFFICES ASSUME NEW l \in Listings PROVE t.quantity[l] - HeldBy(t, NotFreeIn(t), l) \in Nat
  BY DEF Free
<1>1. NotFreeIn(t) \subseteq Attached(t) /\ NotFreeIn(t) \in SUBSET OrderIds /\ Attached(t) \in SUBSET OrderIds
  BY DEF NotFreeIn, Attached, AttachedStates, PendingStates
<1>2. UnitsHeld(t, NotFreeIn(t), l) \subseteq UnitsHeld(t, Attached(t), l)
  BY <1>1 DEF UnitsHeld
<1>3. HeldBy(t, NotFreeIn(t), l) <= HeldBy(t, Attached(t), l)
  BY <1>1, <1>2, HeldLess
<1>4. HeldBy(t, NotFreeIn(t), l) \in Nat /\ HeldBy(t, Attached(t), l) \in Nat
  BY <1>1, HeldFinite
<1>5. HeldBy(t, Attached(t), l) <= t.quantity[l] /\ t.quantity[l] \in Nat
  BY CartAssumption DEF Within, allocatedQuantity, TablesOK, Quantities
<1> QED BY <1>3, <1>4, <1>5

\* Once everything is settled, what is free is what is not allocated.
LEMMA FreeWhenSettled ==
  ASSUME NEW t, TablesOK(t), Settled(t), NEW l \in Listings
  PROVE  NotFreeIn(t) = Attached(t) /\ Free(t)[l] = t.quantity[l] - allocatedQuantity(t, l)
<1>1. NotFreeIn(t) = Attached(t)
  BY DEF NotFreeIn, Attached, AttachedStates, PendingStates, Settled
<1> QED BY <1>1, FreeAt DEF allocatedQuantity

\* Settlement is invisible, and leaves nothing queued.
LEMMA SettleUnseen ==
  ASSUME NEW t, TablesOK(t), Within(t)
  PROVE  Unseen(t, settleCartReconciliation(t)) /\ Settled(settleCartReconciliation(t))
<1> DEFINE s == settleCartReconciliation(t)
           gone == {l \in Listings : Taken(t, l) > 0 /\ Taken(t, l) = t.quantity[l]}
           A == Active(t)
<1>1. /\ NotFreeIn(t) = Bought(t) \union A /\ Bought(t) \intersect A = {}
      /\ Bought(t) \in SUBSET OrderIds /\ A \in SUBSET OrderIds
      /\ (Bought(t) \union A) \subseteq Attached(t) /\ Attached(t) \in SUBSET OrderIds
  BY DEF NotFreeIn, Bought, Active, Attached, AttachedStates, PendingStates
<1>2. Settled(s) /\ NotFreeIn(s) = A
  BY DEF settleCartReconciliation, Settled, NotFreeIn, Active, PendingStates
<1>3. \A o \in OrderIds : s.state[o] = "ACTIVE" <=> o \in A
  BY DEF settleCartReconciliation, Active
<1>4. \A o \in A : s.visible[o] = t.visible[o]
  BY DEF settleCartReconciliation, Queued, Active, PendingStates
<1>5. \A o \in OrderIds, l \in Listings : s.linked[o][l] <=> t.linked[o][l] /\ l \notin gone
  BY DEF settleCartReconciliation, Unlink
<1>6. \A l \in Listings : s.quantity[l] = t.quantity[l] - Taken(t, l)
  BY DEF settleCartReconciliation
<1> HIDE DEF s
<1>7. ASSUME NEW l \in Listings
      PROVE  /\ HeldBy(t, NotFreeIn(t), l) = Taken(t, l) + HeldBy(t, A, l)
             /\ Taken(t, l) \in Nat /\ HeldBy(t, A, l) \in Nat
             /\ t.quantity[l] \in Nat /\ Taken(t, l) + HeldBy(t, A, l) <= t.quantity[l]
  <2>1. HeldBy(t, Bought(t) \union A, l) = HeldBy(t, Bought(t), l) + HeldBy(t, A, l)
    BY <1>1, HeldBoth
  <2>2. HeldBy(t, Bought(t), l) \in Nat /\ HeldBy(t, A, l) \in Nat
    BY <1>1, HeldFinite
  <2>3. Free(t)[l] \in Nat /\ t.quantity[l] \in Nat
    BY FreeType, CartAssumption DEF TablesOK, Quantities
  <2>4. Free(t)[l] = t.quantity[l] - HeldBy(t, NotFreeIn(t), l)
    BY FreeAt
  <2> QED BY <1>1, <2>1, <2>2, <2>3, <2>4 DEF Taken
<1>8. ASSUME NEW l \in gone
      PROVE  HeldBy(t, A, l) = 0 /\ \A o \in A : t.linked[o][l] => t.visible[o][l] = 0
  <2>1. l \in Listings /\ HeldBy(t, A, l) = 0
    BY <1>7
  <2>2. ASSUME NEW o \in A, t.linked[o][l] PROVE t.visible[o][l] = 0
    <3> DEFINE n == t.visible[o][l]
    <3>1. n \in 0..MaxQuantity /\ o \in OrderIds
      BY <1>1, <2>1 DEF TablesOK, Quantities
    <3> HIDE DEF n
    <3>2. HeldBy(t, {o}, l) = n
      BY <2>2, <3>1, HeldByOne DEF n
    <3>3. UnitsHeld(t, {o}, l) \subseteq UnitsHeld(t, A, l)
      <4> HIDE DEF A
      <4> QED BY DEF UnitsHeld
    <3>4. HeldBy(t, {o}, l) <= HeldBy(t, A, l)
      <4> HIDE DEF A
      <4> QED BY <1>1, <3>3, HeldLess
    <3>5. n = 0
      BY <2>1, <3>1, <3>2, <3>4, CartAssumption
    <3> QED BY <3>5 DEF n
  <2> QED BY <2>1, <2>2
<1>9. ASSUME NEW l \in Listings PROVE HeldBy(s, A, l) = HeldBy(t, A, l)
  <2>1. CASE l \in gone
    <3>1. UnitsHeld(s, A, l) = {}
      BY <1>1, <1>5, <2>1 DEF UnitsHeld
    <3> QED BY <1>8, <2>1, <3>1, HeldNothing
  <2>2. CASE l \notin gone
    <3>1. UnitsHeld(s, A, l) = UnitsHeld(t, A, l)
      <4>1. \A o \in A : (s.linked[o][l] <=> t.linked[o][l]) /\ s.visible[o][l] = t.visible[o][l]
        BY <1>1, <1>4, <1>5, <2>2
      <4> HIDE DEF A, gone
      <4> QED BY <4>1 DEF UnitsHeld
    <3> QED BY <3>1, Zenon DEF HeldBy
  <2> QED BY <2>1, <2>2
<1>10. Free(s) = Free(t)
  <2>1. ASSUME NEW l \in Listings
        PROVE  s.quantity[l] - HeldBy(s, NotFreeIn(s), l) = t.quantity[l] - HeldBy(t, NotFreeIn(t), l)
    <3> HIDE DEF A
    <3> QED BY <1>2, <1>6, <1>7, <1>9
  <2> QED BY <2>1, Zenon DEF Free
<1>11. Claims(s) = Claims(t)
  <2>1. ASSUME NEW o \in OrderIds, NEW l \in Listings
        PROVE  (IF s.state[o] = "ACTIVE" /\ s.linked[o][l] THEN s.visible[o][l] ELSE 0)
                 = (IF t.state[o] = "ACTIVE" /\ t.linked[o][l] THEN t.visible[o][l] ELSE 0)
    <3>1. t.state[o] = "ACTIVE" <=> o \in A
      BY DEF Active
    <3> HIDE DEF A, gone
    <3> QED BY <1>3, <1>4, <1>5, <1>8, <3>1
  <2> QED BY <2>1, Zenon DEF Claims
<1> QED BY <1>2, <1>10, <1>11 DEF Unseen, s

\* A changed total: claims stay, only what is free changes.
LEMMA SetEdits ==
  ASSUME NEW t, TablesOK(t), Within(t), NEW l \in Listings, NEW q \in 0..MaxQuantity,
         allocatedQuantity(t, l) <= q
  PROVE  EditStep(t, SetQuantity(t, l, q))
<1> DEFINE s == SetQuantity(t, l, q)
<1>1. TablesOK(s) /\ Within(s)
  BY SetWithin DEF Within
<1>2. /\ s.quantity = [t.quantity EXCEPT ![l] = q]
      /\ s.state = t.state /\ s.linked = t.linked /\ s.visible = t.visible
  BY SetFields
<1> HIDE DEF s
<1>3. Claims(s) = Claims(t)
  BY <1>2, Zenon DEF Claims
<1>4. Free(s) \in [Listings -> Nat]
  BY <1>1, FreeType
<1>5. \A o \in OrderIds, k \in Listings : Claims(t)[o][k] \in Nat
  BY ClaimsType, CartAssumption
<1> QED BY <1>3, <1>4, <1>5 DEF EditStep, s

\* A reduced total: unclaimed quantity goes first, and an order loses some of its
\* claim only when none is left.
LEMMA ReduceEdits ==
  ASSUME NEW t, TablesOK(t), Within(t), Settled(t), NEW l \in Listings, NEW q \in 0..MaxQuantity
  PROVE  EditStep(t, SetQuantity(reduceAllocations(t, l, q), l, q))
<1> DEFINE r == reduceAllocations(t, l, q)
           s == SetQuantity(r, l, q)
<1>1. /\ TablesOK(r) /\ r.state = t.state /\ r.linked = t.linked /\ r.quantity = t.quantity
      /\ \A o \in OrderIds, k \in Listings :
           r.visible[o][k] = IF o \in Attached(t) /\ t.linked[o][l] /\ k = l
                             THEN t.visible[o][l] - Reduction(t, l, q, o) ELSE t.visible[o][k]
      /\ \A o \in OrderIds : Reduction(t, l, q, o) \in 0..t.visible[o][l]
  BY ReduceFields
<1>2. /\ allocatedQuantity(r, l) <= q
      /\ \A k \in Listings : k # l => allocatedQuantity(r, k) = allocatedQuantity(t, k)
  BY ReduceReaches
<1>3. \A o \in OrderIds : r.visible[o][l] # t.visible[o][l] => allocatedQuantity(r, l) = q
  BY ReduceExact
<1> HIDE DEF r
<1>4. TablesOK(s) /\ Within(s)
  <2>1. \A k \in Listings : k # l => allocatedQuantity(r, k) <= r.quantity[k]
    BY <1>1, <1>2 DEF Within
  <2> QED BY <1>1, <1>2, <2>1, SetWithin
<1>5. /\ s.state = r.state /\ s.linked = r.linked /\ s.visible = r.visible
      /\ s.quantity = [r.quantity EXCEPT ![l] = q]
  BY <1>1, SetFields
<1> HIDE DEF s
<1>6. Free(s) \in [Listings -> Nat] /\ Settled(s)
  BY <1>1, <1>4, <1>5, FreeType DEF Settled
<1>7. allocatedQuantity(r, l) = q => Free(s)[l] = 0
  <2>1. s.quantity[l] = q
    BY <1>1, <1>5 DEF TablesOK, Quantities
  <2>2. allocatedQuantity(s, l) = allocatedQuantity(r, l)
    BY <1>5, Zenon DEF allocatedQuantity, Attached, HeldBy, UnitsHeld
  <2>3. Free(s)[l] = s.quantity[l] - allocatedQuantity(s, l)
    BY <1>4, <1>6, FreeWhenSettled
  <2> QED BY <2>1, <2>2, <2>3, CartAssumption
<1>8. ASSUME NEW o \in OrderIds, NEW k \in Listings
      PROVE  /\ Claims(s)[o][k] \in 0..Claims(t)[o][k]
             /\ Claims(s)[o][k] < Claims(t)[o][k] => Free(s)[k] = 0
  <2> DEFINE a == Claims(t)[o][k]
             b == Claims(s)[o][k]
  <2>1. a = IF t.state[o] = "ACTIVE" /\ t.linked[o][k] THEN t.visible[o][k] ELSE 0
    BY ClaimAt
  <2>2. b = IF t.state[o] = "ACTIVE" /\ t.linked[o][k] THEN r.visible[o][k] ELSE 0
    BY <1>1, <1>5, ClaimAt
  <2>3. a \in Nat /\ b \in Nat /\ t.visible[o][k] \in Nat /\ r.visible[o][k] \in Nat
    <3>1. a \in 0..MaxQuantity /\ b \in 0..MaxQuantity
      BY <1>4, ClaimsType
    <3>2. t.visible[o][k] \in 0..MaxQuantity /\ r.visible[o][k] \in 0..MaxQuantity
      BY <1>1 DEF TablesOK, Quantities
    <3> HIDE DEF a, b
    <3> QED BY <3>1, <3>2, CartAssumption
  <2>4. r.visible[o][k] <= t.visible[o][k] /\ (r.visible[o][k] # t.visible[o][k] => k = l)
    <3>1. CASE o \in Attached(t) /\ t.linked[o][l] /\ k = l
      <4>1. r.visible[o][k] = t.visible[o][k] - Reduction(t, l, q, o) /\ Reduction(t, l, q, o) \in 0..t.visible[o][k]
        BY <1>1, <3>1
      <4> HIDE DEF a, b
      <4> QED BY <2>3, <3>1, <4>1
    <3>2. CASE ~(o \in Attached(t) /\ t.linked[o][l] /\ k = l)
      <4>1. r.visible[o][k] = t.visible[o][k]
        BY <1>1, <3>2, Zenon
      <4> HIDE DEF a, b
      <4> QED BY <2>3, <4>1
    <3> QED BY <3>1, <3>2
  <2> HIDE DEF a, b
  <2>5. b \in 0..a /\ (b < a => k = l /\ r.visible[o][l] # t.visible[o][l])
    BY <2>1, <2>2, <2>3, <2>4
  <2>6. b < a => Free(s)[k] = 0
    BY <1>3, <1>7, <2>5
  <2> QED BY <2>5, <2>6 DEF a, b
<1> QED BY <1>6, <1>8 DEF EditStep, s, r

\* Rows that go leave nothing free and nothing claimed; other lines are as before.
LEMMA DeleteEdits ==
  ASSUME NEW t, TablesOK(t), Within(t), Settled(t), NEW r, TablesOK(r), NEW gone \in SUBSET Listings,
         r.state = t.state, r.quantity = t.quantity,
         \A k \in Listings \ gone : allocatedQuantity(r, k) = allocatedQuantity(t, k),
         \A o \in OrderIds, k \in Listings \ gone :
           r.linked[o][k] = t.linked[o][k] /\ r.visible[o][k] = t.visible[o][k]
  PROVE  EditStep(t, DeleteRows(r, gone))
<1> DEFINE s == DeleteRows(r, gone)
<1>1. /\ s.quantity = [l \in Listings |-> IF l \in gone THEN 0 ELSE r.quantity[l]]
      /\ s.linked = Unlink(r, gone)
      /\ s.state = t.state /\ s.visible = r.visible
  BY DeleteFields
<1>2. TablesOK(s) /\ Within(s)
  <2>1. \A k \in Listings \ gone : allocatedQuantity(r, k) <= r.quantity[k]
    BY DEF Within
  <2> QED BY <2>1, DeleteWithin
<1> HIDE DEF s
<1>3. \A o \in OrderIds, k \in Listings : s.linked[o][k] <=> r.linked[o][k] /\ k \notin gone
  BY <1>1 DEF Unlink
<1>4. Free(s) \in [Listings -> Nat] /\ Settled(s)
  BY <1>1, <1>2, FreeType DEF Settled
<1>5. ASSUME NEW o \in OrderIds, NEW k \in Listings
      PROVE  /\ Claims(s)[o][k] \in 0..Claims(t)[o][k]
             /\ Claims(s)[o][k] < Claims(t)[o][k] => Free(s)[k] = 0
  <2>1. Claims(t)[o][k] \in Nat
    <3>1. Claims(t)[o][k] \in 0..MaxQuantity
      BY ClaimsType
    <3> QED BY <3>1, CartAssumption
  <2>2. Claims(t)[o][k] = IF t.state[o] = "ACTIVE" /\ t.linked[o][k] THEN t.visible[o][k] ELSE 0
    BY ClaimAt
  <2>3. Claims(s)[o][k] = IF s.state[o] = "ACTIVE" /\ s.linked[o][k] THEN s.visible[o][k] ELSE 0
    BY ClaimAt
  <2>4. CASE k \in gone
    <3>1. Claims(s)[o][k] = 0
      BY <1>3, <2>3, <2>4
    <3>2. Free(s)[k] = 0
      <4>1. Free(s)[k] = s.quantity[k] - allocatedQuantity(s, k)
        BY <1>2, <1>4, FreeWhenSettled
      <4>2. UnitsHeld(s, Attached(s), k) = {}
        BY <1>3, <2>4 DEF UnitsHeld, Attached
      <4>3. allocatedQuantity(s, k) = 0 /\ s.quantity[k] = 0
        BY <1>1, <2>4, <4>2, HeldNothing DEF allocatedQuantity
      <4> QED BY <4>1, <4>3
    <3> QED BY <2>1, <3>1, <3>2
  <2>5. CASE k \notin gone
    <3>1. Claims(s)[o][k] = Claims(t)[o][k]
      BY <1>1, <1>3, <2>2, <2>3, <2>5
    <3> QED BY <2>1, <3>1
  <2> QED BY <2>4, <2>5
<1> QED BY <1>4, <1>5 DEF EditStep, s

\* A new order claims of each line what it orders, and that was free.
LEMMA ClaimClaims ==
  ASSUME NEW t, TablesOK(t), Within(t), Settled(t), NEW o \in OrderIds, t.state[o] = "NONE",
         NEW basket \in Quantities, NEW saved \in SUBSET Listings,
         \A l \in saved : basket[l] <= Unallocated(t, l)
  PROVE  ClaimStep(o, t, Claimed(t, o, basket, saved))
<1> DEFINE s == Claimed(t, o, basket, saved)
           wanted == [l \in Listings |-> IF l \in saved THEN basket[l] ELSE 0]
<1>1. /\ s.quantity = t.quantity
      /\ s.state = [t.state EXCEPT ![o] = "ACTIVE"]
      /\ s.linked = [t.linked EXCEPT ![o] = [l \in Listings |-> l \in saved]]
      /\ s.visible = [t.visible EXCEPT ![o] = wanted]
  BY ClaimFields
<1>2. TablesOK(s) /\ Within(s)
  BY ClaimWithin
<1> HIDE DEF s
<1>3. /\ s.state[o] = "ACTIVE" /\ s.visible[o] = wanted
      /\ \A p \in OrderIds \ {o} : s.state[p] = t.state[p] /\ s.linked[p] = t.linked[p] /\ s.visible[p] = t.visible[p]
  <2> HIDE DEF wanted
  <2> QED BY <1>1 DEF TablesOK
<1>4. \A l \in Listings : s.linked[o][l] <=> l \in saved
  <2>1. t.linked \in [OrderIds -> [Listings -> BOOLEAN]]
    BY DEF TablesOK
  <2>2. s.linked[o] = [k \in Listings |-> k \in saved]
    BY <1>1, <2>1, Zenon
  <2> QED BY <2>2, Zenon
<1>5. Claims(t)[o] = NoLine
  BY DEF Claims, NoLine
<1>6. Claims(s)[o] = wanted
  <2>1. \A l \in Listings : Claims(s)[o][l] = wanted[l]
    BY <1>3, <1>4, ClaimAt
  <2>2. Claims(s) \in [OrderIds -> [Listings -> 0..MaxQuantity]]
    BY <1>2, ClaimsType
  <2>3. DOMAIN Claims(s)[o] = Listings /\ Claims(s)[o] = [l \in Listings |-> Claims(s)[o][l]]
    BY <2>2
  <2> QED BY <2>1, <2>3, Zenon
<1>7. Claims(s) = [Claims(t) EXCEPT ![o] = Claims(s)[o]]
  <2>1. \A p \in OrderIds \ {o} : Claims(s)[p] = Claims(t)[p]
    BY <1>3, Zenon DEF Claims
  <2>2. /\ Claims(s) \in [OrderIds -> [Listings -> 0..MaxQuantity]]
        /\ Claims(t) \in [OrderIds -> [Listings -> 0..MaxQuantity]]
    BY <1>2, ClaimsType
  <2> QED BY <2>1, <2>2
<1>8. Settled(s)
  BY <1>3 DEF Settled, PendingStates
<1>9. ASSUME NEW l \in Listings
      PROVE  wanted[l] \in 0..Free(t)[l] /\ Free(s)[l] = Free(t)[l] - wanted[l]
  <2>1. Free(t)[l] = t.quantity[l] - allocatedQuantity(t, l) /\ Free(t)[l] \in Nat
    BY FreeType, FreeWhenSettled
  <2>2. Free(s)[l] = t.quantity[l] - allocatedQuantity(s, l)
    BY <1>1, <1>2, <1>8, FreeWhenSettled
  <2>3. wanted[l] \in 0..MaxQuantity
    BY CartAssumption DEF Quantities
  <2>4. wanted[l] <= Free(t)[l]
    <3>1. CASE l \in saved
      BY <2>1, <3>1 DEF Unallocated
    <3>2. CASE l \notin saved
      BY <2>1, <3>2
    <3> QED BY <3>1, <3>2
  <2>5. allocatedQuantity(s, l) = allocatedQuantity(t, l) + wanted[l]
    <3>1. /\ Attached(s) = Attached(t) \union {o} /\ Attached(t) \intersect {o} = {}
          /\ Attached(t) \in SUBSET OrderIds /\ {o} \in SUBSET OrderIds
      BY <1>3 DEF Attached, AttachedStates, PendingStates
    <3>2. HeldBy(s, Attached(t) \union {o}, l) = HeldBy(s, Attached(t), l) + HeldBy(s, {o}, l)
      BY <3>1, HeldBoth
    <3>3. HeldBy(s, Attached(t), l) = HeldBy(t, Attached(t), l)
      <4>1. \A p \in Attached(t) : s.linked[p] = t.linked[p] /\ s.visible[p] = t.visible[p]
        BY <1>3, <3>1
      <4>2. UnitsHeld(s, Attached(t), l) = UnitsHeld(t, Attached(t), l)
        BY <4>1 DEF UnitsHeld
      <4> QED BY <4>2, Zenon DEF HeldBy
    <3>4. HeldBy(s, {o}, l) = wanted[l]
      <4>1. CASE l \in saved
        BY <1>3, <1>4, <2>3, <4>1, HeldByOne
      <4>2. CASE l \notin saved
        <5>1. UnitsHeld(s, {o}, l) = {}
          BY <1>4, <4>2 DEF UnitsHeld
        <5>2. wanted[l] = 0
          BY <4>2
        <5> QED BY <5>1, <5>2, HeldNothing
      <4> QED BY <4>1, <4>2
    <3> HIDE DEF wanted
    <3> QED BY <3>1, <3>2, <3>3, <3>4 DEF allocatedQuantity
  <2>6. t.quantity[l] \in Nat /\ allocatedQuantity(t, l) \in Nat
    <3>1. Attached(t) \in SUBSET OrderIds
      BY DEF Attached
    <3> QED BY <3>1, HeldFinite, CartAssumption DEF TablesOK, Quantities, allocatedQuantity
  <2> DEFINE w == wanted[l]
             a == allocatedQuantity(t, l)
             n == t.quantity[l]
  <2>7. w \in Nat
    BY <2>3, CartAssumption
  <2>8. n - (a + w) = (n - a) - w
    <3> HIDE DEF w, a, n
    <3>1. n \in Int /\ a \in Int /\ w \in Int
      BY <2>6, <2>7 DEF n, a
    <3> QED BY <3>1
  <2> HIDE DEF wanted
  <2> QED BY <2>1, <2>2, <2>4, <2>5, <2>7, <2>8
<1> HIDE DEF wanted
<1> QED BY <1>5, <1>6, <1>7, <1>9 DEF ClaimStep, s

\* Queueing the task of an unpaid order is its purchase, or gives its claim back.
LEMMA QueueMoves ==
  ASSUME NEW t, TablesOK(t), NEW s, NEW o \in OrderIds, NEW task \in PendingStates,
         t.state[o] = "ACTIVE", s.state = [t.state EXCEPT ![o] = task],
         s.quantity = t.quantity, s.linked = t.linked, s.visible = t.visible
  PROVE  /\ task = "CONSUME_PENDING" => PurchaseStep(o, t, s)
         /\ task = "RELEASE_PENDING" => AbandonStep(o, t, s)
<1>1. /\ s.state[o] = task /\ task # "ACTIVE"
      /\ \A p \in OrderIds \ {o} : s.state[p] = t.state[p]
  BY DEF TablesOK, PendingStates
<1>2. Claims(s) = [Claims(t) EXCEPT ![o] = NoLine]
  <2>1. Claims(s)[o] = NoLine
    BY <1>1 DEF Claims, NoLine
  <2>2. \A p \in OrderIds \ {o} : Claims(s)[p] = Claims(t)[p]
    BY <1>1, Zenon DEF Claims
  <2>3. Claims(s) = [p \in OrderIds |-> Claims(s)[p]] /\ Claims(t) = [p \in OrderIds |-> Claims(t)[p]]
    BY DEF Claims
  <2> QED BY <2>1, <2>2, <2>3
<1>3. CASE task = "CONSUME_PENDING"
  <2>1. NotFreeIn(s) = NotFreeIn(t)
    BY <1>1, <1>3 DEF NotFreeIn
  <2>2. Free(s) = Free(t)
    BY <2>1, Zenon DEF Free, HeldBy, UnitsHeld
  <2> QED BY <1>2, <1>3, <2>2 DEF PurchaseStep
<1>4. CASE task = "RELEASE_PENDING"
  <2> DEFINE rest == NotFreeIn(s)
  <2>1. /\ NotFreeIn(t) = rest \union {o} /\ rest \intersect {o} = {}
        /\ rest \in SUBSET OrderIds /\ {o} \in SUBSET OrderIds
    BY <1>1, <1>4 DEF NotFreeIn
  <2> HIDE DEF rest
  <2>2. ASSUME NEW l \in Listings
        PROVE  s.quantity[l] - HeldBy(s, rest, l) = Free(t)[l] + Claims(t)[o][l]
    <3>1. HeldBy(t, rest \union {o}, l) = HeldBy(t, rest, l) + HeldBy(t, {o}, l)
      BY <2>1, HeldBoth
    <3>2. HeldBy(s, rest, l) = HeldBy(t, rest, l)
      BY Zenon DEF HeldBy, UnitsHeld
    <3>3. Claims(t)[o][l] = IF t.linked[o][l] THEN t.visible[o][l] ELSE 0
      BY ClaimAt
    <3>4. HeldBy(t, {o}, l) = Claims(t)[o][l]
      <4>1. CASE t.linked[o][l]
        <5>1. t.visible[o][l] \in 0..MaxQuantity
          BY DEF TablesOK, Quantities
        <5> QED BY <3>3, <4>1, <5>1, HeldByOne
      <4>2. CASE ~t.linked[o][l]
        <5>1. UnitsHeld(t, {o}, l) = {}
          BY <4>2 DEF UnitsHeld
        <5> QED BY <3>3, <4>2, <5>1, HeldNothing
      <4> QED BY <4>1, <4>2
    <3>5. Free(t)[l] = t.quantity[l] - HeldBy(t, rest \union {o}, l)
      <4>1. Free(t)[l] = t.quantity[l] - HeldBy(t, NotFreeIn(t), l)
        BY FreeAt
      <4> QED BY <2>1, <4>1, Zenon
    <3>6. HeldBy(t, rest, l) \in Int /\ HeldBy(t, {o}, l) \in Int /\ t.quantity[l] \in Int
      <4>1. HeldBy(t, rest, l) \in Nat /\ HeldBy(t, {o}, l) \in Nat
        BY <2>1, HeldFinite
      <4> QED BY <4>1, CartAssumption DEF TablesOK, Quantities
    <3>7. \A n, a, b \in Int : n - a = (n - (a + b)) + b
      OBVIOUS
    <3> QED BY <3>1, <3>2, <3>4, <3>5, <3>6, <3>7
  <2>3. Free(s) = [l \in Listings |-> Free(t)[l] + Claims(t)[o][l]]
    BY <2>2, Zenon DEF Free, rest
  <2> QED BY <1>2, <1>4, <2>3 DEF AbandonStep
<1> QED BY <1>3, <1>4 DEF PendingStates

\* Each step from t is a step from the tables t was settled from.
LEMMA FromSettled ==
  ASSUME NEW t, NEW s, NEW u, Unseen(t, s), IntentStep(s, u)
  PROVE  IntentStep(t, u)
BY DEF Unseen, IntentStep, EditStep, ClaimStep, PurchaseStep, AbandonStep

LEMMA NextTablesAre ==
  ASSUME NEW t, TablesOK(t), Commit(t)
  PROVE  NextTables = t
BY DEF NextTables, Commit, TablesOK

LEMMA CustomerEdits ==
  ASSUME TablesOK(Tables), Within(Tables), CustomerNext
  PROVE  IntentStep(Tables, NextTables)
<1> DEFINE t == settleCartReconciliation(Tables)
<1>1. TablesOK(t) /\ Within(t)
  BY SettleWithin
<1>2. Unseen(Tables, t) /\ Settled(t)
  BY SettleUnseen
<1>3. \A l \in Listings : /\ t.quantity[l] \in 0..MaxQuantity
                          /\ allocatedQuantity(t, l) \in Nat
                          /\ allocatedQuantity(t, l) <= t.quantity[l]
  <2> HIDE DEF t
  <2>1. Attached(t) \in SUBSET OrderIds
    BY DEF Attached
  <2> QED BY <1>1, <2>1, HeldFinite DEF TablesOK, Quantities, Within, allocatedQuantity
<1>4. ASSUME NEW u, TablesOK(u), Commit(u), EditStep(t, u) PROVE IntentStep(Tables, NextTables)
  <2> HIDE DEF t
  <2>1. NextTables = u
    BY <1>4, NextTablesAre
  <2>2. IntentStep(t, u)
    BY <1>4 DEF IntentStep
  <2>3. IntentStep(Tables, u)
    BY <1>2, <2>2, FromSettled
  <2> QED BY <2>1, <2>3
<1>5. ASSUME NEW l \in Listings, NEW q \in 0..MaxQuantity, allocatedQuantity(t, l) <= q,
             Commit(SetQuantity(t, l, q))
      PROVE  IntentStep(Tables, NextTables)
  <2> HIDE DEF t
  <2>1. \A k \in Listings : allocatedQuantity(t, k) <= t.quantity[k]
    BY <1>3
  <2>2. TablesOK(SetQuantity(t, l, q))
    BY <1>1, <1>5, <2>1, SetWithin
  <2>3. EditStep(t, SetQuantity(t, l, q))
    BY <1>1, <1>5, SetEdits
  <2> QED BY <1>4, <1>5, <2>2, <2>3
<1>6. ASSUME NEW l \in Listings, NEW n \in 1..MaxQuantity, addCartItem(l, n)
      PROVE  IntentStep(Tables, NextTables)
  <2>1. t.quantity[l] + n <= MaxQuantity /\ Commit(SetQuantity(t, l, t.quantity[l] + n))
    BY <1>6, Zenon DEF addCartItem
  <2> HIDE DEF t
  <2> DEFINE q == t.quantity[l] + n
  <2>2. q \in 0..MaxQuantity /\ allocatedQuantity(t, l) <= q
    BY <1>3, <2>1, CartAssumption
  <2>3. Commit(SetQuantity(t, l, q))
    BY <2>1
  <2> HIDE DEF q
  <2> QED BY <1>5, <2>2, <2>3
<1>7. ASSUME NEW l \in Listings, NEW q \in 1..MaxQuantity, updateCartItem(l, q)
      PROVE  IntentStep(Tables, NextTables)
  <2> DEFINE r == reduceAllocations(t, l, q)
  <2>1. IF t.quantity[l] > 0 THEN Commit(SetQuantity(r, l, q)) ELSE Commit(SetQuantity(t, l, q))
    BY <1>7, Zenon DEF updateCartItem
  <2>2. q \in 0..MaxQuantity
    BY CartAssumption
  <2> HIDE DEF t
  <2>3. CASE t.quantity[l] > 0
    <3>1. TablesOK(r) /\ r.quantity = t.quantity
      BY <1>1, <2>2, ReduceFields
    <3>2. /\ allocatedQuantity(r, l) <= q
          /\ \A k \in Listings : k # l => allocatedQuantity(r, k) = allocatedQuantity(t, k)
      BY <1>1, <2>2, ReduceReaches
    <3>3. EditStep(t, SetQuantity(r, l, q))
      BY <1>1, <1>2, <2>2, ReduceEdits
    <3> HIDE DEF r
    <3>4. TablesOK(SetQuantity(r, l, q))
      BY <1>3, <2>2, <3>1, <3>2, SetWithin
    <3> QED BY <1>4, <2>1, <2>3, <3>3, <3>4
  <2>4. CASE ~(t.quantity[l] > 0)
    <3>1. allocatedQuantity(t, l) <= q
      BY <1>3, <2>2, <2>4, CartAssumption
    <3> QED BY <1>5, <2>1, <2>2, <2>4, <3>1
  <2> QED BY <2>3, <2>4
<1>8. ASSUME NEW l \in Listings, removeCartItem(l)
      PROVE  IntentStep(Tables, NextTables)
  <2> DEFINE r == reduceAllocations(t, l, 0)
             u == DeleteRows(r, {l})
  <2>1. Commit(u)
    BY <1>8, Zenon DEF removeCartItem
  <2> HIDE DEF t
  <2>2. /\ TablesOK(r) /\ r.quantity = t.quantity /\ r.state = t.state /\ r.linked = t.linked
        /\ \A o \in OrderIds, k \in Listings : k # l => r.visible[o][k] = t.visible[o][k]
    BY <1>1, CartAssumption, ReduceFields
  <2>3. \A k \in Listings : k # l => allocatedQuantity(r, k) = allocatedQuantity(t, k)
    BY <1>1, CartAssumption, ReduceReaches
  <2> HIDE DEF r
  <2>4. /\ {l} \in SUBSET Listings
        /\ \A k \in Listings \ {l} : allocatedQuantity(r, k) = allocatedQuantity(t, k)
        /\ \A o \in OrderIds, k \in Listings \ {l} :
             r.linked[o][k] = t.linked[o][k] /\ r.visible[o][k] = t.visible[o][k]
        /\ \A k \in Listings \ {l} : allocatedQuantity(r, k) <= r.quantity[k]
    BY <1>3, <2>2, <2>3
  <2>5. EditStep(t, u)
    BY <1>1, <1>2, <2>2, <2>4, DeleteEdits
  <2>6. TablesOK(u)
    BY <2>2, <2>4, DeleteWithin
  <2> HIDE DEF u
  <2> QED BY <1>4, <2>1, <2>5, <2>6
<1>9. ASSUME clearCart PROVE IntentStep(Tables, NextTables)
  <2> DEFINE c == Cleared(t)
             u == DeleteRows(c, Listings)
  <2>1. Commit(u)
    BY <1>9, Zenon DEF clearCart
  <2> HIDE DEF t
  <2>2. TablesOK(c) /\ c.state = t.state /\ c.quantity = t.quantity
    BY <1>1, ClearedOK
  <2> HIDE DEF c
  <2>3. EditStep(t, u)
    BY <1>1, <1>2, <2>2, DeleteEdits
  <2>4. TablesOK(u)
    BY <2>2, DeleteWithin
  <2> HIDE DEF u
  <2> QED BY <1>4, <2>1, <2>3, <2>4
<1> QED BY <1>6, <1>7, <1>8, <1>9 DEF CustomerNext

LEMMA CreateClaims ==
  ASSUME TablesOK(Tables), Within(Tables), TaskIInv,
         NEW o \in OrderIds, NEW basket \in Quantities, createOrder(o, basket)
  PROVE  IntentStep(Tables, NextTables)
<1> DEFINE t == settleCartReconciliation(Tables)
           saved == {l \in Listings : basket[l] > 0 /\ t.quantity[l] > 0}
<1>1. TablesOK(t) /\ Within(t)
  BY SettleWithin
<1>2. Unseen(Tables, t) /\ Settled(t)
  BY SettleUnseen
<1>3. /\ \A l \in saved : basket[l] <= Unallocated(t, l)
      /\ Commit(IF saved = {} THEN t ELSE Claimed(t, o, basket, saved))
  BY Zenon DEF createOrder, Claimed
<1>4. t.state[o] = "NONE"
  <2>1. status[o] = "NONE" /\ state[o] = "NONE"
    BY DEF createOrder, TaskIInv, TaskNeedsOrder
  <2> QED BY <2>1, SettleState DEF SettledState
<1>5. saved \in SUBSET Listings
  OBVIOUS
<1> HIDE DEF t, saved
<1>6. CASE saved = {}
  <2>1. NextTables = t
    BY <1>1, <1>3, <1>6, NextTablesAre
  <2> QED BY <1>2, <2>1 DEF IntentStep
<1>7. CASE saved # {}
  <2> DEFINE u == Claimed(t, o, basket, saved)
  <2>1. TablesOK(u)
    BY <1>1, <1>3, <1>4, <1>5, ClaimWithin
  <2>2. ClaimStep(o, t, u)
    BY <1>1, <1>2, <1>3, <1>4, <1>5, ClaimClaims
  <2>3. Commit(u)
    BY <1>3, <1>7
  <2> HIDE DEF u
  <2>4. NextTables = u
    BY <2>1, <2>3, NextTablesAre
  <2>5. IntentStep(t, u)
    BY <2>2 DEF IntentStep
  <2> QED BY <1>2, <2>4, <2>5, FromSettled
<1> QED BY <1>6, <1>7

LEMMA QueueSteps ==
  ASSUME TablesOK(Tables), NEW o \in OrderIds, NEW consume \in BOOLEAN,
         queueCartReconciliation(o, consume)
  PROVE  IntentStep(Tables, NextTables)
<1> DEFINE t == Tables
           s == NextTables
           task == IF consume THEN "CONSUME_PENDING" ELSE "RELEASE_PENDING"
<1>1. s.quantity = t.quantity /\ s.linked = t.linked /\ s.visible = t.visible /\ t.state = state /\ s.state = state'
  BY DEF queueCartReconciliation, Tables, NextTables
<1>2. CASE state[o] = "ACTIVE"
  <2>1. s.state = [t.state EXCEPT ![o] = task] /\ t.state[o] = "ACTIVE" /\ task \in PendingStates
    BY <1>1, <1>2 DEF queueCartReconciliation, PendingStates
  <2> HIDE DEF t, s, task
  <2>2. /\ task = "CONSUME_PENDING" => PurchaseStep(o, t, s)
        /\ task = "RELEASE_PENDING" => AbandonStep(o, t, s)
    BY <1>1, <2>1, QueueMoves DEF t
  <2> QED BY <2>1, <2>2 DEF IntentStep, PendingStates, t, s
<1>3. CASE state[o] # "ACTIVE"
  <2>1. NextTables = Tables
    BY <1>3 DEF queueCartReconciliation, Tables, NextTables
  <2> QED BY <2>1 DEF IntentStep, Unseen
<1> QED BY <1>2, <1>3

\* Every step of the cart is a step of the intent.
LEMMA CartStepsIntent ==
  ASSUME CartIInv, [CartNext]_cartVars
  PROVE  IntentStep(Tables, NextTables)
<1>1. TablesOK(Tables) /\ Within(Tables) /\ TaskIInv
  BY TablesNow DEF CartIInv
<1>2. CASE UNCHANGED <<quantity, state, linked, visible>>
  <2>1. NextTables = Tables
    BY <1>2 DEF NextTables, Tables
  <2> QED BY <2>1 DEF IntentStep, Unseen
<1>3. ASSUME NEW o \in OrderIds, Confirm(o) \/ Cancel(o) \/ Expire(o)
      PROVE  IntentStep(Tables, NextTables)
  <2>1. \/ \E consume \in BOOLEAN : queueCartReconciliation(o, consume)
        \/ UNCHANGED <<quantity, state, linked, visible>>
    BY <1>3, Zenon DEF Confirm, Cancel, Expire
  <2> QED BY <1>1, <1>2, <2>1, QueueSteps
<1>4. ASSUME reconcilePendingCarts PROVE IntentStep(Tables, NextTables)
  <2> DEFINE t == settleCartReconciliation(Tables)
  <2>1. TablesOK(t) /\ Unseen(Tables, t)
    BY <1>1, SettleWithin, SettleUnseen
  <2>2. Commit(t)
    BY <1>4, Zenon DEF reconcilePendingCarts
  <2> HIDE DEF t
  <2>3. NextTables = t
    BY <2>1, <2>2, NextTablesAre
  <2> QED BY <2>1, <2>3 DEF IntentStep
<1> QED BY <1>1, <1>2, <1>3, <1>4, CustomerEdits, CreateClaims DEF CartNext, cartVars

\* What CartIntent sees, now and after a step.
LEMMA IntentSees ==
  /\ [l \in Listings |-> quantity[l] - HeldBy(Tables, NotFree, l)] = Free(Tables)
  /\ [o \in OrderIds |-> [l \in Listings |->
        IF state[o] = "ACTIVE" /\ linked[o][l] THEN visible[o][l] ELSE 0]] = Claims(Tables)
  /\ [l \in Listings |-> quantity[l] - HeldBy(Tables, NotFree, l)]' = Free(NextTables)
  /\ [o \in OrderIds |-> [l \in Listings |->
        IF state[o] = "ACTIVE" /\ linked[o][l] THEN visible[o][l] ELSE 0]]' = Claims(NextTables)
BY DEF Free, Claims, NotFree, NotFreeIn, Tables, NextTables, HeldBy, UnitsHeld

\* Settlement is invisible: with queued purchases counted as taken and queued
\* releases as given back, the cart is what CartIntent says it is, whenever and by
\* whom the tasks are settled, for any number of orders, lines and units.
THEOREM CartActsLikeIntent == CartSpec => ActsLikeIntent
<1>1. CartInit => Intent!Init
  <2> SUFFICES ASSUME CartInit PROVE Intent!Init
    OBVIOUS
  <2>1. Claims(Tables) = [o \in OrderIds |-> NoLine]
    BY DEF Claims, Tables, CartInit, NoLine
  <2>2. Free(Tables) = NoLine
    <3>1. ASSUME NEW l \in Listings PROVE Tables.quantity[l] - HeldBy(Tables, NotFreeIn(Tables), l) = 0
      <4>1. UnitsHeld(Tables, NotFreeIn(Tables), l) = {}
        BY DEF UnitsHeld, NotFreeIn, Tables, CartInit
      <4>2. Tables.quantity[l] = 0
        BY DEF Tables, CartInit, NoLine
      <4> QED BY <4>1, <4>2, HeldNothing
    <3> QED BY <3>1, Zenon DEF Free, NoLine
  <2> QED BY <2>1, <2>2, IntentSees DEF Intent!Init, Intent!Nothing, NoLine
<1>2. CartIInv /\ [CartNext]_cartVars => [Intent!Next]_(Intent!intentVars)
  <2> SUFFICES ASSUME CartIInv, [CartNext]_cartVars
               PROVE  Intent!Next \/ UNCHANGED Intent!intentVars
    OBVIOUS
  <2>1. IntentStep(Tables, NextTables)
    BY CartStepsIntent
  <2>2. CASE Unseen(Tables, NextTables)
    BY <2>2, IntentSees DEF Unseen, Intent!intentVars
  <2>3. CASE EditStep(Tables, NextTables)
    BY <2>3, IntentSees DEF EditStep, Intent!Edit, Intent!Next
  <2>4. ASSUME NEW o \in OrderIds, ClaimStep(o, Tables, NextTables) PROVE Intent!Claim(o)
    BY <2>4, IntentSees DEF ClaimStep, Intent!Claim, Intent!Nothing, NoLine
  <2>5. ASSUME NEW o \in OrderIds, PurchaseStep(o, Tables, NextTables) PROVE Intent!Purchase(o)
    BY <2>5, IntentSees DEF PurchaseStep, Intent!Purchase, Intent!Nothing, NoLine
  <2>6. ASSUME NEW o \in OrderIds, AbandonStep(o, Tables, NextTables) PROVE Intent!Abandon(o)
    BY <2>6, IntentSees DEF AbandonStep, Intent!Abandon, Intent!Nothing, NoLine
  <2> QED BY <2>1, <2>2, <2>3, <2>4, <2>5, <2>6 DEF IntentStep, Intent!Next
<1>3. CartInit => CartIInv
  BY TaskInit, QuantitiesInit DEF CartIInv
<1> QED BY <1>1, <1>2, <1>3, CartNextKeeps, PTL DEF CartSpec, ActsLikeIntent, Intent!Spec
=============================================================================
