------------------------------- MODULE Purchases -------------------------------
(***************************************************************************)
(* One purchase: its documents, their lines, what each line cost and the   *)
(* stock it brought in.  Every mutation locks the Purchase row first, so   *)
(* each is one action.  A review mutation also carries the revision (a     *)
(* hash of all these rows) that its reviewer saw and is refused when the   *)
(* rows have changed; a reviewer may reload at any time, so what is left   *)
(* of the revision is that each action decides on the current rows.        *)
(* Receiving and returning a single line carry no revision.                *)
(***************************************************************************)
EXTENDS Inventory, FiniteSetsExt

CONSTANTS ItemIds,         \* PurchaseItem ids: integers, the order of a document's lines
          Docs,            \* documents of the purchase
          DocOf,           \* the document of each line
          ExternalIdOf,    \* the supplier's id of each line, or NoExternalId
          NoExternalId,
          SetNumbers,      \* values of sourceSetNumber
          NoSetNumber,     \* NULL
          NoListing,       \* NULL
          LineCosts,       \* [quantity, unit, total] of a line, in pennies, as documents state them
          Extras,          \* [shipping, discount] of a document, in pennies
          MaxQuantity,     \* bound on an amended quantity
          UnitCosts        \* amended unit costs

ASSUME PurchasesAssumption ==
  /\ IsFiniteSet(ItemIds) /\ ItemIds \subseteq Nat
  /\ DocOf \in [ItemIds -> Docs]
  /\ NoListing \notin Listings
  /\ NoSetNumber \notin SetNumbers
  /\ LineCosts \subseteq [quantity : Nat \ {0}, unit : Nat, total : Nat]
  /\ Extras \subseteq [shipping : Nat, discount : Nat]
  /\ MaxQuantity \in Nat /\ UnitCosts \subseteq Nat

VARIABLES imported,           \* documents persisted so far
          document,           \* their totals
          quantity,           \* PurchaseItem.quantity
          cost,               \* the money columns of a line
          sourceSetNumber,    \* what the supplier calls the product
          productListing,     \* PurchaseItem.productListingId
          disposition,        \* PurchaseItem.inventoryDisposition
          stage,              \* receivedAt and returnedAt, as far as they are set
          purchaseMovements   \* sum of PURCHASE_IN and PURCHASE_RETURN_OUT rows

costVars == <<imported, document, quantity, cost>>
linkVars == <<sourceSetNumber, productListing, disposition>>
purchaseVars == <<costVars, linkVars, stage, purchaseMovements>>
purchasesVars == <<purchaseVars, stockVars>>

Stages == {"ABSENT", "PENDING", "RECEIVED", "RETURNED"}
LinesOf(d) == {i \in ItemIds : DocOf[i] = d}
NoCost == [unit |-> 0, total |-> 0, shipping |-> 0, discount |-> 0, final |-> 0]
NoDocument == [merchandise |-> 0, shipping |-> 0, discount |-> 0, paid |-> 0]

PurchasesTypeOK ==
  /\ InventoryTypeOK
  /\ imported \subseteq Docs
  /\ document \in [Docs -> [merchandise : Nat, shipping : Nat, discount : Nat, paid : Nat]]
  /\ quantity \in [ItemIds -> Nat]
  /\ cost \in [ItemIds -> [unit : Nat, total : Nat, shipping : Nat, discount : Nat, final : Nat]]
  /\ sourceSetNumber \in [ItemIds -> SetNumbers \union {NoSetNumber}]
  /\ productListing \in [ItemIds -> Listings \union {NoListing}]
  /\ disposition \in [ItemIds -> {"INVENTORY", "NON_INVENTORY"}]
  /\ stage \in [ItemIds -> Stages]
  /\ purchaseMovements \in [Listings -> Int]

PurchasesInit ==
  /\ InventoryInit
  /\ imported = {}
  /\ document = [d \in Docs |-> NoDocument]
  /\ quantity = [i \in ItemIds |-> 0]
  /\ cost = [i \in ItemIds |-> NoCost]
  /\ sourceSetNumber = [i \in ItemIds |-> NoSetNumber]
  /\ productListing = [i \in ItemIds |-> NoListing]
  /\ disposition = [i \in ItemIds |-> "INVENTORY"]
  /\ stage = [i \in ItemIds |-> "ABSENT"]
  /\ purchaseMovements = [l \in Listings |-> 0]

-----------------------------------------------------------------------------
(* What the lines of a document cost.  All amounts are integers.           *)

\* Slip: the last line takes every penny that rounding left.
LastTakesTheRest(total, amount) ==
  LET lines == DOMAIN total
      merchandise == SumFunction(total)
      floor == [i \in lines |-> (total[i] * amount) \div merchandise]
  IN IF amount = 0 THEN [i \in lines |-> 0]
     ELSE [i \in lines |-> IF i = Max(lines)
                           THEN amount - SumFunctionOnSet(floor, lines \ {i}) ELSE floor[i]]

\* Largest remainder: the pennies that rounding left go to the lines that lost
\* most by it, ties to the earlier line.
allocateProportional(total, amount) ==
  LET lines == DOMAIN total
      merchandise == SumFunction(total)
      floor == [i \in lines |-> (total[i] * amount) \div merchandise]
      remainder(i) == (total[i] * amount) % merchandise
      remaining == amount - SumFunction(floor)
      ahead(i) == {j \in lines : \/ remainder(j) > remainder(i)
                                 \/ remainder(j) = remainder(i) /\ j < i}
  IN IF amount = 0 THEN [i \in lines |-> 0]
     ELSE [i \in lines |-> IF Cardinality(ahead(i)) < remaining THEN floor[i] + 1 ELSE floor[i]]

calculatedItems(unit, total, extra) ==
  LET shipping == allocateProportional(total, extra.shipping)
      discount == allocateProportional(total, extra.discount)
  IN [i \in DOMAIN total |->
        [unit |-> unit[i], total |-> total[i], shipping |-> shipping[i], discount |-> discount[i],
         final |-> total[i] + shipping[i] - discount[i]]]

\* calculatePurchaseCosts refuses a document that fails any of these.
Calculable(total, extra, paid) ==
  LET merchandise == SumFunction(total)
      items == calculatedItems(total, total, extra)
      finals == SumFunction([i \in DOMAIN total |-> items[i].final])
  IN /\ merchandise + extra.shipping - extra.discount >= 0
     /\ extra.shipping + extra.discount > 0 => merchandise > 0
     /\ \A i \in DOMAIN total : items[i].final >= 0
     /\ finals = merchandise + extra.shipping - extra.discount
     /\ finals = paid

\* Document d gets these quantities and, recalculated, these costs.
Recalculate(d, newQuantity, unit, total, extra) ==
  LET merchandise == SumFunction(total)
      paid == merchandise + extra.shipping - extra.discount
      items == calculatedItems(unit, total, extra)
  IN /\ Calculable(total, extra, paid)
     /\ quantity' = [i \in ItemIds |-> IF DocOf[i] = d THEN newQuantity[i] ELSE quantity[i]]
     /\ cost' = [i \in ItemIds |-> IF DocOf[i] = d THEN items[i] ELSE cost[i]]
     /\ document' = [document EXCEPT ![d] =
          [merchandise |-> merchandise, shipping |-> extra.shipping,
           discount |-> extra.discount, paid |-> paid]]

\* An import of a document that is already there is refused by its importHash.
\* A line is linked by hand, or by a set number that has exactly one listing.
ImportDocument(d) ==
  \E stated \in [LinesOf(d) -> LineCosts], extra \in Extras,
     named \in [LinesOf(d) -> SetNumbers \union {NoSetNumber}],
     linked \in [LinesOf(d) -> {l \in Listings : Exists(l)} \union {NoListing}] :
    /\ d \notin imported
    /\ imported' = imported \union {d}
    /\ Recalculate(d, [i \in LinesOf(d) |-> stated[i].quantity], [i \in LinesOf(d) |-> stated[i].unit],
                   [i \in LinesOf(d) |-> stated[i].total], extra)
    /\ sourceSetNumber' = [i \in ItemIds |-> IF DocOf[i] = d THEN named[i] ELSE sourceSetNumber[i]]
    /\ productListing' = [i \in ItemIds |-> IF DocOf[i] = d THEN linked[i] ELSE productListing[i]]
    /\ stage' = [i \in ItemIds |-> IF DocOf[i] = d THEN "PENDING" ELSE stage[i]]
    /\ UNCHANGED <<disposition, purchaseMovements, stockVars>>

-----------------------------------------------------------------------------
(* The review.  Lines with one identity are decided on together.           *)

Identity(i) ==
  CASE ExternalIdOf[i] # NoExternalId -> <<"external", ExternalIdOf[i]>>
    [] ExternalIdOf[i] = NoExternalId /\ sourceSetNumber[i] # NoSetNumber -> <<"set", sourceSetNumber[i]>>
    [] OTHER -> <<"line", i>>

Imported == {i \in ItemIds : DocOf[i] \in imported}
GroupOf(i) == {j \in Imported : Identity(j) = Identity(i)}
Groups == {GroupOf(i) : i \in Imported}

\* Slip: only the first line of the group is looked at.
ResolveByFirst(group, l) ==
  /\ stage[Min(group)] = "PENDING"
  /\ l # NoListing => active[l]
  /\ productListing' = [i \in ItemIds |-> IF i \in group THEN l ELSE productListing[i]]
  /\ disposition' = [i \in ItemIds |-> IF i \in group THEN "INVENTORY" ELSE disposition[i]]
  /\ UNCHANGED <<costVars, sourceSetNumber, stage, purchaseMovements, stockVars>>

resolveReviewGroup(group, l) ==
  /\ \A i \in group : stage[i] = "PENDING"
  /\ l # NoListing => active[l]
  /\ productListing' = [i \in ItemIds |-> IF i \in group THEN l ELSE productListing[i]]
  /\ disposition' = [i \in ItemIds |-> IF i \in group THEN "INVENTORY" ELSE disposition[i]]
  /\ UNCHANGED <<costVars, sourceSetNumber, stage, purchaseMovements, stockVars>>

\* Excluding a group unlinks it; restoring one leaves it to be resolved again.
setReviewGroupDisposition(group, chosen) ==
  LET clear == chosen = "NON_INVENTORY" \/ \E i \in group : disposition[i] = "NON_INVENTORY"
  IN /\ \A i \in group : stage[i] = "PENDING"
     /\ disposition' = [i \in ItemIds |-> IF i \in group THEN chosen ELSE disposition[i]]
     /\ productListing' = [i \in ItemIds |-> IF clear /\ i \in group THEN NoListing ELSE productListing[i]]
     /\ UNCHANGED <<costVars, sourceSetNumber, stage, purchaseMovements, stockVars>>

\* The columns of the lines of i's document with line i's quantity and price amended.
AmendedQuantity(i, q) == [j \in LinesOf(DocOf[i]) |-> IF j = i THEN q ELSE quantity[j]]
AmendedUnit(i, unit) == [j \in LinesOf(DocOf[i]) |-> IF j = i THEN unit ELSE cost[j].unit]
AmendedTotal(i, q, unit) == [j \in LinesOf(DocOf[i]) |-> IF j = i THEN q * unit ELSE cost[j].total]

ExtraOf(d) == [shipping |-> document[d].shipping, discount |-> document[d].discount]

\* Slip: only the amended line has to be unreceived.
CostOfAny(i) == quantity[i] * cost[i].unit = cost[i].total

CostAmendable(i) ==
  /\ \A j \in LinesOf(DocOf[i]) : stage[j] = "PENDING"
  /\ quantity[i] * cost[i].unit = cost[i].total

\* A line with a new set number is another product: a person links it again.
amendReviewLine(i, q, unit, name) ==
  /\ stage[i] = "PENDING"
  /\ IF q # quantity[i] \/ unit # cost[i].unit
     THEN /\ CostAmendable(i)
          /\ Recalculate(DocOf[i], AmendedQuantity(i, q), AmendedUnit(i, unit),
                         AmendedTotal(i, q, unit), ExtraOf(DocOf[i]))
     ELSE UNCHANGED <<document, quantity, cost>>
  /\ sourceSetNumber' = [sourceSetNumber EXCEPT ![i] = name]
  /\ productListing' = [productListing EXCEPT ![i] = IF name = sourceSetNumber[i] THEN @ ELSE NoListing]
  /\ UNCHANGED <<imported, disposition, stage, purchaseMovements, stockVars>>

-----------------------------------------------------------------------------
(* Stock.  Only NEW listings are received into; an increment past the      *)
(* column's range raises and rolls back.                                   *)

\* The units that a set of lines stands for, one by one.
UnitsOf(lines) == UNION {{i} \X (1..quantity[i]) : i \in lines}

PurchaseMovement(l, n) ==
  /\ currentStock' = [currentStock EXCEPT ![l] = @ + n]
  /\ purchaseMovements' = [purchaseMovements EXCEPT ![l] = @ + n]
  /\ UNCHANGED <<reservedStock, usedLifecycle, active, reactivating, orderMovements, adminMovements>>

ReceiveLines(lines, l) ==
  LET units == Cardinality(UnitsOf(lines))
  IN /\ \A i \in lines : stage[i] = "PENDING"
     /\ l \in NewListings
     /\ currentStock[l] + units <= MaxStock
     /\ stage' = [i \in ItemIds |-> IF i \in lines THEN "RECEIVED" ELSE stage[i]]
     /\ PurchaseMovement(l, units)
     /\ UNCHANGED <<costVars, linkVars>>

receivePurchaseItem(i) ==
  /\ disposition[i] = "INVENTORY"
  /\ ReceiveLines({i}, productListing[i])

\* What is left of the group to receive, its lines all linked to one active listing.
receiveReviewGroup(group, l) ==
  LET pending == {i \in group : stage[i] = "PENDING"}
  IN /\ \A i \in group : disposition[i] = "INVENTORY" /\ productListing[i] = l
     /\ l # NoListing /\ active[l]
     /\ pending # {}
     /\ ReceiveLines(pending, l)

\* A whole received line goes back to the supplier, never units that are promised.
returnPurchaseItem(i) ==
  LET l == productListing[i]
  IN /\ stage[i] = "RECEIVED"
     /\ currentStock[l] - quantity[i] >= reservedStock[l]
     /\ stage' = [stage EXCEPT ![i] = "RETURNED"]
     /\ PurchaseMovement(l, -quantity[i])
     /\ UNCHANGED <<costVars, linkVars>>

-----------------------------------------------------------------------------
(* What else happens to the listings: orders of one unit, and staff        *)
(* switching a listing on and off.                                         *)

OneOf(l) == [k \in Listings |-> IF k = l THEN 1 ELSE 0]

ListingsNext ==
  /\ \/ \E l \in Listings : ReserveItems(OneOf(l)) \/ ReleaseItems(OneOf(l)) \/ SellItems(OneOf(l))
     \/ \E l \in Listings : DeactivateProduct(l) \/ ReactivateProduct(l)
  /\ UNCHANGED purchaseVars

ReviewNext(group) ==
  \/ \E l \in Listings \union {NoListing} : resolveReviewGroup(group, l)
  \/ \E chosen \in {"INVENTORY", "NON_INVENTORY"} : setReviewGroupDisposition(group, chosen)
  \/ \E l \in Listings : receiveReviewGroup(group, l)

LineNext(i) ==
  \/ \E q \in 1..MaxQuantity, unit \in UnitCosts, name \in SetNumbers \union {NoSetNumber} :
       amendReviewLine(i, q, unit, name)
  \/ receivePurchaseItem(i)
  \/ returnPurchaseItem(i)

PurchasesNext ==
  \/ \E d \in Docs : ImportDocument(d)
  \/ \E group \in Groups : ReviewNext(group)
  \/ \E i \in ItemIds : LineNext(i)
  \/ ListingsNext

PurchasesSpec == PurchasesInit /\ [][PurchasesNext]_purchasesVars

-----------------------------------------------------------------------------
(* Properties.                                                             *)

\* The lines that brought stock in are the stock that came in: however lines are
\* regrouped, relinked, amended, received singly or together and sent back, each
\* line counts once, for the listing and the quantity it still shows; and what
\* goes back to the supplier never includes a unit promised to a customer.
ReceiptsMatchMovements ==
  \A l \in Listings :
    /\ purchaseMovements[l] =
         Cardinality(UnitsOf({i \in ItemIds : stage[i] = "RECEIVED" /\ productListing[i] = l}))
    /\ reservedStock[l] <= currentStock[l]

\* How far share a of an amount is from line i's exact proportion of it.
Deviation(i, a, amount) ==
  LET off == a * document[DocOf[i]].merchandise - cost[i].total * amount
  IN IF off < 0 THEN -off ELSE off

\* The shares use up the amount, and no penny moved from one line to another
\* would bring them closer to proportion.
SharedOut(d, share, amount) ==
  /\ amount = SumFunction(share)
  /\ \A i, j \in LinesOf(d) : i # j =>
       Deviation(i, share[i], amount) + Deviation(j, share[j], amount)
         <= Deviation(i, share[i] - 1, amount) + Deviation(j, share[j] + 1, amount)

\* What the lines of a document cost adds up to what was paid for it, to the
\* penny, after any amendment; shipping and discount are shared out completely
\* and as nearly in proportion as whole pennies allow.
CostsReconcile ==
  \A d \in imported :
    /\ document[d].paid = SumFunction([i \in LinesOf(d) |-> cost[i].final])
    /\ SharedOut(d, [i \in LinesOf(d) |-> cost[i].shipping], document[d].shipping)
    /\ SharedOut(d, [i \in LinesOf(d) |-> cost[i].discount], document[d].discount)

\* Once a line has been received, what it was, cost and became is history: only
\* its return to the supplier is added, and its document's totals are closed.
ReceivedHistoryKept ==
  [][\A i \in ItemIds : stage[i] \in {"RECEIVED", "RETURNED"} =>
       /\ quantity'[i] = quantity[i] /\ cost'[i] = cost[i]
       /\ productListing'[i] = productListing[i] /\ disposition'[i] = disposition[i]
       /\ document'[DocOf[i]] = document[DocOf[i]]
       /\ stage'[i] \in {stage[i], "RETURNED"}]_purchasesVars
=============================================================================
