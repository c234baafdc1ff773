---------------------------- MODULE PurchasesProofs ----------------------------
(***************************************************************************)
(* What holds of a purchase for any number of documents, lines and         *)
(* listings: received lines are history, they are the stock that came in,  *)
(* and every document adds up.  The first two rest on which lines an       *)
(* operation can reach: every mutation but a return works on PENDING       *)
(* lines only, an amendment on a document that has no other kind.  The     *)
(* last rests on sums: the remainders of a division add up to as many      *)
(* pennies as are left over, and ranks hand out exactly that many.         *)
(***************************************************************************)
EXTENDS Purchases, FiniteSetTheorems, TLAPS

\* The columns that the operations read; the money columns are only carried.
RowsOK ==
  /\ InventoryTypeOK
  /\ DOMAIN document = Docs
  /\ quantity \in [ItemIds -> Nat]
  /\ productListing \in [ItemIds -> Listings \union {NoListing}]
  /\ stage \in [ItemIds -> Stages]
  /\ purchaseMovements \in [Listings -> Int]

\* A line exists with its document, and what was received has a NEW listing.
LinesOK ==
  \A i \in ItemIds : /\ stage[i] # "ABSENT" => DocOf[i] \in imported
                     /\ stage[i] = "RECEIVED" => productListing[i] \in NewListings

PurchasesInv == RowsOK /\ LinesOK /\ ReceiptsMatchMovements

-----------------------------------------------------------------------------
(* Units.                                                                  *)

UnitsIn(amounts, lines) == UNION {{i} \X (1..amounts[i]) : i \in lines}
Count(amounts, lines) == Cardinality(UnitsIn(amounts, lines))
SameAmounts(before, after, lines) == \A i \in lines : after[i] = before[i]

LEMMA UnitsFinite ==
  ASSUME NEW amounts \in [ItemIds -> Nat], NEW lines \in SUBSET ItemIds
  PROVE  IsFiniteSet(UnitsIn(amounts, lines)) /\ Count(amounts, lines) \in Nat
<1> DEFINE unitsOf == [i \in lines |-> {i} \X (1..amounts[i])]
           parts == {{i} \X (1..amounts[i]) : i \in lines}
<1>1. IsFiniteSet(lines)
  BY PurchasesAssumption, FS_Subset
<1>2. unitsOf \in Surjection(lines, parts)
  BY DEF Surjection
<1>3. IsFiniteSet(parts)
  <2> HIDE DEF unitsOf, parts
  <2> QED BY <1>1, <1>2, FS_Surjection
<1>4. ASSUME NEW part \in parts PROVE IsFiniteSet(part)
  <2>1. PICK i \in lines : part = {i} \X (1..amounts[i])
    OBVIOUS
  <2>2. IsFiniteSet({i}) /\ IsFiniteSet(1..amounts[i])
    <3> DEFINE n == amounts[i]
    <3>1. n \in Nat
      OBVIOUS
    <3> HIDE DEF n
    <3>2. IsFiniteSet(1..n)
      BY <3>1, FS_Interval
    <3>3. IsFiniteSet({i})
      BY FS_Singleton
    <3> QED BY <3>2, <3>3 DEF n
  <2> QED BY <2>1, <2>2, FS_Product
<1>5. IsFiniteSet(UNION parts)
  <2> HIDE DEF parts
  <2> QED BY <1>3, <1>4, FS_UNION
<1> QED BY <1>5, FS_CardinalityType DEF UnitsIn, Count

LEMMA CountOne ==
  ASSUME NEW amounts \in [ItemIds -> Nat], NEW i \in ItemIds
  PROVE  Count(amounts, {i}) = amounts[i]
<1> DEFINE n == amounts[i]
<1>1. UnitsIn(amounts, {i}) = {i} \X (1..n)
  BY DEF UnitsIn
<1>2. IsFiniteSet({i}) /\ Cardinality({i}) = 1
  BY FS_Singleton
<1>3. n \in Nat /\ IsFiniteSet(1..n) /\ Cardinality(1..n) = n
  BY FS_Interval
<1>4. Cardinality({i} \X (1..n)) = Cardinality({i}) * Cardinality(1..n)
  BY <1>2, <1>3, FS_Product, Zenon
<1>5. Cardinality({i}) * Cardinality(1..n) = n
  <2> DEFINE one == Cardinality({i})
             many == Cardinality(1..n)
  <2>1. one = 1 /\ many = n
    BY <1>2, <1>3
  <2> HIDE DEF one, many, n
  <2>2. one * many = n
    BY <1>3, <2>1
  <2> QED BY <2>2 DEF one, many
<1> QED BY <1>1, <1>4, <1>5, Zenon DEF Count

LEMMA CountSame ==
  ASSUME NEW before, NEW after, NEW lines, SameAmounts(before, after, lines)
  PROVE  Count(after, lines) = Count(before, lines)
<1>1. UnitsIn(after, lines) = UnitsIn(before, lines)
  BY DEF UnitsIn, SameAmounts
<1> QED BY <1>1, Zenon DEF Count

LEMMA CountBoth ==
  ASSUME NEW amounts \in [ItemIds -> Nat], NEW some \in SUBSET ItemIds, NEW others \in SUBSET ItemIds,
         some \intersect others = {}
  PROVE  Count(amounts, some \union others) = Count(amounts, some) + Count(amounts, others)
<1> DEFINE A == UnitsIn(amounts, some)
           B == UnitsIn(amounts, others)
           C == UnitsIn(amounts, some \union others)
<1>1. C = A \union B /\ A \intersect B = {}
  BY DEF UnitsIn
<1>2. IsFiniteSet(A) /\ IsFiniteSet(B)
  BY UnitsFinite
<1>3. Cardinality(C) = Cardinality(A) + Cardinality(B)
  <2> HIDE DEF A, B, C
  <2>1. Cardinality(A \union B) = Cardinality(A) + Cardinality(B) - Cardinality(A \intersect B)
    BY <1>2, FS_Union, Zenon
  <2>2. Cardinality(A) \in Nat /\ Cardinality(B) \in Nat
    BY <1>2, FS_CardinalityType
  <2>3. Cardinality(A \intersect B) = 0
    BY <1>1, FS_EmptySet, Zenon
  <2>4. Cardinality(C) = Cardinality(A \union B)
    BY <1>1, Zenon
  <2> QED BY <2>1, <2>2, <2>3, <2>4
<1> QED BY <1>3, Zenon DEF Count

-----------------------------------------------------------------------------
(* Which lines a step reaches.                                             *)

Received(i) == stage[i] \in {"RECEIVED", "RETURNED"}

Undisturbed(i) ==
  /\ quantity'[i] = quantity[i] /\ cost'[i] = cost[i]
  /\ productListing'[i] = productListing[i] /\ disposition'[i] = disposition[i]
  /\ document'[DocOf[i]] = document[DocOf[i]]
  /\ stage'[i] \in {stage[i], "RETURNED"}

HistoryKept == \A i \in ItemIds : Received(i) => Undisturbed(i)

\* A line is PENDING, and its listing moved to, before it is received; everything
\* else leaves the received lines and the movements as they are.
StockArrives ==
  \E lines \in SUBSET ItemIds, l \in NewListings :
     ReceiveLines(lines, l) /\ (\A i \in lines : productListing[i] = l)

StockStays ==
  /\ UNCHANGED purchaseMovements
  /\ \A i \in ItemIds : stage'[i] = "RECEIVED" <=> stage[i] = "RECEIVED"

StockMoves == StockStays \/ StockArrives \/ \E i \in ItemIds : returnPurchaseItem(i)

\* A new document has no line that was received.
LEMMA ImportMoves ==
  ASSUME RowsOK, LinesOK, NEW d \in Docs, ImportDocument(d)
  PROVE  HistoryKept /\ StockStays /\ RowsOK' /\ LinesOK'
<1> USE PurchasesAssumption DEF RowsOK
<1>1. PICK stated \in [LinesOf(d) -> LineCosts], extra \in Extras,
           named \in [LinesOf(d) -> SetNumbers \union {NoSetNumber}],
           linked \in [LinesOf(d) -> {l \in Listings : Exists(l)} \union {NoListing}] :
        /\ d \notin imported
        /\ imported' = imported \union {d}
        /\ Recalculate(d, [i \in LinesOf(d) |-> stated[i].quantity], [i \in LinesOf(d) |-> stated[i].unit],
                       [i \in LinesOf(d) |-> stated[i].total], extra)
        /\ sourceSetNumber' = [i \in ItemIds |-> IF DocOf[i] = d THEN named[i] ELSE sourceSetNumber[i]]
        /\ productListing' = [i \in ItemIds |-> IF DocOf[i] = d THEN linked[i] ELSE productListing[i]]
        /\ stage' = [i \in ItemIds |-> IF DocOf[i] = d THEN "PENDING" ELSE stage[i]]
        /\ UNCHANGED <<disposition, purchaseMovements, stockVars>>
  BY Zenon DEF ImportDocument
<1>2. \A i \in ItemIds : DocOf[i] = d => stage[i] = "ABSENT"
  BY <1>1 DEF LinesOK
<1>3. /\ quantity' = [i \in ItemIds |-> IF DocOf[i] = d THEN stated[i].quantity ELSE quantity[i]]
      /\ \A i \in ItemIds : DocOf[i] # d => cost'[i] = cost[i]
      /\ DOMAIN document' = Docs
      /\ \A e \in Docs : e # d => document'[e] = document[e]
  BY <1>1 DEF Recalculate, LinesOf
<1>4. HistoryKept
  <2> SUFFICES ASSUME NEW i \in ItemIds, Received(i) PROVE Undisturbed(i)
    BY DEF HistoryKept
  <2>1. DocOf[i] # d /\ DocOf[i] \in Docs
    BY <1>2 DEF Received
  <2> QED BY <1>1, <1>3, <2>1 DEF Undisturbed
<1>5. StockStays
  BY <1>1, <1>2 DEF StockStays
<1>6. quantity' \in [ItemIds -> Nat]
  <2>1. \A i \in LinesOf(d) : stated[i].quantity \in Nat
    OBVIOUS
  <2> QED BY <1>3, <2>1 DEF LinesOf
<1>7. productListing' \in [ItemIds -> Listings \union {NoListing}]
  BY <1>1 DEF LinesOf
<1>8. stage' \in [ItemIds -> Stages]
  BY <1>1 DEF Stages
<1>9. InventoryTypeOK'
  BY <1>1 DEF InventoryTypeOK, stockVars
<1>10. LinesOK'
  BY <1>1, <1>2 DEF LinesOK
<1> QED BY <1>1, <1>3, <1>4, <1>5, <1>6, <1>7, <1>8, <1>9, <1>10

\* A decision on a group finds only PENDING lines in it.
LEMMA ReviewMoves ==
  ASSUME RowsOK, LinesOK, NEW group \in SUBSET ItemIds,
         \/ \E l \in Listings \union {NoListing} : resolveReviewGroup(group, l)
         \/ \E chosen \in {"INVENTORY", "NON_INVENTORY"} : setReviewGroupDisposition(group, chosen)
  PROVE  HistoryKept /\ StockStays /\ RowsOK' /\ LinesOK'
<1>1. /\ \A i \in group : stage[i] = "PENDING"
      /\ \A i \in ItemIds \ group : productListing'[i] = productListing[i] /\ disposition'[i] = disposition[i]
      /\ productListing' \in [ItemIds -> Listings \union {NoListing}]
      /\ UNCHANGED <<costVars, stage, purchaseMovements, stockVars>>
  BY DEF resolveReviewGroup, setReviewGroupDisposition, RowsOK
<1>2. HistoryKept
  BY <1>1 DEF HistoryKept, Received, Undisturbed, costVars
<1>3. StockStays
  BY <1>1 DEF StockStays
<1>4. RowsOK'
  BY <1>1 DEF RowsOK, InventoryTypeOK, costVars, stockVars
<1>5. LinesOK'
  BY <1>1 DEF LinesOK, costVars
<1> QED BY <1>2, <1>3, <1>4, <1>5

\* What an amendment recalculates is a document of PENDING lines.
LEMMA AmendMoves ==
  ASSUME RowsOK, LinesOK, NEW i \in ItemIds, NEW q \in 1..MaxQuantity, NEW unit, NEW name,
         amendReviewLine(i, q, unit, name)
  PROVE  HistoryKept /\ StockStays /\ RowsOK' /\ LinesOK'
<1> USE PurchasesAssumption DEF RowsOK
<1>1. /\ stage[i] = "PENDING"
      /\ productListing' = [productListing EXCEPT ![i] = IF name = sourceSetNumber[i] THEN @ ELSE NoListing]
      /\ UNCHANGED <<imported, disposition, stage, purchaseMovements, stockVars>>
  BY DEF amendReviewLine
<1>2. \/ UNCHANGED <<document, quantity, cost>>
      \/ /\ \A j \in ItemIds : DocOf[j] = DocOf[i] => stage[j] = "PENDING"
         /\ quantity' = [j \in ItemIds |-> IF DocOf[j] = DocOf[i] THEN AmendedQuantity(i, q)[j] ELSE quantity[j]]
         /\ \A j \in ItemIds : DocOf[j] # DocOf[i] => cost'[j] = cost[j]
         /\ DOMAIN document' = Docs
         /\ \A e \in Docs : e # DocOf[i] => document'[e] = document[e]
  BY DEF amendReviewLine, CostAmendable, LinesOf, Recalculate
<1>3. HistoryKept
  <2> SUFFICES ASSUME NEW j \in ItemIds, Received(j) PROVE Undisturbed(j)
    BY DEF HistoryKept
  <2>1. j # i /\ stage[j] # "PENDING" /\ DocOf[j] \in Docs
    BY <1>1 DEF Received
  <2>2. quantity'[j] = quantity[j] /\ cost'[j] = cost[j] /\ document'[DocOf[j]] = document[DocOf[j]]
    BY <1>2, <2>1
  <2> QED BY <1>1, <2>1, <2>2 DEF Undisturbed
<1>4. StockStays
  BY <1>1 DEF StockStays
<1>5. quantity' \in [ItemIds -> Nat] /\ DOMAIN document' = Docs
  <2>1. \A j \in LinesOf(DocOf[i]) : AmendedQuantity(i, q)[j] \in Nat
    BY DEF AmendedQuantity, LinesOf
  <2> QED BY <1>2, <2>1 DEF LinesOf
<1>6. InventoryTypeOK'
  BY <1>1 DEF InventoryTypeOK, stockVars
<1>7. LinesOK'
  BY <1>1 DEF LinesOK
<1> QED BY <1>1, <1>3, <1>4, <1>5, <1>6, <1>7

\* Receiving reaches PENDING lines only, whether of one line or of a group.
LEMMA ReceiveMoves ==
  ASSUME RowsOK, LinesOK, NEW lines \in SUBSET ItemIds, NEW l, ReceiveLines(lines, l),
         \A i \in lines : productListing[i] = l
  PROVE  HistoryKept /\ StockArrives /\ RowsOK' /\ LinesOK'
<1> USE PurchasesAssumption, InventoryAssumption DEF RowsOK
<1> DEFINE n == Cardinality(UnitsOf(lines))
<1>1. /\ \A i \in lines : stage[i] = "PENDING"
      /\ l \in NewListings /\ l \in Listings
      /\ stage' = [i \in ItemIds |-> IF i \in lines THEN "RECEIVED" ELSE stage[i]]
      /\ PurchaseMovement(l, n)
      /\ currentStock[l] + n <= MaxStock
      /\ UNCHANGED <<costVars, linkVars>>
  BY DEF ReceiveLines, Listings
<1>2. HistoryKept
  BY <1>1 DEF HistoryKept, Received, Undisturbed, costVars, linkVars
<1>3. StockArrives
  BY <1>1 DEF StockArrives
<1>4. n \in Nat
  <2>1. UnitsOf(lines) = UnitsIn(quantity, lines)
    BY DEF UnitsOf, UnitsIn
  <2> QED BY <2>1, UnitsFinite DEF Count
<1>5. InventoryTypeOK' /\ purchaseMovements' \in [Listings -> Int]
  <2> HIDE DEF n
  <2>1. currentStock[l] + n \in 0..MaxStock /\ purchaseMovements[l] + n \in Int
    BY <1>1, <1>4 DEF InventoryTypeOK
  <2> QED BY <1>1, <2>1 DEF PurchaseMovement, InventoryTypeOK
<1>6. stage' \in [ItemIds -> Stages]
  BY <1>1 DEF Stages
<1>7. RowsOK'
  BY <1>1, <1>5, <1>6 DEF costVars, linkVars
<1>8. LinesOK'
  BY <1>1 DEF LinesOK, costVars, linkVars
<1> QED BY <1>2, <1>3, <1>7, <1>8

\* A line goes back once, as it was received.
LEMMA ReturnMoves ==
  ASSUME RowsOK, LinesOK, NEW i \in ItemIds, returnPurchaseItem(i)
  PROVE  HistoryKept /\ RowsOK' /\ LinesOK'
<1> USE PurchasesAssumption, InventoryAssumption DEF RowsOK
<1> DEFINE l == productListing[i]
           n == quantity[i]
<1>1. l \in NewListings /\ l \in Listings /\ n \in Nat
  BY DEF returnPurchaseItem, LinesOK, Listings
<1>2. /\ stage[i] = "RECEIVED"
      /\ currentStock[l] - n >= reservedStock[l]
      /\ stage' = [stage EXCEPT ![i] = "RETURNED"]
      /\ PurchaseMovement(l, -n)
      /\ UNCHANGED <<costVars, linkVars>>
  BY DEF returnPurchaseItem
<1>3. HistoryKept
  BY <1>2 DEF HistoryKept, Received, Undisturbed, costVars, linkVars
<1>4. InventoryTypeOK' /\ purchaseMovements' \in [Listings -> Int]
  <2> HIDE DEF n, l
  <2>1. currentStock[l] + -n \in 0..MaxStock /\ purchaseMovements[l] + -n \in Int
    BY <1>1, <1>2 DEF InventoryTypeOK
  <2> QED BY <1>2, <2>1 DEF PurchaseMovement, InventoryTypeOK
<1>5. RowsOK' /\ LinesOK'
  BY <1>2, <1>4 DEF costVars, linkVars, Stages, LinesOK
<1> QED BY <1>3, <1>5

\* Orders and staff leave the purchase alone and the reservations within the stock.
LEMMA ListingMoves ==
  ASSUME RowsOK, LinesOK, ListingsNext
  PROVE  /\ HistoryKept /\ StockStays /\ RowsOK' /\ LinesOK'
         /\ (\A l \in Listings : reservedStock[l] <= currentStock[l])
              => (\A l \in Listings : reservedStock'[l] <= currentStock'[l])
<1> USE DEF RowsOK
<1>1. UNCHANGED <<imported, document, quantity, cost, productListing, disposition, stage, purchaseMovements>>
  BY DEF ListingsNext, purchaseVars, costVars, linkVars
<1>2. HistoryKept /\ StockStays /\ LinesOK'
  BY <1>1 DEF HistoryKept, StockStays, Received, Undisturbed, LinesOK
<1> DEFINE Kept == /\ InventoryTypeOK'
                   /\ (\A l \in Listings : reservedStock[l] <= currentStock[l])
                        => (\A l \in Listings : reservedStock'[l] <= currentStock'[l])
<1>3. ASSUME NEW l \in Listings, ReserveItems(OneOf(l)) PROVE Kept
  <2>1. reservedStock[l] + 1 <= currentStock[l]
    BY <1>3 DEF ReserveItems, Lines, OneOf, InventoryTypeOK
  <2>2. reservedStock' = [k \in Listings |-> IF k = l THEN reservedStock[k] + 1 ELSE reservedStock[k]]
    BY <1>3 DEF ReserveItems, OneOf, InventoryTypeOK
  <2>3. reservedStock' \in [Listings -> 0..MaxStock]
    BY <2>1, <2>2, InventoryAssumption DEF InventoryTypeOK
  <2> QED BY <1>3, <2>1, <2>2, <2>3 DEF ReserveItems, InventoryTypeOK
<1>4. ASSUME NEW l \in Listings, ReleaseItems(OneOf(l)) PROVE Kept
  <2>1. reservedStock[l] >= 1
    BY <1>4 DEF ReleaseItems, Lines, OneOf, InventoryTypeOK
  <2>2. reservedStock' = [k \in Listings |-> IF k = l THEN reservedStock[k] - 1 ELSE reservedStock[k]]
    BY <1>4 DEF ReleaseItems, OneOf, InventoryTypeOK
  <2>3. reservedStock' \in [Listings -> 0..MaxStock]
    BY <2>1, <2>2, InventoryAssumption DEF InventoryTypeOK
  <2> QED BY <1>4, <2>1, <2>2, <2>3 DEF ReleaseItems, InventoryTypeOK
<1>5. ASSUME NEW l \in Listings, SellItems(OneOf(l)) PROVE Kept
  <2>1. reservedStock[l] >= 1 /\ currentStock[l] >= 1
    BY <1>5 DEF SellItems, Lines, OneOf, InventoryTypeOK
  <2>2. /\ reservedStock' = [k \in Listings |-> IF k = l THEN reservedStock[k] - 1 ELSE reservedStock[k]]
        /\ currentStock' = [k \in Listings |-> IF k = l THEN currentStock[k] - 1 ELSE currentStock[k]]
        /\ orderMovements' = [k \in Listings |-> IF k = l THEN orderMovements[k] - 1 ELSE orderMovements[k]]
    BY <1>5 DEF SellItems, OneOf, InventoryTypeOK
  <2>3. /\ reservedStock' \in [Listings -> 0..MaxStock]
        /\ currentStock' \in [Listings -> 0..MaxStock]
        /\ orderMovements' \in [Listings -> Int]
    BY <2>1, <2>2, InventoryAssumption DEF InventoryTypeOK
  <2>4. usedLifecycle' \in [Listings -> UsedLifecycles \union {"NONE"}]
    BY <1>5 DEF SellItems, UsedLifecycles, InventoryTypeOK
  <2>5. UNCHANGED <<active, reactivating, adminMovements>>
    BY <1>5 DEF SellItems
  <2>6. InventoryTypeOK'
    BY <2>3, <2>4, <2>5 DEF InventoryTypeOK
  <2>7. \A k \in Listings : reservedStock[k] <= currentStock[k] => reservedStock'[k] <= currentStock'[k]
    BY <2>2 DEF InventoryTypeOK
  <2> QED BY <2>6, <2>7
<1>6. ASSUME NEW l \in Listings, DeactivateProduct(l) \/ ReactivateProduct(l) PROVE Kept
  BY <1>6 DEF DeactivateProduct, ReactivateProduct, InventoryTypeOK
<1>7. Kept
  BY <1>3, <1>4, <1>5, <1>6 DEF ListingsNext
<1> QED BY <1>1, <1>2, <1>7

LEMMA GroupsAreLines == ASSUME NEW group \in Groups PROVE group \in SUBSET ItemIds
BY DEF Groups, GroupOf, Imported

\* Every step leaves history alone and moves stock in one of three ways.
LEMMA NextMoves ==
  ASSUME PurchasesInv, [PurchasesNext]_purchasesVars
  PROVE  /\ HistoryKept /\ StockMoves /\ RowsOK' /\ LinesOK'
         /\ \A l \in Listings : reservedStock'[l] <= currentStock'[l]
<1> DEFINE Goal == /\ HistoryKept /\ StockMoves /\ RowsOK' /\ LinesOK'
                   /\ \A l \in Listings : reservedStock'[l] <= currentStock'[l]
<1>0. RowsOK /\ LinesOK /\ \A l \in Listings : reservedStock[l] <= currentStock[l]
  BY DEF PurchasesInv, ReceiptsMatchMovements
<1>1. ASSUME HistoryKept, StockStays, RowsOK', LinesOK', UNCHANGED <<reservedStock, currentStock>>
      PROVE  Goal
  BY <1>0, <1>1 DEF StockMoves
<1>2. ASSUME NEW d \in Docs, ImportDocument(d) PROVE Goal
  <2>1. UNCHANGED <<reservedStock, currentStock>>
    BY <1>2, Zenon DEF ImportDocument, stockVars
  <2> QED BY <1>0, <1>1, <1>2, <2>1, ImportMoves
<1>3. ASSUME NEW lines \in SUBSET ItemIds, NEW l, ReceiveLines(lines, l),
             \A i \in lines : productListing[i] = l
      PROVE  Goal
  <2>1. HistoryKept /\ StockArrives /\ RowsOK' /\ LinesOK'
    BY <1>0, <1>3, ReceiveMoves
  <2> DEFINE n == Cardinality(UnitsOf(lines))
  <2>2. n \in Nat
    <3>1. UnitsOf(lines) = UnitsIn(quantity, lines)
      BY DEF UnitsOf, UnitsIn
    <3> QED BY <1>0, <3>1, UnitsFinite DEF Count, RowsOK
  <2>3. currentStock' = [currentStock EXCEPT ![l] = @ + n] /\ UNCHANGED reservedStock
    BY <1>3 DEF ReceiveLines, PurchaseMovement
  <2>4. \A k \in Listings : reservedStock'[k] <= currentStock'[k]
    <3> HIDE DEF n
    <3> QED BY <1>0, <2>2, <2>3, InventoryAssumption DEF RowsOK, InventoryTypeOK
  <2> QED BY <2>1, <2>4 DEF StockMoves
<1>4. ASSUME NEW group \in Groups, ReviewNext(group) PROVE Goal
  <2>0. group \in SUBSET ItemIds
    BY GroupsAreLines
  <2>1. CASE \/ \E l \in Listings \union {NoListing} : resolveReviewGroup(group, l)
             \/ \E chosen \in {"INVENTORY", "NON_INVENTORY"} : setReviewGroupDisposition(group, chosen)
    <3>1. HistoryKept /\ StockStays /\ RowsOK' /\ LinesOK'
      BY <1>0, <2>0, <2>1, ReviewMoves
    <3>2. UNCHANGED <<reservedStock, currentStock>>
      BY <2>1 DEF resolveReviewGroup, setReviewGroupDisposition, stockVars
    <3> QED BY <1>1, <3>1, <3>2
  <2>2. ASSUME NEW l \in Listings, receiveReviewGroup(group, l) PROVE Goal
    <3> DEFINE pending == {i \in group : stage[i] = "PENDING"}
    <3>1. ReceiveLines(pending, l) /\ \A i \in pending : productListing[i] = l
      BY <2>2 DEF receiveReviewGroup
    <3>2. pending \in SUBSET ItemIds
      BY <2>0
    <3> HIDE DEF pending, Goal
    <3> QED BY <1>3, <3>1, <3>2
  <2> QED BY <1>4, <2>1, <2>2 DEF ReviewNext
<1>5. ASSUME NEW i \in ItemIds, LineNext(i) PROVE Goal
  <2>1. ASSUME NEW q \in 1..MaxQuantity, NEW unit \in UnitCosts, NEW name \in SetNumbers \union {NoSetNumber},
               amendReviewLine(i, q, unit, name)
        PROVE  Goal
    <3>1. HistoryKept /\ StockStays /\ RowsOK' /\ LinesOK'
      BY <1>0, <2>1, AmendMoves
    <3>2. UNCHANGED <<reservedStock, currentStock>>
      BY <2>1 DEF amendReviewLine, stockVars
    <3> QED BY <1>1, <3>1, <3>2
  <2>2. CASE receivePurchaseItem(i)
    <3>1. ReceiveLines({i}, productListing[i]) /\ {i} \in SUBSET ItemIds
      BY <2>2 DEF receivePurchaseItem
    <3> HIDE DEF Goal
    <3> QED BY <1>3, <3>1
  <2>3. CASE returnPurchaseItem(i)
    <3>1. HistoryKept /\ RowsOK' /\ LinesOK'
      BY <1>0, <2>3, ReturnMoves
    <3>2. \A k \in Listings : reservedStock'[k] <= currentStock'[k]
      <4> DEFINE l == productListing[i]
                 n == quantity[i]
      <4>1. n \in Nat /\ currentStock[l] - n >= reservedStock[l]
        BY <1>0, <2>3 DEF returnPurchaseItem, RowsOK
      <4>2. currentStock' = [currentStock EXCEPT ![l] = @ + -n] /\ UNCHANGED reservedStock
        BY <2>3 DEF returnPurchaseItem, PurchaseMovement
      <4> HIDE DEF l, n
      <4> QED BY <1>0, <4>1, <4>2, InventoryAssumption DEF RowsOK, InventoryTypeOK
    <3> QED BY <2>3, <3>1, <3>2 DEF StockMoves
  <2> QED BY <1>5, <2>1, <2>2, <2>3 DEF LineNext
<1>6. CASE ListingsNext
  BY <1>0, <1>6, ListingMoves DEF StockMoves
<1>7. CASE UNCHANGED purchasesVars
  <2>1. UNCHANGED <<imported, document, quantity, cost, productListing, disposition, stage, purchaseMovements, stockVars>>
    BY <1>7 DEF purchasesVars, purchaseVars, costVars, linkVars
  <2>2. HistoryKept /\ StockStays
    BY <2>1 DEF HistoryKept, StockStays, Received, Undisturbed
  <2>3. RowsOK' /\ LinesOK'
    BY <1>0, <2>1 DEF RowsOK, LinesOK, InventoryTypeOK, stockVars
  <2>4. UNCHANGED <<reservedStock, currentStock>>
    BY <2>1 DEF stockVars
  <2> QED BY <1>1, <2>2, <2>3, <2>4
<1> QED BY <1>2, <1>4, <1>5, <1>6, <1>7 DEF PurchasesNext

-----------------------------------------------------------------------------
(* The stock that came in.                                                 *)

InStock(stages, listings, l) == {i \in ItemIds : stages[i] = "RECEIVED" /\ listings[i] = l}

LEMMA ReceiptsCounted ==
  ASSUME NEW l
  PROVE  LET before == Count(quantity, InStock(stage, productListing, l))
             after == Count(quantity', InStock(stage', productListing', l))
             lines == {i \in ItemIds : stage[i] = "RECEIVED" /\ productListing[i] = l}
         IN Cardinality(UnitsOf(lines)) = before /\ Cardinality(UnitsOf(lines))' = after
BY DEF Count, UnitsIn, UnitsOf, InStock

\* Received lines keep their quantity and listing, so a listing's receipts move
\* only with the lines that arrive and the line that leaves.
LEMMA ReceiptsStay ==
  ASSUME PurchasesInv, RowsOK', HistoryKept, StockMoves, NEW l \in Listings
  PROVE  purchaseMovements'[l] = Count(quantity', InStock(stage', productListing', l))
<1> DEFINE S == InStock(stage, productListing, l)
           S2 == InStock(stage', productListing', l)
<1>0. /\ RowsOK /\ LinesOK
      /\ purchaseMovements[l] = Count(quantity, S) /\ purchaseMovements[l] \in Int
  BY ReceiptsCounted DEF PurchasesInv, ReceiptsMatchMovements, RowsOK
<1>1. quantity \in [ItemIds -> Nat] /\ quantity' \in [ItemIds -> Nat] /\ S \in SUBSET ItemIds
  BY <1>0 DEF RowsOK, InStock
<1>2. SameAmounts(quantity, quantity', S) /\ \A i \in S : productListing'[i] = l
  BY DEF HistoryKept, Received, Undisturbed, SameAmounts, InStock
<1>3. Count(quantity', S) = Count(quantity, S)
  BY <1>2, CountSame
<1>4. CASE StockStays
  <2>1. S2 = S
    BY <1>2, <1>4 DEF StockStays, HistoryKept, Received, Undisturbed, InStock
  <2> HIDE DEF S, S2
  <2> QED BY <1>0, <1>3, <1>4, <2>1 DEF StockStays, S2
<1>5. ASSUME NEW lines \in SUBSET ItemIds, NEW k \in NewListings, ReceiveLines(lines, k),
             \A i \in lines : productListing[i] = k
      PROVE  purchaseMovements'[l] = Count(quantity', S2)
  <2> DEFINE n == Cardinality(UnitsOf(lines))
  <2>1. /\ \A i \in lines : stage[i] = "PENDING"
        /\ stage' = [i \in ItemIds |-> IF i \in lines THEN "RECEIVED" ELSE stage[i]]
        /\ purchaseMovements' = [purchaseMovements EXCEPT ![k] = @ + n]
        /\ UNCHANGED <<quantity, productListing>>
    BY <1>5 DEF ReceiveLines, PurchaseMovement, costVars, linkVars
  <2>2. n = Count(quantity, lines)
    BY DEF UnitsOf, UnitsIn, Count
  <2>3. CASE l = k
    <3>1. S2 = S \union lines /\ S \intersect lines = {}
      BY <1>5, <2>1, <2>3 DEF InStock
    <3> HIDE DEF S, S2, n
    <3>2. Count(quantity, S \union lines) = Count(quantity, S) + Count(quantity, lines)
      BY <1>1, <3>1, CountBoth
    <3> QED BY <1>0, <2>1, <2>2, <2>3, <3>1, <3>2 DEF RowsOK
  <2>4. CASE l # k
    <3>1. S2 = S
      BY <1>5, <2>1, <2>4 DEF InStock
    <3> HIDE DEF S, S2, n
    <3> QED BY <1>0, <2>1, <2>4, <3>1 DEF RowsOK
  <2> QED BY <2>3, <2>4
<1>6. ASSUME NEW i \in ItemIds, returnPurchaseItem(i)
      PROVE  purchaseMovements'[l] = Count(quantity', S2)
  <2> DEFINE n == quantity[i]
  <2>1. /\ stage[i] = "RECEIVED"
        /\ stage' = [stage EXCEPT ![i] = "RETURNED"]
        /\ purchaseMovements' = [purchaseMovements EXCEPT ![productListing[i]] = @ + -n]
        /\ UNCHANGED <<quantity, productListing>>
    BY <1>6 DEF returnPurchaseItem, PurchaseMovement, costVars, linkVars
  <2>2. CASE l = productListing[i]
    <3>1. i \in S /\ S2 = S \ {i}
      BY <1>0, <2>1, <2>2 DEF InStock, RowsOK
    <3>2. purchaseMovements'[l] = purchaseMovements[l] + -n
      BY <1>0, <2>1, <2>2 DEF RowsOK
    <3>3. n \in Nat
      BY <1>1
    <3>4. S = S2 \union {i} /\ S2 \intersect {i} = {} /\ S2 \in SUBSET ItemIds
      BY <1>1, <3>1
    <3>5. Count(quantity, S2 \union {i}) = Count(quantity, S2) + Count(quantity, {i})
      <4> HIDE DEF S, S2
      <4> QED BY <1>1, <3>4, CountBoth
    <3>6. Count(quantity, {i}) = n /\ Count(quantity, S2) \in Nat
      <4> HIDE DEF S2
      <4> QED BY <1>1, <3>4, CountOne, UnitsFinite
    <3>7. Count(quantity, S) = Count(quantity, S2) + n
      <4> HIDE DEF S, S2, n
      <4> QED BY <3>4, <3>5, <3>6
    <3>8. \A m, s, t, x \in Int : m = s /\ s = t + x => m + -x = t
      OBVIOUS
    <3> HIDE DEF S, S2, n
    <3>9. purchaseMovements[l] + -n = Count(quantity, S2)
      BY <1>0, <3>3, <3>6, <3>7, <3>8
    <3> QED BY <2>1, <3>2, <3>9
  <2>3. CASE l # productListing[i]
    <3>1. S2 = S
      BY <1>0, <2>1, <2>3 DEF InStock, RowsOK
    <3> HIDE DEF S, S2, n
    <3> QED BY <1>0, <2>1, <2>3, <3>1 DEF RowsOK
  <2> QED BY <2>2, <2>3
<1> QED BY <1>4, <1>5, <1>6 DEF StockMoves, StockArrives

-----------------------------------------------------------------------------
LEMMA PurchasesInitInv == PurchasesInit => PurchasesInv
<1> SUFFICES ASSUME PurchasesInit PROVE PurchasesInv
  OBVIOUS
<1>1. RowsOK
  BY InventoryAssumption, PurchasesAssumption
     DEF PurchasesInit, InventoryInit, InventoryTypeOK, RowsOK, Stages, Listings, UsedLifecycles
<1>2. LinesOK
  BY DEF PurchasesInit, LinesOK
<1>3. ASSUME NEW l \in Listings
      PROVE  Cardinality(UnitsOf({i \in ItemIds : stage[i] = "RECEIVED" /\ productListing[i] = l})) = 0
  <2>1. UnitsOf({i \in ItemIds : stage[i] = "RECEIVED" /\ productListing[i] = l}) = {}
    BY DEF PurchasesInit, UnitsOf
  <2> QED BY <2>1, FS_EmptySet, Zenon
<1>4. ReceiptsMatchMovements
  <2>1. \A l \in Listings : purchaseMovements[l] = 0 /\ reservedStock[l] <= currentStock[l]
    BY <1>1 DEF PurchasesInit, InventoryInit, RowsOK, InventoryTypeOK
  <2> QED BY <1>3, <2>1, Zenon DEF ReceiptsMatchMovements
<1> QED BY <1>1, <1>2, <1>4 DEF PurchasesInv

LEMMA PurchasesNextInv == PurchasesInv /\ [PurchasesNext]_purchasesVars => PurchasesInv'
<1> SUFFICES ASSUME PurchasesInv, [PurchasesNext]_purchasesVars PROVE PurchasesInv'
  OBVIOUS
<1>1. /\ HistoryKept /\ StockMoves /\ RowsOK' /\ LinesOK'
      /\ \A l \in Listings : reservedStock'[l] <= currentStock'[l]
  BY NextMoves
<1>2. \A l \in Listings : purchaseMovements'[l] = Count(quantity', InStock(stage', productListing', l))
  BY <1>1, ReceiptsStay
<1>3. ReceiptsMatchMovements'
  BY <1>1, <1>2, ReceiptsCounted DEF ReceiptsMatchMovements
<1> QED BY <1>1, <1>3 DEF PurchasesInv

\* The rows keep their types, and received lines their documents and listings.
THEOREM PurchasesInductive == PurchasesSpec => []PurchasesInv
BY PurchasesInitInv, PurchasesNextInv, PTL DEF PurchasesSpec

\* The stock that purchases brought in is that of the lines still shown as
\* received, each counted once at the quantity and the listing it shows.
THEOREM ReceiptsAreStock == PurchasesSpec => []ReceiptsMatchMovements
<1>1. PurchasesInv => ReceiptsMatchMovements
  BY DEF PurchasesInv
<1> QED BY <1>1, PurchasesInductive, PTL

\* No review, amendment or import touches a line that was received, nor the
\* totals of its document.
THEOREM ReceivedStaysHistory == PurchasesSpec => ReceivedHistoryKept
<1>1. PurchasesInv /\ [PurchasesNext]_purchasesVars
        => [\A i \in ItemIds : stage[i] \in {"RECEIVED", "RETURNED"} =>
              /\ quantity'[i] = quantity[i] /\ cost'[i] = cost[i]
              /\ productListing'[i] = productListing[i] /\ disposition'[i] = disposition[i]
              /\ document'[DocOf[i]] = document[DocOf[i]]
              /\ stage'[i] \in {stage[i], "RETURNED"}]_purchasesVars
  BY NextMoves DEF HistoryKept, Received, Undisturbed
<1> QED BY <1>1, PurchasesInductive, PTL DEF PurchasesSpec, ReceivedHistoryKept

-----------------------------------------------------------------------------
(* Sums.  SumFunctionOnSet adds amounts up in an order that CHOOSE fixes;  *)
(* the sum is the same in any other.                                       *)

\* Induction over a finite set: what holds of a set whenever it holds of its proper
\* subsets holds, for there is no smallest exception.
LEMMA SmallerFirst ==
  ASSUME NEW S, IsFiniteSet(S), NEW A,
         \A T \in SUBSET S : (\A U \in SUBSET T : U # T => U \in A) => T \in A
  PROVE  S \in A
<1> SUFFICES ASSUME S \notin A PROVE FALSE
  OBVIOUS
<1> DEFINE B == {T \in FiniteSubsetsOf(S) : T \notin A}
           less == StrictSubsetOrdering(S)
<1>1. S \in B
  BY DEF FiniteSubsetsOf
<1>2. IsWellFoundedOn(less, FiniteSubsetsOf(S))
  BY FS_StrictSubsetOrderingWellFounded, Zenon
<1>3. PICK T \in B : \A U \in B : ~ (<<U, T>> \in less)
  <2>1. B \subseteq FiniteSubsetsOf(S) /\ B # {}
    BY <1>1
  <2> HIDE DEF B, less
  <2> QED BY <1>2, <2>1, WFMin
<1>4. PICK U \in SUBSET T : U # T /\ U \notin A
  BY <1>3 DEF FiniteSubsetsOf
<1>5. U \in B
  BY <1>3, <1>4, FS_Subset DEF FiniteSubsetsOf
<1>6. <<U, T>> \in less
  BY <1>3, <1>4, <1>5 DEF StrictSubsetOrdering, FiniteSubsetsOf
<1> QED BY <1>3, <1>5, <1>6

Chosen(S) == CHOOSE x \in S : TRUE
Adding(f, S, sum) ==
  sum = [T \in SUBSET S |-> IF T = {} THEN 0 ELSE f[Chosen(T)] + sum[T \ {Chosen(T)}]]
SumOf(f, S) == SumFunctionOnSet(f, S)
Rest(S) == S \ {Chosen(S)}
Unfolds(f, S) == SumOf(f, S) = IF S = {} THEN 0 ELSE f[Chosen(S)] + SumOf(f, Rest(S))

LEMMA SumIsAdding ==
  ASSUME NEW f, NEW S, \E sum : Adding(f, S, sum)
  PROVE  \E sum : Adding(f, S, sum) /\ SumOf(f, S) = sum[S]
BY DEF SumOf, SumFunctionOnSet, FoldFunctionOnSet, MapThenFoldSet, Adding, Chosen

LEMMA AddingIsOne ==
  ASSUME NEW f, NEW S, IsFiniteSet(S), NEW g, NEW h, Adding(f, S, g), Adding(f, S, h)
  PROVE  g[S] = h[S]
<1> DEFINE A == {T \in SUBSET S : g[T] = h[T]}
<1>1. ASSUME NEW T \in SUBSET S, \A U \in SUBSET T : U # T => U \in A
      PROVE  T \in A
  <2>1. /\ g[T] = IF T = {} THEN 0 ELSE f[Chosen(T)] + g[Rest(T)]
        /\ h[T] = IF T = {} THEN 0 ELSE f[Chosen(T)] + h[Rest(T)]
    BY DEF Adding, Rest
  <2>2. CASE T = {}
    BY <2>1, <2>2
  <2>3. CASE T # {}
    <3>1. Chosen(T) \in T
      BY <2>3 DEF Chosen
    <3>2. Rest(T) \in A
      BY <1>1, <3>1 DEF Rest
    <3> QED BY <2>1, <2>3, <3>2
  <2> QED BY <2>2, <2>3
<1>2. S \in A
  <2> HIDE DEF A
  <2> QED BY <1>1, SmallerFirst
<1> QED BY <1>2

LEMMA SumUnfolds ==
  ASSUME NEW f, NEW S, IsFiniteSet(S)
  PROVE  Unfolds(f, S)
<1> DEFINE A == {T \in SUBSET S : Unfolds(f, T)}
<1>1. ASSUME NEW T \in SUBSET S, \A U \in SUBSET T : U # T => U \in A
      PROVE  T \in A
  <2> DEFINE sum == [U \in SUBSET T |-> IF U # T THEN SumOf(f, U)
                                        ELSE IF T = {} THEN 0 ELSE f[Chosen(T)] + SumOf(f, Rest(T))]
  <2>1. ASSUME NEW U \in SUBSET T
        PROVE  sum[U] = IF U = {} THEN 0 ELSE f[Chosen(U)] + sum[U \ {Chosen(U)}]
    <3>1. U # {} => Chosen(U) \in U /\ Rest(U) \in SUBSET T /\ Rest(U) # T
      BY DEF Chosen, Rest
    <3>2. CASE U # T
      <4>1. Unfolds(f, U)
        BY <1>1, <3>2
      <4> QED BY <3>1, <3>2, <4>1 DEF Unfolds, Rest
    <3>3. CASE U = T
      BY <3>1, <3>3 DEF Rest
    <3> QED BY <3>2, <3>3
  <2>2. Adding(f, T, sum)
    <3>1. sum = [U \in SUBSET T |-> sum[U]]
      OBVIOUS
    <3> HIDE DEF sum
    <3> QED BY <2>1, <3>1 DEF Adding
  <2>3. PICK other : Adding(f, T, other) /\ SumOf(f, T) = other[T]
    <3> HIDE DEF sum
    <3> QED BY <2>2, SumIsAdding
  <2>4. SumOf(f, T) = sum[T]
    <3>1. IsFiniteSet(T)
      BY FS_Subset
    <3> HIDE DEF sum
    <3> QED BY <2>2, <2>3, <3>1, AddingIsOne
  <2> QED BY <2>4 DEF Unfolds
<1>2. S \in A
  <2> HIDE DEF A
  <2> QED BY <1>1, SmallerFirst
<1> QED BY <1>2

LEMMA SumType ==
  ASSUME NEW S, IsFiniteSet(S), NEW f, \A x \in S : f[x] \in Int
  PROVE  SumOf(f, S) \in Int
<1> DEFINE A == {T \in SUBSET S : SumOf(f, T) \in Int}
<1>1. ASSUME NEW T \in SUBSET S, \A U \in SUBSET T : U # T => U \in A
      PROVE  T \in A
  <2>1. Unfolds(f, T)
    BY FS_Subset, SumUnfolds
  <2>2. T # {} => Chosen(T) \in T /\ Rest(T) \in A
    BY <1>1 DEF Chosen, Rest
  <2> QED BY <2>1, <2>2 DEF Unfolds
<1>2. S \in A
  <2> HIDE DEF A
  <2> QED BY <1>1, SmallerFirst
<1> QED BY <1>2

LEMMA SumNatural ==
  ASSUME NEW S, IsFiniteSet(S), NEW f, \A x \in S : f[x] \in Nat
  PROVE  SumOf(f, S) \in Nat
<1> DEFINE A == {T \in SUBSET S : SumOf(f, T) \in Nat}
<1>1. ASSUME NEW T \in SUBSET S, \A U \in SUBSET T : U # T => U \in A
      PROVE  T \in A
  <2>1. Unfolds(f, T)
    BY FS_Subset, SumUnfolds
  <2>2. T # {} => Chosen(T) \in T /\ Rest(T) \in A
    BY <1>1 DEF Chosen, Rest
  <2> QED BY <2>1, <2>2 DEF Unfolds
<1>2. S \in A
  <2> HIDE DEF A
  <2> QED BY <1>1, SmallerFirst
<1> QED BY <1>2

\* Any element may be the first.
LEMMA SumRemove ==
  ASSUME NEW S, IsFiniteSet(S), NEW f, \A x \in S : f[x] \in Int, NEW e \in S
  PROVE  SumOf(f, S) = f[e] + SumOf(f, S \ {e})
<1> DEFINE A == {T \in SUBSET S : \A x \in T : SumOf(f, T) = f[x] + SumOf(f, T \ {x})}
<1>1. ASSUME NEW T \in SUBSET S, \A U \in SUBSET T : U # T => U \in A
      PROVE  T \in A
  <2> SUFFICES ASSUME NEW x \in T PROVE SumOf(f, T) = f[x] + SumOf(f, T \ {x})
    OBVIOUS
  <2> DEFINE c == Chosen(T)
  <2>1. c \in T
    BY DEF Chosen
  <2>2. SumOf(f, T) = f[c] + SumOf(f, T \ {c})
    BY FS_Subset, SumUnfolds DEF Unfolds, Rest
  <2>3. CASE x # c
    <3> DEFINE both == SumOf(f, T \ {x, c})
    <3>1. T \ {x} \in A /\ T \ {c} \in A
      BY <1>1, <2>1
    <3>2. (T \ {x}) \ {c} = T \ {x, c} /\ (T \ {c}) \ {x} = T \ {x, c}
      OBVIOUS
    <3>3. SumOf(f, T \ {x}) = f[c] + both /\ SumOf(f, T \ {c}) = f[x] + both
      BY <2>1, <2>3, <3>1, <3>2
    <3>4. f[x] \in Int /\ f[c] \in Int /\ both \in Int
      <4>1. IsFiniteSet(T \ {x, c})
        BY FS_Subset
      <4> QED BY <2>1, <4>1, SumType
    <3> HIDE DEF c, both
    <3> QED BY <2>2, <3>3, <3>4
  <2> QED BY <2>2, <2>3
<1>2. S \in A
  <2> HIDE DEF A
  <2> QED BY <1>1, SmallerFirst
<1> QED BY <1>2

LEMMA SumSame ==
  ASSUME NEW S, IsFiniteSet(S), NEW f, NEW g, \A x \in S : f[x] \in Int /\ g[x] = f[x]
  PROVE  SumOf(g, S) = SumOf(f, S)
<1> DEFINE A == {T \in SUBSET S : SumOf(g, T) = SumOf(f, T)}
<1>1. ASSUME NEW T \in SUBSET S, \A U \in SUBSET T : U # T => U \in A
      PROVE  T \in A
  <2>1. Unfolds(f, T) /\ Unfolds(g, T)
    BY FS_Subset, SumUnfolds
  <2>2. T # {} => Chosen(T) \in T /\ Rest(T) \in A
    BY <1>1 DEF Chosen, Rest
  <2> QED BY <2>1, <2>2 DEF Unfolds
<1>2. S \in A
  <2> HIDE DEF A
  <2> QED BY <1>1, SmallerFirst
<1> QED BY <1>2

LEMMA SumAdds ==
  ASSUME NEW S, IsFiniteSet(S), NEW f, NEW g, NEW h,
         \A x \in S : f[x] \in Int /\ g[x] \in Int /\ h[x] = f[x] + g[x]
  PROVE  SumOf(h, S) = SumOf(f, S) + SumOf(g, S)
<1> DEFINE A == {T \in SUBSET S : SumOf(h, T) = SumOf(f, T) + SumOf(g, T)}
<1>1. ASSUME NEW T \in SUBSET S, \A U \in SUBSET T : U # T => U \in A
      PROVE  T \in A
  <2>1. Unfolds(f, T) /\ Unfolds(g, T) /\ Unfolds(h, T)
    BY FS_Subset, SumUnfolds
  <2>2. ASSUME T # {} PROVE T \in A
    <3> DEFINE c == Chosen(T)
               R == Rest(T)
    <3>1. c \in T /\ R \in A
      BY <1>1, <2>2 DEF Chosen, Rest
    <3>2. SumOf(f, R) \in Int /\ SumOf(g, R) \in Int
      BY FS_Subset, SumType DEF Rest
    <3>3. f[c] \in Int /\ g[c] \in Int /\ h[c] = f[c] + g[c]
      BY <3>1
    <3>4. /\ SumOf(f, T) = f[c] + SumOf(f, R) /\ SumOf(g, T) = g[c] + SumOf(g, R)
          /\ SumOf(h, T) = h[c] + SumOf(h, R) /\ SumOf(h, R) = SumOf(f, R) + SumOf(g, R)
      BY <2>1, <2>2, <3>1 DEF Unfolds
    <3> HIDE DEF c, R
    <3> QED BY <3>2, <3>3, <3>4
  <2> QED BY <2>1, <2>2 DEF Unfolds
<1>2. S \in A
  <2> HIDE DEF A
  <2> QED BY <1>1, SmallerFirst
<1> QED BY <1>2

LEMMA SumScales ==
  ASSUME NEW S, IsFiniteSet(S), NEW f, NEW g, NEW k \in Int,
         \A x \in S : f[x] \in Int /\ g[x] = k * f[x]
  PROVE  SumOf(g, S) = k * SumOf(f, S)
<1> DEFINE A == {T \in SUBSET S : SumOf(g, T) = k * SumOf(f, T)}
<1>1. ASSUME NEW T \in SUBSET S, \A U \in SUBSET T : U # T => U \in A
      PROVE  T \in A
  <2>1. Unfolds(f, T) /\ Unfolds(g, T)
    BY FS_Subset, SumUnfolds
  <2>2. ASSUME T # {} PROVE T \in A
    <3> DEFINE c == Chosen(T)
               R == Rest(T)
    <3>1. c \in T /\ R \in A
      BY <1>1, <2>2 DEF Chosen, Rest
    <3>2. SumOf(f, R) \in Int
      BY FS_Subset, SumType DEF Rest
    <3>3. f[c] \in Int /\ g[c] = k * f[c]
      BY <3>1
    <3>4. /\ SumOf(f, T) = f[c] + SumOf(f, R)
          /\ SumOf(g, T) = g[c] + SumOf(g, R) /\ SumOf(g, R) = k * SumOf(f, R)
      BY <2>1, <2>2, <3>1 DEF Unfolds
    <3>5. \A x, y \in Int : k * (x + y) = k * x + k * y
      OBVIOUS
    <3> HIDE DEF c, R
    <3> QED BY <3>2, <3>3, <3>4, <3>5
  <2> QED BY <2>1, <2>2 DEF Unfolds
<1>2. S \in A
  <2> HIDE DEF A
  <2> QED BY <1>1, SmallerFirst
<1> QED BY <1>2

\* Amounts between 0 and k add up to at most k for each.
LEMMA SumBounded ==
  ASSUME NEW S, IsFiniteSet(S), NEW f, NEW k \in Nat, \A x \in S : f[x] \in 0..k
  PROVE  SumOf(f, S) >= 0 /\ SumOf(f, S) <= k * Cardinality(S)
<1> DEFINE A == {T \in SUBSET S : SumOf(f, T) >= 0 /\ SumOf(f, T) <= k * Cardinality(T)}
<1>1. ASSUME NEW T \in SUBSET S, \A U \in SUBSET T : U # T => U \in A
      PROVE  T \in A
  <2>1. Unfolds(f, T) /\ IsFiniteSet(T)
    BY FS_Subset, SumUnfolds
  <2>2. CASE T = {}
    BY <2>1, <2>2, FS_EmptySet DEF Unfolds
  <2>3. CASE T # {}
    <3> DEFINE c == Chosen(T)
               R == Rest(T)
               n == Cardinality(T)
    <3>1. c \in T /\ R \in A
      BY <1>1, <2>3 DEF Chosen, Rest
    <3>2. IsFiniteSet(R) /\ SumOf(f, R) \in Int
      BY FS_Subset, SumType DEF Rest
    <3>3. Cardinality(R) = n - 1 /\ n \in Nat
      BY <2>1, <3>1, FS_RemoveElement, FS_CardinalityType DEF Rest
    <3>4. SumOf(f, T) = f[c] + SumOf(f, R) /\ SumOf(f, R) >= 0 /\ SumOf(f, R) <= k * (n - 1)
      BY <2>1, <2>3, <3>1, <3>3 DEF Unfolds
    <3>5. f[c] \in 0..k
      BY <3>1
    <3>6. \A x, y \in Int : x * (y - 1) = x * y - x /\ x * y \in Int
      OBVIOUS
    <3>7. SumOf(f, T) >= 0 /\ SumOf(f, T) <= k * n
      <4> HIDE DEF c, R, n
      <4> QED BY <3>2, <3>3, <3>4, <3>5, <3>6
    <3> QED BY <3>7
  <2> QED BY <2>2, <2>3
<1>2. S \in A
  <2> HIDE DEF A
  <2> QED BY <1>1, SmallerFirst
<1> QED BY <1>2

\* One for each member of P and nothing for the others counts P.
LEMMA SumCounts ==
  ASSUME NEW S, IsFiniteSet(S), NEW f, NEW P, \A x \in S : f[x] = IF x \in P THEN 1 ELSE 0
  PROVE  SumOf(f, S) = Cardinality(S \intersect P)
<1> DEFINE A == {T \in SUBSET S : SumOf(f, T) = Cardinality(T \intersect P)}
<1>1. ASSUME NEW T \in SUBSET S, \A U \in SUBSET T : U # T => U \in A
      PROVE  T \in A
  <2>1. Unfolds(f, T) /\ IsFiniteSet(T)
    BY FS_Subset, SumUnfolds
  <2>2. CASE T = {}
    BY <2>1, <2>2, FS_EmptySet DEF Unfolds
  <2>3. CASE T # {}
    <3> DEFINE c == Chosen(T)
               R == Rest(T)
               n == Cardinality(T \intersect P)
    <3>1. c \in T /\ R \in A
      BY <1>1, <2>3 DEF Chosen, Rest
    <3>2. IsFiniteSet(T \intersect P) /\ n \in Nat
      BY <2>1, FS_Subset, FS_CardinalityType
    <3>3. Cardinality((T \intersect P) \ {c}) = IF c \in T \intersect P THEN n - 1 ELSE n
      BY <3>2, FS_RemoveElement
    <3>4. R \intersect P = (T \intersect P) \ {c}
      BY DEF Rest
    <3>5. SumOf(f, T) = f[c] + Cardinality((T \intersect P) \ {c})
      BY <2>1, <2>3, <3>1, <3>4 DEF Unfolds
    <3>6. f[c] = IF c \in P THEN 1 ELSE 0
      BY <3>1
    <3>7. SumOf(f, T) = n
      <4> HIDE DEF c, n
      <4> QED BY <3>1, <3>2, <3>3, <3>5, <3>6
    <3> QED BY <3>7
  <2> QED BY <2>2, <2>3
<1>2. S \in A
  <2> HIDE DEF A
  <2> QED BY <1>1, SmallerFirst
<1> QED BY <1>2

LEMMA Division ==
  ASSUME NEW a \in Nat, NEW m \in Nat \ {0}
  PROVE  a \div m \in Nat /\ (a % m) \in 0..m - 1 /\ a = m * (a \div m) + (a % m)
OBVIOUS

-----------------------------------------------------------------------------
(* Shares.  Lines in the order in which pennies are handed out have as     *)
(* many ranks as there are lines, so n of them are among the first n.      *)

InOrder(S, ahead) ==
  /\ ahead \in [S -> SUBSET S]
  /\ \A i \in S : i \notin ahead[i]
  /\ \A i, j \in S : i # j => i \in ahead[j] \/ j \in ahead[i]
  /\ \A i, j \in S : j \in ahead[i] => ahead[j] \subseteq ahead[i]

LEMMA RanksDiffer ==
  ASSUME NEW S, IsFiniteSet(S), NEW ahead, InOrder(S, ahead), NEW i \in S, NEW j \in S, j \in ahead[i]
  PROVE  Cardinality(ahead[j]) < Cardinality(ahead[i])
<1>1. IsFiniteSet(ahead[i]) /\ ahead[j] \in SUBSET (ahead[i] \ {j})
  BY FS_Subset DEF InOrder
<1>2. IsFiniteSet(ahead[i] \ {j}) /\ Cardinality(ahead[i] \ {j}) = Cardinality(ahead[i]) - 1
  BY <1>1, FS_RemoveElement
<1>3. IsFiniteSet(ahead[j]) /\ Cardinality(ahead[j]) <= Cardinality(ahead[i] \ {j})
  BY <1>1, <1>2, FS_Subset
<1>4. Cardinality(ahead[i]) \in Nat /\ Cardinality(ahead[j]) \in Nat
  BY <1>1, <1>3, FS_CardinalityType
<1> QED BY <1>2, <1>3, <1>4

LEMMA RanksFill ==
  ASSUME NEW S, IsFiniteSet(S), NEW ahead, InOrder(S, ahead), NEW n \in 0..Cardinality(S)
  PROVE  Cardinality({i \in S : Cardinality(ahead[i]) < n}) = n
<1> DEFINE places == 0..Cardinality(S) - 1
           rank == [i \in S |-> Cardinality(ahead[i])]
           P == {i \in S : Cardinality(ahead[i]) < n}
           first == [i \in P |-> Cardinality(ahead[i])]
<1>1. Cardinality(S) \in Nat /\ n \in Nat
  BY FS_CardinalityType
<1>2. \A i \in S : Cardinality(ahead[i]) \in places
  <2> TAKE i \in S
  <2>1. ahead[i] \in SUBSET (S \ {i})
    BY DEF InOrder
  <2>2. IsFiniteSet(S \ {i}) /\ Cardinality(S \ {i}) = Cardinality(S) - 1
    BY FS_RemoveElement
  <2>3. IsFiniteSet(ahead[i]) /\ Cardinality(ahead[i]) <= Cardinality(S \ {i})
    BY <2>1, <2>2, FS_Subset
  <2>4. Cardinality(ahead[i]) \in Nat
    BY <2>3, FS_CardinalityType
  <2> QED BY <1>1, <2>2, <2>3, <2>4
<1>3. \A i, j \in S : Cardinality(ahead[i]) = Cardinality(ahead[j]) => i = j
  <2> TAKE i, j \in S
  <2>1. i # j => \/ Cardinality(ahead[i]) < Cardinality(ahead[j])
                 \/ Cardinality(ahead[j]) < Cardinality(ahead[i])
    BY RanksDiffer DEF InOrder
  <2>2. Cardinality(ahead[i]) \in Int /\ Cardinality(ahead[j]) \in Int
    BY <1>2
  <2> QED BY <2>1, <2>2
<1>4. IsFiniteSet(places) /\ Cardinality(places) = Cardinality(S)
  <2> DEFINE m == Cardinality(S)
  <2> HIDE DEF m
  <2>1. m \in Nat
    BY <1>1 DEF m
  <2> SUFFICES IsFiniteSet(0..m - 1) /\ Cardinality(0..m - 1) = m
    BY DEF m
  <2> QED BY <2>1, FS_Interval
<1>5. rank \in Surjection(S, places)
  <2>1. rank \in Injection(S, places)
    BY <1>2, <1>3 DEF Injection, IsInjective
  <2> HIDE DEF rank, places
  <2> QED BY <1>4, <2>1, FS_Injection
<1>6. first \in Surjection(P, 0..n - 1) /\ first \in Injection(P, 0..n - 1)
  <2>1. \A k \in 0..n - 1 : \E i \in P : first[i] = k
    <3> TAKE k \in 0..n - 1
    <3>1. k \in places
      BY <1>1
    <3>2. PICK i \in S : rank[i] = k
      <4> HIDE DEF rank, places
      <4> QED BY <1>5, <3>1 DEF Surjection
    <3> QED BY <1>1, <3>2
  <2>2. \A i \in P : first[i] \in 0..n - 1
    BY <1>1, <1>2
  <2> QED BY <1>3, <2>1, <2>2 DEF Surjection, Injection, IsInjective
<1>7. Cardinality(0..n - 1) = Cardinality(P)
  <2>1. IsFiniteSet(P)
    BY FS_Subset
  <2> HIDE DEF first, P
  <2> QED BY <1>6, <2>1, FS_Surjection
<1>8. Cardinality(0..n - 1) = n
  BY <1>1, FS_Interval
<1> QED BY <1>7, <1>8

\* How far share a is from a line's exact proportion, and what it is to be fair.
Away(a, merchandise, total, amount) ==
  LET off == a * merchandise - total * amount
  IN IF off < 0 THEN -off ELSE off

Fair(S, merchandise, total, share, amount) ==
  /\ amount = SumOf(share, S)
  /\ \A i, j \in S : i # j =>
       Away(share[i], merchandise, total[i], amount) + Away(share[j], merchandise, total[j], amount)
         <= Away(share[i] - 1, merchandise, total[i], amount) + Away(share[j] + 1, merchandise, total[j], amount)

\* Rounded down or up by one, a share is off by the remainder or by what the
\* remainder lacks; moving a penny helps only from a smaller remainder to a larger.
LEMMA NoBetterPenny ==
  ASSUME NEW m \in Nat \ {0}, NEW a \in Nat, NEW t \in Nat, NEW u \in Nat,
         NEW f \in Nat, NEW r \in 0..m - 1, t * a = m * f + r,
         NEW g \in Nat, NEW s \in 0..m - 1, u * a = m * g + s,
         NEW x \in {0, 1}, NEW y \in {0, 1}, x = 1 /\ y = 0 => s <= r
  PROVE  Away(f + x, m, t, a) + Away(g + y, m, u, a)
           <= Away(f + x - 1, m, t, a) + Away(g + y + 1, m, u, a)
<1> DEFINE p == f + x
           q == g + y
<1>1. p \in Int /\ q \in Int
  OBVIOUS
<1>2. /\ p * m - t * a = x * m - r
      /\ (p - 1) * m - t * a = (x - 1) * m - r
      /\ q * m - u * a = y * m - s
      /\ (q + 1) * m - u * a = (y + 1) * m - s
  OBVIOUS
<1>3. Away(p, m, t, a) = IF x * m - r < 0 THEN -(x * m - r) ELSE x * m - r
  BY <1>2 DEF Away
<1>4. Away(p - 1, m, t, a) = IF (x - 1) * m - r < 0 THEN -((x - 1) * m - r) ELSE (x - 1) * m - r
  BY <1>2 DEF Away
<1>5. Away(q, m, u, a) = IF y * m - s < 0 THEN -(y * m - s) ELSE y * m - s
  BY <1>2 DEF Away
<1>6. Away(q + 1, m, u, a) = IF (y + 1) * m - s < 0 THEN -((y + 1) * m - s) ELSE (y + 1) * m - s
  BY <1>2 DEF Away
<1>7. /\ 0 * m = 0 /\ 1 * m = m /\ (0 - 1) * m = -m /\ (1 - 1) * m = 0
      /\ (0 + 1) * m = m /\ (1 + 1) * m = m + m
  OBVIOUS
<1> QED BY <1>3, <1>4, <1>5, <1>6, <1>7

\* The leftover pennies are at least none and at most one for each line.
LEMMA FewPennies ==
  ASSUME NEW S, IsFiniteSet(S), NEW total \in [S -> Nat], NEW amount \in Nat, SumOf(total, S) > 0,
         NEW floor, \A i \in S : floor[i] = (total[i] * amount) \div SumOf(total, S)
  PROVE  /\ \A i \in S : floor[i] \in Nat
         /\ amount - SumOf(floor, S) \in 0..Cardinality(S)
<1> DEFINE m == SumOf(total, S)
           rem == [i \in S |-> (total[i] * amount) % m]
           whole == [i \in S |-> m * floor[i]]
           part == [i \in S |-> total[i] * amount]
           n == Cardinality(S)
<1>1. m \in Nat \ {0} /\ n \in Nat
  <2>1. m \in Int
    BY SumType
  <2> QED BY <2>1, FS_CardinalityType
<1>2. \A i \in S : /\ floor[i] \in Nat /\ rem[i] \in 0..m - 1
                   /\ total[i] * amount = m * floor[i] + rem[i]
  <2> TAKE i \in S
  <2>1. total[i] \in Nat /\ total[i] * amount \in Nat
    <3>1. total[i] \in Nat
      OBVIOUS
    <3>2. \A x, y \in Nat : x * y \in Nat
      OBVIOUS
    <3> QED BY <3>1, <3>2
  <2>2. floor[i] = (total[i] * amount) \div m /\ rem[i] = (total[i] * amount) % m
    OBVIOUS
  <2> HIDE DEF m, rem
  <2> QED BY <1>1, <2>1, <2>2, Division
<1>3. SumOf(part, S) = amount * m
  <2>1. \A i \in S : total[i] \in Int /\ part[i] = amount * total[i]
    OBVIOUS
  <2> HIDE DEF part
  <2> QED BY <2>1, SumScales
<1>4. SumOf(whole, S) = m * SumOf(floor, S)
  <2>1. \A i \in S : floor[i] \in Int /\ whole[i] = m * floor[i]
    BY <1>2
  <2>2. m \in Int
    BY <1>1
  <2> HIDE DEF whole, m
  <2> QED BY <2>1, <2>2, SumScales
<1>5. SumOf(part, S) = SumOf(whole, S) + SumOf(rem, S)
  <2>1. \A i \in S : whole[i] \in Int /\ rem[i] \in Int /\ part[i] = whole[i] + rem[i]
    <3> TAKE i \in S
    <3>1. m * floor[i] \in Int
      <4> HIDE DEF m
      <4> QED BY <1>1, <1>2
    <3>2. whole[i] = m * floor[i] /\ part[i] = total[i] * amount
      OBVIOUS
    <3> HIDE DEF m, whole, part, rem
    <3> QED BY <1>2, <3>1, <3>2
  <2> HIDE DEF whole, part, rem
  <2> QED BY <2>1, SumAdds
<1>6. SumOf(rem, S) >= 0 /\ SumOf(rem, S) <= m * n
  <2>1. \A i \in S : rem[i] \in 0..m
    BY <1>1, <1>2
  <2> HIDE DEF rem, m
  <2> QED BY <1>1, <2>1, SumBounded
<1>7. SumOf(rem, S) \in Int /\ SumOf(floor, S) \in Int
  <2>1. \A i \in S : rem[i] \in Int /\ floor[i] \in Int
    BY <1>1, <1>2
  <2> HIDE DEF rem
  <2> QED BY <2>1, SumType
<1>8. \A k, q, w, a, c \in Int :
        k > 0 /\ a * k = k * q + w /\ w >= 0 /\ w <= k * c => a - q >= 0 /\ a - q <= c
  <2> SUFFICES ASSUME NEW k \in Int, NEW q \in Int, NEW w \in Int, NEW a \in Int, NEW c \in Int,
                      k > 0, a * k = k * q + w, w >= 0, w <= k * c
               PROVE  a - q >= 0 /\ a - q <= c
    OBVIOUS
  <2> DEFINE d == a - q
  <2>1. d \in Int /\ k * d = w
    OBVIOUS
  <2>2. d >= 0
    <3> SUFFICES ASSUME d <= -1 PROVE FALSE
      BY <2>1
    <3>1. k * d <= -k
      BY <2>1
    <3> QED BY <2>1, <3>1
  <2>3. d <= c
    <3> SUFFICES ASSUME d >= c + 1 PROVE FALSE
      BY <2>1
    <3>1. k * d >= k * c + k
      BY <2>1
    <3> QED BY <2>1, <3>1
  <2> QED BY <2>2, <2>3
<1>9. amount * m = m * SumOf(floor, S) + SumOf(rem, S)
  BY <1>3, <1>4, <1>5
<1> HIDE DEF m, n, rem, whole, part
<1>10. amount - SumOf(floor, S) >= 0 /\ amount - SumOf(floor, S) <= n
  BY <1>1, <1>6, <1>7, <1>8, <1>9
<1> QED BY <1>1, <1>2, <1>7, <1>10 DEF n

\* allocateProportional, whatever the amounts: the shares are whole, they add up to
\* the amount, and no penny moved to another line would bring them closer to
\* proportion.
THEOREM SharesAreFair ==
  ASSUME NEW S, IsFiniteSet(S), S \subseteq Nat, NEW total \in [S -> Nat], NEW amount \in Nat,
         amount > 0 => SumFunction(total) > 0
  PROVE  /\ allocateProportional(total, amount) \in [S -> Nat]
         /\ Fair(S, SumFunction(total), total, allocateProportional(total, amount), amount)
<1> DEFINE share == allocateProportional(total, amount)
           m == SumOf(total, S)
           floor == [i \in S |-> (total[i] * amount) \div m]
           remainder == [i \in S |-> (total[i] * amount) % m]
           remaining == amount - SumOf(floor, S)
           ahead == [i \in S |-> {j \in S : \/ remainder[j] > remainder[i]
                                            \/ remainder[j] = remainder[i] /\ j < i}]
<1>1. SumFunction(total) = m /\ m \in Int
  <2>1. SumFunction(total) = m
    BY DEF SumFunction, SumOf
  <2>2. \A i \in S : total[i] \in Int
    OBVIOUS
  <2>3. SumOf(total, S) \in Int
    BY <2>2, SumType
  <2> QED BY <2>1, <2>3
<1>2. CASE amount = 0
  <2>1. share = [i \in S |-> 0]
    BY <1>2 DEF allocateProportional
  <2>2. SumOf(share, S) = 0
    <3>1. \A i \in S : share[i] = IF i \in {} THEN 1 ELSE 0
      BY <2>1
    <3>2. S \intersect {} = {}
      OBVIOUS
    <3> HIDE DEF share
    <3>3. SumOf(share, S) = Cardinality(S \intersect {})
      BY <3>1, SumCounts
    <3> QED BY <3>2, <3>3, FS_EmptySet
  <2>3. ASSUME NEW i \in S, NEW j \in S
        PROVE  Away(share[i], m, total[i], amount) + Away(share[j], m, total[j], amount)
                 <= Away(share[i] - 1, m, total[i], amount) + Away(share[j] + 1, m, total[j], amount)
    <3>1. share[i] = 0 /\ share[j] = 0 /\ total[i] \in Nat /\ total[j] \in Nat
      BY <2>1
    <3>2. \A x \in Int : 0 * x = 0 /\ x * 0 = 0 /\ 1 * x = x /\ (0 - 1) * x = -x
      OBVIOUS
    <3>3. Away(0, m, total[i], 0) = 0 /\ Away(0, m, total[j], 0) = 0
      BY <1>1, <3>1, <3>2 DEF Away
    <3>4. Away(0 - 1, m, total[i], 0) >= 0 /\ Away(0 + 1, m, total[j], 0) >= 0
      BY <1>1, <3>1, <3>2 DEF Away
    <3>5. Away(0 - 1, m, total[i], 0) \in Int /\ Away(0 + 1, m, total[j], 0) \in Int
      BY <1>1, <3>1, <3>2 DEF Away
    <3> HIDE DEF share, m
    <3> QED BY <1>2, <3>1, <3>3, <3>4, <3>5
  <2>4. Fair(S, m, total, share, amount)
    <3> HIDE DEF share, m
    <3> QED BY <1>2, <2>2, <2>3 DEF Fair
  <2> QED BY <1>1, <2>1, <2>4
<1>3. CASE amount # 0
  <2>1. m \in Nat \ {0}
    BY <1>1, <1>3
  <2>2. share = [i \in S |-> IF Cardinality(ahead[i]) < remaining THEN floor[i] + 1 ELSE floor[i]]
    <3>1. \A i \in S : ahead[i] = {j \in S : \/ (total[j] * amount) % m > (total[i] * amount) % m
                                             \/ (total[j] * amount) % m = (total[i] * amount) % m /\ j < i}
      OBVIOUS
    <3>2. SumFunction(floor) = SumOf(floor, S)
      BY DEF SumFunction, SumOf
    <3> QED BY <1>1, <1>3, <3>1, <3>2 DEF allocateProportional
  <2>3. /\ \A i \in S : floor[i] \in Nat
        /\ remaining \in 0..Cardinality(S)
    <3>1. \A i \in S : floor[i] = (total[i] * amount) \div SumOf(total, S)
      OBVIOUS
    <3>2. SumOf(total, S) > 0
      BY <2>1
    <3> HIDE DEF floor
    <3>3. /\ \A i \in S : floor[i] \in Nat
          /\ amount - SumOf(floor, S) \in 0..Cardinality(S)
      BY <3>1, <3>2, FewPennies
    <3> QED BY <3>3
  <2>4. \A i \in S : /\ total[i] \in Nat /\ remainder[i] \in 0..m - 1
                     /\ total[i] * amount = m * floor[i] + remainder[i]
    <3> TAKE i \in S
    <3>1. total[i] \in Nat /\ total[i] * amount \in Nat
      <4>1. total[i] \in Nat
        OBVIOUS
      <4>2. \A x, y \in Nat : x * y \in Nat
        OBVIOUS
      <4> QED BY <4>1, <4>2
    <3>2. floor[i] = (total[i] * amount) \div m /\ remainder[i] = (total[i] * amount) % m
      OBVIOUS
    <3> HIDE DEF m, remainder, floor
    <3> QED BY <2>1, <3>1, <3>2, Division
  <2>5. InOrder(S, ahead)
    <3>1. \A i, j \in S : j \in ahead[i] <=> \/ remainder[j] > remainder[i]
                                             \/ remainder[j] = remainder[i] /\ j < i
      OBVIOUS
    <3>2. \A i \in S : remainder[i] \in Int /\ i \in Int
      BY <2>1, <2>4
    <3>3. ahead \in [S -> SUBSET S]
      OBVIOUS
    <3> HIDE DEF ahead, remainder
    <3>4. \A i, j \in S : j \in ahead[i] => ahead[j] \subseteq ahead[i]
      <4> SUFFICES ASSUME NEW i \in S, NEW j \in S, j \in ahead[i], NEW k \in ahead[j] PROVE k \in ahead[i]
        OBVIOUS
      <4>1. k \in S
        BY <3>3
      <4> QED BY <3>1, <3>2, <4>1
    <3> QED BY <3>1, <3>2, <3>3, <3>4 DEF InOrder
  <2> DEFINE Lucky == {i \in S : Cardinality(ahead[i]) < remaining}
             extra == [i \in S |-> IF i \in Lucky THEN 1 ELSE 0]
  <2>6. Cardinality(Lucky) = remaining
    <3> HIDE DEF ahead, remaining
    <3> QED BY <2>3, <2>5, RanksFill
  <2>7. \A i \in S : share[i] = floor[i] + extra[i] /\ extra[i] \in {0, 1}
    <3> HIDE DEF ahead, remaining, floor, share
    <3> QED BY <2>2, <2>3
  <2>8. share \in [S -> Nat]
    <3> HIDE DEF ahead, remaining, floor, share
    <3> QED BY <2>2, <2>3
  <2>9. amount = SumOf(share, S)
    <3>1. SumOf(extra, S) = remaining
      <4>1. S \intersect Lucky = Lucky /\ \A i \in S : extra[i] = IF i \in Lucky THEN 1 ELSE 0
        OBVIOUS
      <4> HIDE DEF extra, Lucky, remaining
      <4>2. SumOf(extra, S) = Cardinality(S \intersect Lucky)
        BY <4>1, SumCounts
      <4> QED BY <2>6, <4>1, <4>2
    <3>2. SumOf(share, S) = SumOf(floor, S) + SumOf(extra, S)
      <4>1. \A i \in S : floor[i] \in Int /\ extra[i] \in Int
        BY <2>3, <2>7
      <4> HIDE DEF extra, floor, share
      <4>2. \A i \in S : floor[i] \in Int /\ extra[i] \in Int /\ share[i] = floor[i] + extra[i]
        BY <2>7, <4>1
      <4> QED BY <4>2, SumAdds
    <3>3. SumOf(floor, S) \in Int
      <4>1. \A i \in S : floor[i] \in Int
        BY <2>3
      <4> HIDE DEF floor
      <4> QED BY <4>1, SumType
    <3> HIDE DEF floor, extra, share
    <3> QED BY <3>1, <3>2, <3>3
  <2>10. ASSUME NEW i \in S, NEW j \in S
         PROVE  Away(share[i], m, total[i], amount) + Away(share[j], m, total[j], amount)
                  <= Away(share[i] - 1, m, total[i], amount) + Away(share[j] + 1, m, total[j], amount)
    <3>1. extra[i] = 1 /\ extra[j] = 0 => remainder[j] <= remainder[i]
      <4> SUFFICES ASSUME i \in Lucky, j \notin Lucky, remainder[j] > remainder[i] PROVE FALSE
        BY <2>1, <2>4
      <4>1. j \in ahead[i]
        OBVIOUS
      <4>2. Cardinality(ahead[j]) < Cardinality(ahead[i])
        <5> HIDE DEF ahead
        <5> QED BY <2>5, <4>1, RanksDiffer
      <4>3. Cardinality(ahead[i]) < remaining /\ ~ (Cardinality(ahead[j]) < remaining)
        OBVIOUS
      <4>4. Cardinality(ahead[i]) \in Int /\ Cardinality(ahead[j]) \in Int
        <5>1. IsFiniteSet(ahead[i]) /\ IsFiniteSet(ahead[j])
          BY FS_Subset
        <5> HIDE DEF ahead
        <5> QED BY <5>1, FS_CardinalityType
      <4> HIDE DEF ahead, remaining
      <4> QED BY <2>3, <4>2, <4>3, <4>4
    <3> HIDE DEF m, floor, remainder, extra, share
    <3>2. /\ floor[i] \in Nat /\ floor[j] \in Nat /\ total[i] \in Nat /\ total[j] \in Nat
          /\ remainder[i] \in 0..m - 1 /\ remainder[j] \in 0..m - 1
          /\ total[i] * amount = m * floor[i] + remainder[i]
          /\ total[j] * amount = m * floor[j] + remainder[j]
          /\ extra[i] \in {0, 1} /\ extra[j] \in {0, 1}
      BY <2>3, <2>4, <2>7
    <3>3. share[i] = floor[i] + extra[i] /\ share[j] = floor[j] + extra[j]
      BY <2>7
    <3>4. extra[i] = 1 /\ extra[j] = 0 => remainder[j] <= remainder[i]
      BY <3>1
    <3> DEFINE fi == floor[i]  fj == floor[j]  ri == remainder[i]  rj == remainder[j]
               xi == extra[i]  xj == extra[j]  ti == total[i]  tj == total[j]  p == share[i]  q == share[j]
    <3>5. /\ fi \in Nat /\ fj \in Nat /\ ti \in Nat /\ tj \in Nat
          /\ ri \in 0..m - 1 /\ rj \in 0..m - 1
          /\ ti * amount = m * fi + ri /\ tj * amount = m * fj + rj
          /\ xi \in {0, 1} /\ xj \in {0, 1} /\ p = fi + xi /\ q = fj + xj
          /\ (xi = 1 /\ xj = 0 => rj <= ri)
      BY <3>2, <3>3, <3>4
    <3> SUFFICES Away(p, m, ti, amount) + Away(q, m, tj, amount)
                   <= Away(p - 1, m, ti, amount) + Away(q + 1, m, tj, amount)
      OBVIOUS
    <3> HIDE DEF fi, fj, ri, rj, xi, xj, ti, tj, p, q
    <3>6. Away(fi + xi, m, ti, amount) + Away(fj + xj, m, tj, amount)
            <= Away(fi + xi - 1, m, ti, amount) + Away(fj + xj + 1, m, tj, amount)
      BY <2>1, <3>5, NoBetterPenny
    <3>7. p = fi + xi /\ q = fj + xj
      BY <3>5
    <3> QED BY <3>5, <3>6, <3>7
  <2>11. Fair(S, m, total, share, amount)
    <3> HIDE DEF share, m
    <3> QED BY <2>9, <2>10 DEF Fair
  <2> QED BY <1>1, <2>8, <2>11
<1> QED BY <1>2, <1>3

\* The last check of calculatePurchaseCosts, that the lines add up to merchandise
\* plus shipping less discount, can never refuse a document.
THEOREM FinalsAddUp ==
  ASSUME NEW S, IsFiniteSet(S), S \subseteq Nat, NEW total \in [S -> Nat],
         NEW extra \in [shipping : Nat, discount : Nat],
         extra.shipping + extra.discount > 0 => SumFunction(total) > 0
  PROVE  SumFunction([i \in S |-> calculatedItems(total, total, extra)[i].final])
           = SumFunction(total) + extra.shipping - extra.discount
<1> DEFINE final == [i \in S |-> calculatedItems(total, total, extra)[i].final]
           shipping == allocateProportional(total, extra.shipping)
           discount == allocateProportional(total, extra.discount)
           gross == [i \in S |-> total[i] + shipping[i]]
           paid == SumFunction(total)
<1>1. DOMAIN total = S /\ extra.shipping \in Nat /\ extra.discount \in Nat /\ \A i \in S : total[i] \in Int
  OBVIOUS
<1>2. \A i \in S : final[i] = total[i] + shipping[i] - discount[i]
  BY <1>1 DEF calculatedItems
<1>3. paid = SumOf(total, S) /\ SumFunction(final) = SumOf(final, S)
  BY <1>1 DEF SumFunction, SumOf
<1>4. paid \in Int
  <2> HIDE DEF paid
  <2> QED BY <1>1, <1>3, SumType
<1>5. /\ extra.shipping > 0 => paid > 0
      /\ extra.discount > 0 => paid > 0
  BY <1>1
<1> HIDE DEF final, shipping, discount, paid
<1>6. /\ shipping \in [S -> Nat] /\ extra.shipping = SumOf(shipping, S)
      /\ discount \in [S -> Nat] /\ extra.discount = SumOf(discount, S)
  <2>1. shipping \in [S -> Nat] /\ Fair(S, paid, total, shipping, extra.shipping)
    BY <1>1, <1>5, SharesAreFair DEF shipping, paid
  <2>2. discount \in [S -> Nat] /\ Fair(S, paid, total, discount, extra.discount)
    BY <1>1, <1>5, SharesAreFair DEF discount, paid
  <2> QED BY <2>1, <2>2 DEF Fair
<1>7. \A i \in S : shipping[i] \in Int /\ discount[i] \in Int
  BY <1>6
<1>8. \A i \in S : /\ gross[i] = total[i] + shipping[i]
                   /\ final[i] \in Int /\ gross[i] = final[i] + discount[i]
  BY <1>1, <1>2, <1>7
<1> HIDE DEF gross
<1>9. SumOf(gross, S) = SumOf(total, S) + SumOf(shipping, S)
  BY <1>1, <1>7, <1>8, SumAdds
<1>10. SumOf(gross, S) = SumOf(final, S) + SumOf(discount, S)
  <2>1. \A i \in S : final[i] \in Int /\ discount[i] \in Int /\ gross[i] = final[i] + discount[i]
    BY <1>7, <1>8
  <2> QED BY <2>1, SumAdds
<1>11. SumOf(final, S) \in Int
  BY <1>8, SumType
<1>12. SumFunction(final) = paid + extra.shipping - extra.discount
  BY <1>1, <1>3, <1>4, <1>6, <1>9, <1>10, <1>11
<1> QED BY <1>12 DEF final, paid

-----------------------------------------------------------------------------
(* Costs.  Every recalculation reconciles its document and leaves the      *)
(* others as they are.                                                     *)

\* CostsReconcile of one document, as a relation of its columns.
Split(documents, costs, d, share, amount) ==
  /\ amount = SumFunction(share)
  /\ \A i, j \in LinesOf(d) : i # j =>
       Away(share[i], documents[DocOf[i]].merchandise, costs[i].total, amount)
         + Away(share[j], documents[DocOf[j]].merchandise, costs[j].total, amount)
         <= Away(share[i] - 1, documents[DocOf[i]].merchandise, costs[i].total, amount)
              + Away(share[j] + 1, documents[DocOf[j]].merchandise, costs[j].total, amount)

Reconciled(documents, costs, d) ==
  /\ documents[d].paid = SumFunction([i \in LinesOf(d) |-> costs[i].final])
  /\ Split(documents, costs, d, [i \in LinesOf(d) |-> costs[i].shipping], documents[d].shipping)
  /\ Split(documents, costs, d, [i \in LinesOf(d) |-> costs[i].discount], documents[d].discount)

LEMMA ReconciledAll ==
  /\ CostsReconcile <=> \A d \in imported : Reconciled(document, cost, d)
  /\ CostsReconcile' <=> \A d \in imported' : Reconciled(document', cost', d)
<1>1. CostsReconcile <=> \A d \in imported : Reconciled(document, cost, d)
  BY Zenon DEF CostsReconcile, SharedOut, Deviation, Reconciled, Split, Away
<1>2. CostsReconcile' <=> \A d \in imported' : Reconciled(document', cost', d)
  BY Zenon DEF CostsReconcile, SharedOut, Deviation, Reconciled, Split, Away, LinesOf
<1> QED BY <1>1, <1>2

LEMMA FairIsSplit ==
  ASSUME NEW documents, NEW costs, NEW d, NEW total, NEW share, NEW amount,
         DOMAIN share = LinesOf(d), \A i \in LinesOf(d) : costs[i].total = total[i],
         Fair(LinesOf(d), documents[d].merchandise, total, share, amount)
  PROVE  Split(documents, costs, d, share, amount)
<1>1. \A i \in LinesOf(d) : DocOf[i] = d
  BY DEF LinesOf
<1> QED BY <1>1, Zenon DEF Split, Fair, SumFunction, SumOf

LEMMA ReconciledStays ==
  ASSUME NEW documents, NEW costs, NEW d, Reconciled(documents, costs, d), NEW documents2, NEW costs2,
         documents2[d] = documents[d], \A i \in LinesOf(d) : costs2[i] = costs[i]
  PROVE  Reconciled(documents2, costs2, d)
<1>1. \A i \in LinesOf(d) : DocOf[i] = d
  BY DEF LinesOf
<1>2. /\ [i \in LinesOf(d) |-> costs2[i].final] = [i \in LinesOf(d) |-> costs[i].final]
      /\ [i \in LinesOf(d) |-> costs2[i].shipping] = [i \in LinesOf(d) |-> costs[i].shipping]
      /\ [i \in LinesOf(d) |-> costs2[i].discount] = [i \in LinesOf(d) |-> costs[i].discount]
  OBVIOUS
<1>3. ASSUME NEW share, NEW amount, Split(documents, costs, d, share, amount)
      PROVE  Split(documents2, costs2, d, share, amount)
  BY <1>1, <1>3, Zenon DEF Split
<1> QED BY <1>2, <1>3, Zenon DEF Reconciled

CostsOK ==
  /\ imported \subseteq Docs
  /\ document \in [Docs -> [merchandise : Nat, shipping : Nat, discount : Nat, paid : Nat]]
  /\ cost \in [ItemIds -> [unit : Nat, total : Nat, shipping : Nat, discount : Nat, final : Nat]]
  /\ sourceSetNumber \in [ItemIds -> SetNumbers \union {NoSetNumber}]
  /\ disposition \in [ItemIds -> {"INVENTORY", "NON_INVENTORY"}]
  /\ CostsReconcile

LEMMA RecalculationReconciles ==
  ASSUME CostsOK, NEW d \in Docs, NEW newQuantity, NEW unit, NEW total, NEW extra,
         unit \in [LinesOf(d) -> Nat], total \in [LinesOf(d) -> Nat],
         extra \in [shipping : Nat, discount : Nat],
         Recalculate(d, newQuantity, unit, total, extra), imported' \subseteq imported \union {d}
  PROVE  /\ document' \in [Docs -> [merchandise : Nat, shipping : Nat, discount : Nat, paid : Nat]]
         /\ cost' \in [ItemIds -> [unit : Nat, total : Nat, shipping : Nat, discount : Nat, final : Nat]]
         /\ CostsReconcile'
<1> DEFINE L == LinesOf(d)
           merchandise == SumFunction(total)
           paid == merchandise + extra.shipping - extra.discount
           shipping == allocateProportional(total, extra.shipping)
           discount == allocateProportional(total, extra.discount)
           final == [i \in L |-> total[i] + shipping[i] - discount[i]]
           totals == [merchandise |-> merchandise, shipping |-> extra.shipping,
                      discount |-> extra.discount, paid |-> paid]
<1>1. IsFiniteSet(L) /\ L \subseteq Nat /\ DOMAIN total = L
  BY PurchasesAssumption, FS_Subset DEF LinesOf
<1>2. /\ paid >= 0
      /\ extra.shipping + extra.discount > 0 => merchandise > 0
      /\ \A i \in L : final[i] >= 0
      /\ SumFunction(final) = paid
  <2>1. Calculable(total, extra, paid)
    BY DEF Recalculate
  <2>2. [i \in DOMAIN total |-> calculatedItems(total, total, extra)[i].final] = final
    BY <1>1 DEF calculatedItems
  <2>3. \A i \in L : calculatedItems(total, total, extra)[i].final = final[i]
    BY <1>1 DEF calculatedItems
  <2> HIDE DEF final
  <2> QED BY <1>1, <2>1, <2>2, <2>3 DEF Calculable
<1>3. /\ cost' = [i \in ItemIds |-> IF DocOf[i] = d
                    THEN [unit |-> unit[i], total |-> total[i], shipping |-> shipping[i],
                          discount |-> discount[i], final |-> final[i]]
                    ELSE cost[i]]
      /\ document' = [document EXCEPT ![d] = totals]
  BY <1>1 DEF Recalculate, calculatedItems, LinesOf
<1>4. extra.shipping \in Nat /\ extra.discount \in Nat /\ merchandise \in Nat
  <2>1. \A i \in L : total[i] \in Nat
    OBVIOUS
  <2>2. SumOf(total, L) \in Nat
    <3> HIDE DEF L
    <3> QED BY <1>1, <2>1, SumNatural
  <2> QED BY <1>1, <2>2 DEF SumFunction, SumOf
<1> HIDE DEF L, merchandise, shipping, discount, paid
<1>5. /\ shipping \in [L -> Nat] /\ Fair(L, merchandise, total, shipping, extra.shipping)
      /\ discount \in [L -> Nat] /\ Fair(L, merchandise, total, discount, extra.discount)
  <2>1. /\ extra.shipping > 0 => merchandise > 0
        /\ extra.discount > 0 => merchandise > 0
    BY <1>2, <1>4
  <2>2. total \in [L -> Nat]
    BY DEF L
  <2>3. shipping \in [L -> Nat] /\ Fair(L, merchandise, total, shipping, extra.shipping)
    BY <1>1, <1>4, <2>1, <2>2, SharesAreFair DEF shipping, merchandise
  <2>4. discount \in [L -> Nat] /\ Fair(L, merchandise, total, discount, extra.discount)
    BY <1>1, <1>4, <2>1, <2>2, SharesAreFair DEF discount, merchandise
  <2> QED BY <2>3, <2>4
<1>6. \A i \in L : /\ unit[i] \in Nat /\ total[i] \in Nat /\ shipping[i] \in Nat
                   /\ discount[i] \in Nat /\ final[i] \in Nat
  <2> TAKE i \in L
  <2>1. unit[i] \in Nat /\ total[i] \in Nat
    BY DEF L
  <2>2. shipping[i] \in Nat /\ discount[i] \in Nat
    BY <1>5
  <2>3. final[i] = total[i] + shipping[i] - discount[i] /\ final[i] >= 0
    BY <1>2
  <2> HIDE DEF final
  <2> QED BY <2>1, <2>2, <2>3
<1>7. paid \in Nat
  BY <1>2, <1>4 DEF paid
<1>8. document' \in [Docs -> [merchandise : Nat, shipping : Nat, discount : Nat, paid : Nat]]
  <2>1. totals \in [merchandise : Nat, shipping : Nat, discount : Nat, paid : Nat]
    BY <1>4, <1>7
  <2> HIDE DEF totals
  <2> QED BY <1>3, <2>1 DEF CostsOK
<1>9. cost' \in [ItemIds -> [unit : Nat, total : Nat, shipping : Nat, discount : Nat, final : Nat]]
  <2> HIDE DEF final
  <2> QED BY <1>3, <1>6 DEF CostsOK, L, LinesOf
<1>10. Reconciled(document', cost', d)
  <2>1. document'[d] = totals
    BY <1>3 DEF CostsOK
  <2>2. \A i \in L : cost'[i] = [unit |-> unit[i], total |-> total[i], shipping |-> shipping[i],
                                 discount |-> discount[i], final |-> final[i]]
    <3> HIDE DEF final
    <3> QED BY <1>3 DEF L, LinesOf
  <2>3. \A i \in L : /\ cost'[i].final = final[i] /\ cost'[i].total = total[i]
                     /\ cost'[i].shipping = shipping[i] /\ cost'[i].discount = discount[i]
    <3> TAKE i \in L
    <3> DEFINE r == cost'[i]  u == unit[i]  t == total[i]  h == shipping[i]  c == discount[i]  f == final[i]
    <3>1. r = [unit |-> u, total |-> t, shipping |-> h, discount |-> c, final |-> f]
      BY <2>2
    <3> SUFFICES r.final = f /\ r.total = t /\ r.shipping = h /\ r.discount = c
      OBVIOUS
    <3> HIDE DEF r, u, t, h, c, f
    <3> QED BY <3>1
  <2>4. final = [i \in L |-> final[i]]
    OBVIOUS
  <2>5. /\ totals.paid = paid /\ totals.merchandise = merchandise
        /\ totals.shipping = extra.shipping /\ totals.discount = extra.discount
    OBVIOUS
  <2> HIDE DEF final, totals
  <2>6. /\ [i \in L |-> cost'[i].final] = final
        /\ [i \in L |-> cost'[i].shipping] = shipping
        /\ [i \in L |-> cost'[i].discount] = discount
    <3>1. shipping = [i \in L |-> shipping[i]] /\ discount = [i \in L |-> discount[i]]
      BY <1>5
    <3> QED BY <2>3, <2>4, <3>1
  <2>7. Split(document', cost', d, shipping, extra.shipping)
    BY <1>5, <2>1, <2>3, <2>5, FairIsSplit DEF L
  <2>8. Split(document', cost', d, discount, extra.discount)
    BY <1>5, <2>1, <2>3, <2>5, FairIsSplit DEF L
  <2> QED BY <1>2, <2>1, <2>5, <2>6, <2>7, <2>8 DEF Reconciled, L
<1>11. ASSUME NEW e \in imported', e # d PROVE Reconciled(document', cost', e)
  <2>1. e \in imported /\ e \in Docs
    BY <1>11 DEF CostsOK
  <2>2. document'[e] = document[e]
    BY <1>3, <1>11, <2>1 DEF CostsOK
  <2>3. \A i \in LinesOf(e) : cost'[i] = cost[i]
    <3> HIDE DEF final
    <3> QED BY <1>3, <1>11 DEF LinesOf
  <2>4. Reconciled(document, cost, e)
    BY <2>1, ReconciledAll DEF CostsOK
  <2> QED BY <2>2, <2>3, <2>4, ReconciledStays
<1>12. CostsReconcile'
  BY <1>10, <1>11, ReconciledAll DEF L
<1> QED BY <1>8, <1>9, <1>12

LEMMA CostsNext ==
  ASSUME CostsOK, RowsOK, [PurchasesNext]_purchasesVars
  PROVE  CostsOK'
<1> USE PurchasesAssumption
<1>1. ASSUME UNCHANGED <<imported, document, cost>>,
             sourceSetNumber' \in [ItemIds -> SetNumbers \union {NoSetNumber}],
             disposition' \in [ItemIds -> {"INVENTORY", "NON_INVENTORY"}]
      PROVE  CostsOK'
  <2>1. CostsReconcile'
    BY <1>1, ReconciledAll DEF CostsOK
  <2> QED BY <1>1, <2>1 DEF CostsOK
<1>2. ASSUME NEW d \in Docs, ImportDocument(d) PROVE CostsOK'
  <2>1. PICK stated \in [LinesOf(d) -> LineCosts], extra \in Extras,
             named \in [LinesOf(d) -> SetNumbers \union {NoSetNumber}] :
          /\ imported' = imported \union {d}
          /\ Recalculate(d, [i \in LinesOf(d) |-> stated[i].quantity], [i \in LinesOf(d) |-> stated[i].unit],
                         [i \in LinesOf(d) |-> stated[i].total], extra)
          /\ sourceSetNumber' = [i \in ItemIds |-> IF DocOf[i] = d THEN named[i] ELSE sourceSetNumber[i]]
          /\ UNCHANGED disposition
    BY <1>2, Zenon DEF ImportDocument
  <2> DEFINE unit == [i \in LinesOf(d) |-> stated[i].unit]
             total == [i \in LinesOf(d) |-> stated[i].total]
  <2>2. /\ unit \in [LinesOf(d) -> Nat] /\ total \in [LinesOf(d) -> Nat]
        /\ extra \in [shipping : Nat, discount : Nat]
    <3>1. \A i \in LinesOf(d) : stated[i].unit \in Nat /\ stated[i].total \in Nat
      OBVIOUS
    <3> QED BY <3>1
  <2>3. /\ document' \in [Docs -> [merchandise : Nat, shipping : Nat, discount : Nat, paid : Nat]]
        /\ cost' \in [ItemIds -> [unit : Nat, total : Nat, shipping : Nat, discount : Nat, final : Nat]]
        /\ CostsReconcile'
    <3> HIDE DEF unit, total
    <3>1. Recalculate(d, [i \in LinesOf(d) |-> stated[i].quantity], unit, total, extra)
      BY <2>1 DEF unit, total
    <3> QED BY <2>1, <2>2, <3>1, RecalculationReconciles
  <2>4. sourceSetNumber' \in [ItemIds -> SetNumbers \union {NoSetNumber}]
    BY <2>1 DEF CostsOK, LinesOf
  <2> QED BY <2>1, <2>3, <2>4 DEF CostsOK
<1>3. ASSUME NEW i \in ItemIds, NEW q \in 1..MaxQuantity, NEW price \in UnitCosts,
             NEW name \in SetNumbers \union {NoSetNumber}, amendReviewLine(i, q, price, name)
      PROVE  CostsOK'
  <2> DEFINE d == DocOf[i]
             unit == AmendedUnit(i, price)
             total == AmendedTotal(i, q, price)
  <2>1. /\ UNCHANGED <<imported, disposition>>
        /\ sourceSetNumber' \in [ItemIds -> SetNumbers \union {NoSetNumber}]
    BY <1>3 DEF amendReviewLine, CostsOK
  <2>2. CASE UNCHANGED <<document, quantity, cost>>
    BY <1>1, <2>1, <2>2 DEF CostsOK
  <2>3. CASE Recalculate(d, AmendedQuantity(i, q), unit, total, ExtraOf(d))
    <3>1. q * price \in Nat /\ price \in Nat
      <4>1. \A x, y \in Nat : x * y \in Nat
        OBVIOUS
      <4> QED BY <4>1
    <3>2. unit \in [LinesOf(d) -> Nat] /\ total \in [LinesOf(d) -> Nat]
      <4>1. \A j \in LinesOf(d) : cost[j].unit \in Nat /\ cost[j].total \in Nat
        BY DEF CostsOK, LinesOf
      <4> QED BY <3>1, <4>1 DEF AmendedUnit, AmendedTotal
    <3>3. d \in Docs /\ ExtraOf(d) \in [shipping : Nat, discount : Nat]
      BY DEF ExtraOf, CostsOK
    <3>4. imported' \subseteq imported \union {d}
      BY <2>1
    <3> HIDE DEF d, unit, total
    <3>5. /\ document' \in [Docs -> [merchandise : Nat, shipping : Nat, discount : Nat, paid : Nat]]
          /\ cost' \in [ItemIds -> [unit : Nat, total : Nat, shipping : Nat, discount : Nat, final : Nat]]
          /\ CostsReconcile'
      BY <2>3, <3>2, <3>3, <3>4, RecalculationReconciles
    <3> QED BY <2>1, <3>5 DEF CostsOK
  <2> QED BY <1>3, <2>2, <2>3 DEF amendReviewLine
<1>4. ASSUME NEW group \in Groups, ReviewNext(group) PROVE CostsOK'
  <2>1. /\ UNCHANGED <<imported, document, cost, sourceSetNumber>>
        /\ disposition' \in [ItemIds -> {"INVENTORY", "NON_INVENTORY"}]
    BY <1>4 DEF ReviewNext, resolveReviewGroup, setReviewGroupDisposition, receiveReviewGroup,
                ReceiveLines, costVars, linkVars, CostsOK
  <2> QED BY <1>1, <2>1 DEF CostsOK
<1>5. ASSUME NEW i \in ItemIds, receivePurchaseItem(i) \/ returnPurchaseItem(i) PROVE CostsOK'
  <2>1. UNCHANGED <<imported, document, cost, sourceSetNumber, disposition>>
    BY <1>5 DEF receivePurchaseItem, returnPurchaseItem, ReceiveLines, costVars, linkVars
  <2> QED BY <1>1, <2>1 DEF CostsOK
<1>6. CASE ListingsNext \/ UNCHANGED purchasesVars
  <2>1. UNCHANGED <<imported, document, cost, sourceSetNumber, disposition>>
    BY <1>6 DEF ListingsNext, purchasesVars, purchaseVars, costVars, linkVars
  <2> QED BY <1>1, <2>1 DEF CostsOK
<1> QED BY <1>2, <1>3, <1>4, <1>5, <1>6 DEF PurchasesNext, LineNext

LEMMA CostsInit == PurchasesInit => CostsOK
<1> SUFFICES ASSUME PurchasesInit PROVE CostsOK
  OBVIOUS
<1>1. CostsReconcile
  BY DEF PurchasesInit, CostsReconcile
<1> QED BY <1>1 DEF PurchasesInit, CostsOK, NoDocument, NoCost

\* The columns keep their types, and every document reconciles.
THEOREM CostsInductive == PurchasesSpec => [](PurchasesInv /\ CostsOK)
<1>1. PurchasesInit => PurchasesInv /\ CostsOK
  BY PurchasesInitInv, CostsInit
<1>2. PurchasesInv /\ CostsOK /\ [PurchasesNext]_purchasesVars => PurchasesInv' /\ CostsOK'
  BY PurchasesNextInv, CostsNext DEF PurchasesInv
<1> QED BY <1>1, <1>2, PTL DEF PurchasesSpec

\* Every column of the purchase keeps its type: in particular no line and no
\* document ever costs less than nothing.
THEOREM PurchasesTypeCorrect == PurchasesSpec => []PurchasesTypeOK
<1>1. PurchasesInv /\ CostsOK => PurchasesTypeOK
  BY DEF PurchasesInv, RowsOK, CostsOK, PurchasesTypeOK
<1> QED BY <1>1, CostsInductive, PTL

\* After any imports and amendments, the lines of a document cost what was paid
\* for it to the penny, with shipping and discount shared out as nearly in
\* proportion as pennies allow: for any number of lines and any amounts.
THEOREM CostsAlwaysReconcile == PurchasesSpec => []CostsReconcile
<1>1. CostsOK => CostsReconcile
  BY DEF CostsOK
<1> QED BY <1>1, CostsInductive, PTL
=============================================================================
