----------------------------- MODULE RefundsProofs -----------------------------
(***************************************************************************)
(* The capacity of a payment, for any number of refunds, handlers and      *)
(* events.  The type and the capacity need each other: a finalisation only *)
(* looks at the reserved amount, and what bounds refundedAmount is the sum *)
(* of both.  A manual refund does not look at the reserved amount at all;  *)
(* that is sound only because a payment made manually never reserves.      *)
(*                                                                         *)
(* Then the books: the amounts of the payment against its refunds, and the *)
(* refunds against the provider.  Every step that moves capacity is one of *)
(* three moves (BooksMove): a refund opens, a manual one is booked, or one *)
(* ends as it did at the provider.                                         *)
(***************************************************************************)
EXTENDS Refunds, FiniteSetTheorems, TLAPS

ManualNeverReserves == paidWith = "MANUAL" => reservedRefundAmount = 0
RefundsIInv == RefundsTypeOK /\ RefundCapacityKept /\ ManualNeverReserves

LEMMA RefundsInitType == RefundsInit => RefundsIInv
BY RefundsAssumption DEF RefundsInit, RefundsIInv, RefundsTypeOK, RefundCapacityKept, ManualNeverReserves, NoCall

\* Settling a refund moves its amount within the capacity or gives it back.
LEMMA SettleKeeps ==
  ASSUME RefundsIInv, NEW r \in RefundIds, NEW outcome, Settle(r, outcome)
  PROVE  /\ refundedAmount' \in 0..PaymentAmount
         /\ reservedRefundAmount' \in 0..PaymentAmount
         /\ refundedAmount' + reservedRefundAmount' <= PaymentAmount
         /\ reservedRefundAmount = 0 => reservedRefundAmount' = 0
         /\ status' \in [RefundIds -> RefundStatuses \union {"NONE"}]
<1> USE RefundsAssumption DEF RefundsIInv, RefundsTypeOK, RefundCapacityKept, ManualNeverReserves, Held, RefundStatuses
<1>0. amount[r] \in 0..PaymentAmount
  OBVIOUS
<1>1. CASE outcome = "succeeded" /\ finalizeRefundCapacity(amount[r])
           /\ status' = [status EXCEPT ![r] = "SUCCEEDED"]
  BY <1>0, <1>1 DEF finalizeRefundCapacity
<1>2. CASE outcome = "failed" /\ releaseRefundCapacity(amount[r])
           /\ status' = [status EXCEPT ![r] = "FAILED"]
  BY <1>0, <1>2 DEF releaseRefundCapacity
<1>3. CASE UNCHANGED <<capacityVars, status>>
  BY <1>3 DEF capacityVars
<1> QED BY <1>1, <1>2, <1>3 DEF Settle

\* A step of a refund handler.
LEMMA CallKeeps == ASSUME RefundsIInv, NEW c \in RefundCalls, CallNext(c) PROVE RefundsIInv'
<1> USE RefundsAssumption DEF RefundsIInv, RefundsTypeOK, RefundCapacityKept, ManualNeverReserves
<1>1. ASSUME NEW r \in RefundIds, NEW a \in 1..PaymentAmount, StartRefund(c, r, a)
      PROVE  RefundsIInv'
  <2>1. reservedRefundAmount + a \in 0..PaymentAmount
    BY <1>1 DEF StartRefund, reserveRefundCapacity
  <2>2. amount' \in [RefundIds -> 0..PaymentAmount]
    BY <1>1 DEF StartRefund
  <2>3. refundedAmount' + reservedRefundAmount' <= PaymentAmount
    BY <1>1, <2>1 DEF StartRefund, reserveRefundCapacity
  <2> QED BY <1>1, <2>1, <2>2, <2>3
          DEF StartRefund, reserveRefundCapacity, RefundStatuses, providerVars
<1>2. ASSUME NEW r \in RefundIds, RetryRefund(c, r) PROVE RefundsIInv'
  BY <1>2 DEF RetryRefund, capacityVars, providerVars
<1>3. ASSUME NEW outcome \in RemoteStates, AskProvider(c, outcome) PROVE RefundsIInv'
  <2>1. call[c].step = "asking"
    BY <1>3 DEF AskProvider
  <2>2. call[c].refund \in RefundIds
    BY <2>1 DEF NoCall
  <2>3. call' \in [RefundCalls -> [step : {"asking"}, refund : RefundIds]
                     \union [step : {"answered"}, refund : RefundIds, answer : RemoteStates]
                     \union {NoCall}]
    BY <1>3, <2>2 DEF AskProvider
  <2>4. CASE ProviderRefunds(call[c].refund, outcome)
    <3>1. <<call[c].refund, "created">> \in Deliveries
      BY <2>2 DEF Deliveries, EventTypes
    <3>2. news' \in [Deliveries -> RemoteStates \union {"none"}]
      BY <2>4, <3>1 DEF ProviderRefunds
    <3> QED BY <1>3, <2>3, <2>4, <3>2 DEF AskProvider, ProviderRefunds, capacityVars
  <2>5. CASE ProviderReplays(call[c].refund, outcome)
    BY <1>3, <2>3, <2>5 DEF AskProvider, ProviderReplays, capacityVars, providerVars
  <2> QED BY <1>3, <2>4, <2>5 DEF AskProvider
<1>4. CASE RecordAnswer(c)
  <2>1. call[c].step = "answered" /\ call[c].refund \in RefundIds
    BY <1>4 DEF RecordAnswer, NoCall
  <2>2. Settle(call[c].refund, AnswerOf(c))
    BY <1>4 DEF RecordAnswer
  <2> HIDE DEF RefundsIInv
  <2>3. /\ refundedAmount' \in 0..PaymentAmount
        /\ reservedRefundAmount' \in 0..PaymentAmount
        /\ refundedAmount' + reservedRefundAmount' <= PaymentAmount
        /\ reservedRefundAmount = 0 => reservedRefundAmount' = 0
        /\ status' \in [RefundIds -> RefundStatuses \union {"NONE"}]
    BY <2>1, <2>2, SettleKeeps
  <2> USE DEF RefundsIInv
  <2> QED BY <1>4, <2>3 DEF RecordAnswer, providerVars
<1>5. CASE AbandonCall(c)
  BY <1>5 DEF AbandonCall, capacityVars, providerVars
<1> QED BY <1>1, <1>2, <1>3, <1>4, <1>5 DEF CallNext

LEMMA RefundsNextKeeps == RefundsIInv /\ [RefundsNext]_refundVars => RefundsIInv'
<1> SUFFICES ASSUME RefundsIInv, [RefundsNext]_refundVars PROVE RefundsIInv'
  OBVIOUS
<1>1. ASSUME NEW r \in RefundIds, NEW a \in 1..PaymentAmount, createRefund(r, a)
      PROVE  RefundsIInv'
  <2> USE RefundsAssumption DEF RefundsIInv, RefundsTypeOK, RefundCapacityKept, ManualNeverReserves
  <2>1. paidWith = "MANUAL" /\ refundedAmount + a \in 0..PaymentAmount
    BY <1>1 DEF createRefund
  <2>2. amount' \in [RefundIds -> 0..PaymentAmount]
    BY <1>1 DEF createRefund
  <2> QED BY <1>1, <2>1, <2>2 DEF createRefund, RefundStatuses, providerVars
<1>2. ASSUME NEW c \in RefundCalls, CallNext(c) PROVE RefundsIInv'
  BY <1>2, CallKeeps
<1>3. ASSUME NEW d \in Deliveries, reconcileStripeRefundEvent(d) PROVE RefundsIInv'
  <2>1. d[1] \in RefundIds
    BY DEF Deliveries
  <2>2. CASE Settle(d[1], news[d])
    <3>1. /\ refundedAmount' \in 0..PaymentAmount
          /\ reservedRefundAmount' \in 0..PaymentAmount
          /\ refundedAmount' + reservedRefundAmount' <= PaymentAmount
          /\ reservedRefundAmount = 0 => reservedRefundAmount' = 0
          /\ status' \in [RefundIds -> RefundStatuses \union {"NONE"}]
      BY <2>1, <2>2, SettleKeeps
    <3> QED BY <1>3, <3>1
            DEF reconcileStripeRefundEvent, providerVars, RefundsIInv, RefundsTypeOK,
                RefundCapacityKept, ManualNeverReserves
  <2>3. CASE UNCHANGED <<capacityVars, status>>
    BY <1>3, <2>3 DEF reconcileStripeRefundEvent, capacityVars, providerVars, RefundsIInv,
       RefundsTypeOK, RefundCapacityKept, ManualNeverReserves
  <2> QED BY <1>3, <2>2, <2>3 DEF reconcileStripeRefundEvent
<1>4. ASSUME NEW d \in Deliveries, ReceiveRefundEvent(d) \/ AbandonEvent(d) PROVE RefundsIInv'
  <2>1. status[d[1]] \in RefundStatuses \union {"NONE"}
    BY DEF Deliveries, RefundsIInv, RefundsTypeOK
  <2> QED BY <1>4, <2>1 DEF ReceiveRefundEvent, AbandonEvent, capacityVars, providerVars, RefundsIInv,
             RefundsTypeOK, RefundCapacityKept, ManualNeverReserves
<1>5. ASSUME NEW r \in RefundIds, NEW outcome \in RemoteStates,
             ProviderSettles(r, outcome) \/ ProviderAmends(r)
      PROVE  RefundsIInv'
  BY <1>5 DEF ProviderSettles, ProviderAmends, capacityVars, RefundsIInv, RefundsTypeOK,
     RefundCapacityKept, ManualNeverReserves, RemoteStates, Deliveries, EventTypes
<1>6. ASSUME UNCHANGED refundVars PROVE RefundsIInv'
  BY <1>6 DEF refundVars, capacityVars, providerVars, RefundsIInv, RefundsTypeOK,
     RefundCapacityKept, ManualNeverReserves
<1>7. ASSUME NEW r \in RefundIds, ProviderAmends(r) PROVE RefundsIInv'
  BY <1>5, <1>7 DEF RemoteStates
<1> QED BY <1>1, <1>2, <1>3, <1>4, <1>5, <1>6, <1>7 DEF RefundsNext

LEMMA RefundsInductive == RefundsSpec => []RefundsIInv
BY RefundsInitType, RefundsNextKeeps, PTL DEF RefundsSpec

\* Neither amount of a payment leaves 0..PaymentAmount, and every row keeps its type.
THEOREM RefundsTypeCorrect == RefundsSpec => []RefundsTypeOK
<1>1. RefundsIInv => RefundsTypeOK
  BY DEF RefundsIInv
<1> QED BY <1>1, RefundsInductive, PTL

\* No interleaving of requests, answers, retries, crashes and events refunds or
\* reserves more than was paid, not even where a refund is settled twice.
THEOREM RefundsWithinPayment == RefundsSpec => []RefundCapacityKept
<1>1. RefundsIInv => RefundCapacityKept
  BY DEF RefundsIInv
<1> QED BY <1>1, RefundsInductive, PTL

-----------------------------------------------------------------------------
(* What answers and events say.  A refund is settled on the word of an     *)
(* answer or an event that may be old; it can be believed because the      *)
(* provider never changes its mind about a refund that ended.              *)

Final == {"succeeded", "failed"}
Made == RefundIds \ InStatus("NONE")

\* Word of a refund's end, from a first answer, an event or a call, is still true.
WordIsTrue ==
  /\ \A r \in RefundIds : answered[r] \in Final => remote[r] = answered[r]
  /\ \A d \in Deliveries : news[d] \in Final => remote[d[1]] = news[d]
  /\ \A c \in RefundCalls :
       call[c].step = "answered" /\ call[c].answer \in Final => remote[call[c].refund] = call[c].answer

\* Nobody works on a refund that was not made, nor at a provider for a manual one.
WorkIsOnRefunds ==
  /\ \A r \in RefundIds : /\ status[r] # "NONE" => amount[r] > 0
                          /\ status[r] = "PROCESSING" => paidWith # "MANUAL"
  /\ \A c \in RefundCalls : call[c] # NoCall => call[c].refund \in Made /\ paidWith # "MANUAL"
  /\ \A r \in RefundIds : remote[r] # "none" => r \in Made
  /\ \A d \in Deliveries :
       /\ news[d] # "none" => d[1] \in Made /\ paidWith # "MANUAL"
       /\ seen[d] # "idle" => news[d] # "none"

AtMostOne(refunds) == \A r, s \in refunds : r = s

\* The accounts are exact for manual refunds and for a single one.
LoneAccounts == paidWith = "MANUAL" \/ AtMostOne(Made) => AccountsMatchRefunds

BooksInv ==
  /\ WordIsTrue
  /\ WorkIsOnRefunds
  /\ SucceededIsCounted
  /\ ReservedForProcessing
  /\ OutcomeIsTrue
  /\ LoneAccounts

-----------------------------------------------------------------------------
(* Totals.  A refund that joins or leaves a set moves its total by its     *)
(* own amount.                                                             *)

UnitsOf(quantity, refunds) ==
  {unit \in refunds \X (1..PaymentAmount) : unit[2] <= quantity[unit[1]]}

Sum(quantity, refunds) == Cardinality(UnitsOf(quantity, refunds))

Agree(before, after, refunds) == \A r \in refunds : after[r] = before[r]

LEMMA UnitsFinite ==
  ASSUME NEW quantity, NEW refunds \in SUBSET RefundIds
  PROVE  IsFiniteSet(UnitsOf(quantity, refunds)) /\ Sum(quantity, refunds) \in Nat
<1>1. IsFiniteSet(refunds)
  BY RefundsAssumption, FS_Subset
<1>2. IsFiniteSet(1..PaymentAmount)
  BY RefundsAssumption, FS_Interval
<1>3. IsFiniteSet(refunds \X (1..PaymentAmount))
  BY <1>1, <1>2, FS_Product
<1>4. UnitsOf(quantity, refunds) \in SUBSET (refunds \X (1..PaymentAmount))
  BY DEF UnitsOf
<1>5. IsFiniteSet(UnitsOf(quantity, refunds))
  BY <1>3, <1>4, FS_Subset
<1> QED BY <1>5, FS_CardinalityType DEF Sum

LEMMA UnitsOfOne ==
  ASSUME NEW quantity, NEW r, NEW n \in 0..PaymentAmount, quantity[r] = n
  PROVE  Sum(quantity, {r}) = n
<1> USE RefundsAssumption
<1>1. UnitsOf(quantity, {r}) = {r} \X (1..n)
  <2>1. ASSUME NEW unit \in {r} \X (1..PaymentAmount)
        PROVE  unit[2] <= quantity[unit[1]] <=> unit \in {r} \X (1..n)
    OBVIOUS
  <2>2. {r} \X (1..n) \subseteq {r} \X (1..PaymentAmount)
    OBVIOUS
  <2> QED BY <2>1, <2>2 DEF UnitsOf
<1>2. IsFiniteSet({r}) /\ Cardinality({r}) = 1
  BY FS_Singleton
<1>3. IsFiniteSet(1..n) /\ Cardinality(1..n) = n
  BY FS_Interval
<1>4. Cardinality({r} \X (1..n)) = Cardinality({r}) * Cardinality(1..n)
  BY <1>2, <1>3, FS_Product, Zenon
<1>5. Cardinality({r}) * Cardinality(1..n) = n
  <2> DEFINE one == Cardinality({r})
             many == Cardinality(1..n)
  <2>1. one = 1 /\ many = n
    BY <1>2, <1>3
  <2> HIDE DEF one, many
  <2>2. one * many = n
    BY <2>1
  <2> QED BY <2>2 DEF one, many
<1> QED BY <1>1, <1>4, <1>5, Zenon DEF Sum

\* The total of a set does not depend on the amounts of other refunds.
LEMMA SumSame ==
  ASSUME NEW before, NEW after, NEW refunds, Agree(before, after, refunds)
  PROVE  Sum(after, refunds) = Sum(before, refunds)
<1>1. UnitsOf(after, refunds) = UnitsOf(before, refunds)
  BY DEF UnitsOf, Agree
<1> QED BY <1>1, Zenon DEF Sum

\* A refund that joins a set adds its amount, unless it was there.
LEMMA SumJoins ==
  ASSUME NEW before, NEW after, NEW refunds \in SUBSET RefundIds, NEW r \in RefundIds, r \notin refunds,
         Agree(before, after, refunds), NEW n \in 0..PaymentAmount, after[r] = n
  PROVE  Sum(after, refunds \union {r}) = Sum(before, refunds) + n
<1> DEFINE A == UnitsOf(before, refunds)
           B == UnitsOf(after, {r})
           C == UnitsOf(after, refunds \union {r})
<1>1. C = A \union B /\ A \intersect B = {}
  <2>1. A = UnitsOf(after, refunds)
    BY DEF UnitsOf, Agree
  <2> QED BY <2>1 DEF UnitsOf
<1>2. IsFiniteSet(A) /\ IsFiniteSet(B)
  BY UnitsFinite
<1>3. Cardinality(B) = n
  BY UnitsOfOne, Zenon DEF Sum
<1>4. Cardinality(C) = Cardinality(A) + n
  <2> HIDE DEF A, B, C
  <2>1. Cardinality(A \union B) = Cardinality(A) + Cardinality(B) - Cardinality(A \intersect B)
    BY <1>2, FS_Union, Zenon
  <2>2. Cardinality(A) \in Nat
    BY <1>2, FS_CardinalityType
  <2>3. Cardinality(A \intersect B) = 0
    BY <1>1, FS_EmptySet, Zenon
  <2>4. Cardinality(C) = Cardinality(A \union B)
    BY <1>1, Zenon
  <2> QED BY <1>3, <2>1, <2>2, <2>3, <2>4
<1> QED BY <1>4, Zenon DEF Sum

\* And takes it when it leaves.
LEMMA SumLeaves ==
  ASSUME NEW quantity, NEW refunds \in SUBSET RefundIds, NEW r \in refunds,
         NEW n \in 0..PaymentAmount, quantity[r] = n
  PROVE  Sum(quantity, refunds \ {r}) = Sum(quantity, refunds) - n
<1> DEFINE rest == refunds \ {r}
<1>1. /\ rest \in SUBSET RefundIds /\ r \in RefundIds /\ r \notin rest
      /\ rest \union {r} = refunds /\ Agree(quantity, quantity, rest)
  BY DEF Agree
<1> HIDE DEF rest
<1>2. Sum(quantity, rest \union {r}) = Sum(quantity, rest) + n
  BY <1>1, SumJoins
<1>3. Sum(quantity, rest) \in Nat
  BY <1>1, UnitsFinite
<1>4. Sum(quantity, rest \union {r}) = Sum(quantity, refunds)
  BY <1>1, Zenon
<1>5. Sum(quantity, rest) = Sum(quantity, refunds) - n
  BY <1>2, <1>3, <1>4
<1> QED BY <1>5 DEF rest

-----------------------------------------------------------------------------
(* What a step does to the books.                                          *)

Opens(r) ==
  /\ paidWith # "MANUAL" /\ status[r] = "NONE"
  /\ \E a \in 1..PaymentAmount :
       /\ reservedRefundAmount' = reservedRefundAmount + a
       /\ amount' = [amount EXCEPT ![r] = a]
  /\ status' = [status EXCEPT ![r] = "PROCESSING"]
  /\ UNCHANGED refundedAmount

Books(r) ==
  /\ paidWith = "MANUAL" /\ status[r] = "NONE"
  /\ \E a \in 1..PaymentAmount :
       /\ refundedAmount' = refundedAmount + a
       /\ amount' = [amount EXCEPT ![r] = a]
  /\ status' = [status EXCEPT ![r] = "SUCCEEDED"]
  /\ UNCHANGED reservedRefundAmount

Ends(r) ==
  /\ paidWith # "MANUAL" /\ status[r] # "NONE"
  /\ \/ /\ remote[r] = "succeeded" /\ finalizeRefundCapacity(amount[r])
        /\ status' = [status EXCEPT ![r] = "SUCCEEDED"]
     \/ /\ remote[r] = "failed" /\ releaseRefundCapacity(amount[r])
        /\ status' = [status EXCEPT ![r] = "FAILED"]
  /\ UNCHANGED amount

BooksMove ==
  /\ \/ UNCHANGED <<capacityVars, status, amount>>
     \/ \E r \in RefundIds : Opens(r) \/ Books(r) \/ Ends(r)
  /\ \A r \in RefundIds : remote[r] \in Final => remote'[r] = remote[r]
  /\ UNCHANGED paidWith

\* Settling on a true word ends the refund as the provider did.
LEMMA SettleEnds ==
  ASSUME RefundsTypeOK, NEW r \in Made, NEW outcome, Settle(r, outcome), paidWith # "MANUAL",
         outcome \in Final => remote[r] = outcome, UNCHANGED <<amount, remote, paidWith>>
  PROVE  BooksMove
<1>1. r \in RefundIds /\ status[r] # "NONE"
  BY DEF Made, InStatus
<1> QED BY <1>1 DEF Settle, BooksMove, Ends, Final

\* A step of a handler of a refund request.
LEMMA CallMoves ==
  ASSUME RefundsTypeOK, BooksInv, NEW c \in RefundCalls, CallNext(c)
  PROVE  BooksMove
<1>1. ASSUME NEW r \in RefundIds, NEW a \in 1..PaymentAmount, StartRefund(c, r, a) PROVE BooksMove
  BY <1>1 DEF StartRefund, reserveRefundCapacity, BooksMove, Opens, providerVars
<1>2. ASSUME NEW r \in RefundIds, RetryRefund(c, r) PROVE BooksMove
  BY <1>2 DEF RetryRefund, BooksMove, providerVars
<1>3. ASSUME NEW outcome \in RemoteStates, AskProvider(c, outcome) PROVE BooksMove
  <2>1. call[c].refund \in RefundIds
    BY <1>3 DEF AskProvider, RefundsTypeOK, NoCall
  <2> QED BY <1>3, <2>1
          DEF AskProvider, ProviderRefunds, ProviderReplays, BooksMove, providerVars, Final, RefundsTypeOK
<1>4. CASE RecordAnswer(c)
  <2>1. call[c] # NoCall /\ call[c].step = "answered"
    BY <1>4 DEF RecordAnswer, NoCall
  <2>2. call[c].refund \in Made /\ paidWith # "MANUAL"
    BY <2>1 DEF BooksInv, WorkIsOnRefunds
  <2>3. AnswerOf(c) \in Final => remote[call[c].refund] = AnswerOf(c)
    BY <2>1 DEF BooksInv, WordIsTrue, AnswerOf
  <2>4. Settle(call[c].refund, AnswerOf(c)) /\ UNCHANGED <<amount, remote, paidWith>>
    BY <1>4 DEF RecordAnswer, providerVars
  <2> QED BY <2>2, <2>3, <2>4, SettleEnds
<1>5. CASE AbandonCall(c)
  BY <1>5 DEF AbandonCall, BooksMove, providerVars
<1> QED BY <1>1, <1>2, <1>3, <1>4, <1>5 DEF CallNext

LEMMA NextMoves ==
  ASSUME RefundsTypeOK, BooksInv, [RefundsNext]_refundVars
  PROVE  BooksMove
<1>1. ASSUME NEW r \in RefundIds, NEW a \in 1..PaymentAmount, createRefund(r, a) PROVE BooksMove
  BY <1>1 DEF createRefund, BooksMove, Books, providerVars
<1>2. ASSUME NEW c \in RefundCalls, CallNext(c) PROVE BooksMove
  BY <1>2, CallMoves
<1>3. ASSUME NEW r \in RefundIds, NEW outcome \in RemoteStates, ProviderSettles(r, outcome) PROVE BooksMove
  BY <1>3 DEF ProviderSettles, BooksMove, capacityVars, Final, RefundsTypeOK
<1>4. ASSUME NEW r \in RefundIds, ProviderAmends(r) PROVE BooksMove
  BY <1>4 DEF ProviderAmends, BooksMove
<1>5. ASSUME NEW d \in Deliveries, ReceiveRefundEvent(d) \/ AbandonEvent(d) PROVE BooksMove
  BY <1>5 DEF ReceiveRefundEvent, AbandonEvent, BooksMove, providerVars
<1>6. ASSUME NEW d \in Deliveries, reconcileStripeRefundEvent(d) PROVE BooksMove
  <2>1. CASE UNCHANGED <<capacityVars, status>>
    BY <1>6, <2>1 DEF reconcileStripeRefundEvent, BooksMove, providerVars
  <2>2. CASE Settle(d[1], news[d])
    <3>1. d[1] \in Made /\ paidWith # "MANUAL" /\ (news[d] \in Final => remote[d[1]] = news[d])
      BY <1>6 DEF reconcileStripeRefundEvent, BooksInv, WorkIsOnRefunds, WordIsTrue
    <3>2. UNCHANGED <<amount, remote, paidWith>>
      BY <1>6 DEF reconcileStripeRefundEvent, providerVars
    <3> QED BY <2>2, <3>1, <3>2, SettleEnds
  <2> QED BY <1>6, <2>1, <2>2 DEF reconcileStripeRefundEvent
<1>7. CASE UNCHANGED refundVars
  BY <1>7 DEF refundVars, BooksMove, providerVars
<1> QED BY <1>1, <1>2, <1>3, <1>4, <1>5, <1>6, <1>7 DEF RefundsNext

-----------------------------------------------------------------------------
(* The books hold through every such move.                                 *)

With(statuses, s) == {r \in RefundIds : statuses[r] = s}

LEMMA TotalIsSum ==
  ASSUME NEW s
  PROVE  /\ Total(InStatus(s)) = Sum(amount, With(status, s))
         /\ Total(InStatus(s))' = Sum(amount', With(status', s))
BY DEF Total, InStatus, Sum, UnitsOf, With

LEMMA NobodyWith == ASSUME NEW quantity PROVE Sum(quantity, {}) = 0
<1>1. UnitsOf(quantity, {}) = {}
  BY DEF UnitsOf
<1> QED BY <1>1, FS_EmptySet, Zenon DEF Sum

\* A refund is opened: its amount is held and nothing else moves.
LEMMA OpensKeeps ==
  ASSUME RefundsTypeOK, RefundsTypeOK', NEW r \in RefundIds, Opens(r)
  PROVE  /\ Sum(amount', With(status', "SUCCEEDED")) = Sum(amount, With(status, "SUCCEEDED"))
         /\ \E a \in 1..PaymentAmount :
              /\ Sum(amount', With(status', "PROCESSING")) = Sum(amount, With(status, "PROCESSING")) + a
              /\ reservedRefundAmount' = reservedRefundAmount + a
<1>1. PICK a \in 1..PaymentAmount : /\ reservedRefundAmount' = reservedRefundAmount + a
                                    /\ amount' = [amount EXCEPT ![r] = a]
  BY DEF Opens
<1>2. status[r] = "NONE" /\ status' = [status EXCEPT ![r] = "PROCESSING"]
  BY DEF Opens
<1> DEFINE D == With(status, "SUCCEEDED")
           P == With(status, "PROCESSING")
<1>3. /\ With(status', "SUCCEEDED") = D /\ With(status', "PROCESSING") = P \union {r}
      /\ D \in SUBSET RefundIds /\ P \in SUBSET RefundIds /\ r \notin P /\ r \notin D
  BY <1>2 DEF With, RefundsTypeOK
<1>4. amount'[r] = a /\ a \in 0..PaymentAmount
  BY <1>1, RefundsAssumption DEF RefundsTypeOK
<1>5. Agree(amount, amount', D) /\ Agree(amount, amount', P)
  BY <1>1, <1>3 DEF RefundsTypeOK, Agree
<1> HIDE DEF D, P
<1>6. Sum(amount', D) = Sum(amount, D)
  BY <1>5, SumSame
<1>7. Sum(amount', P \union {r}) = Sum(amount, P) + a
  BY <1>3, <1>4, <1>5, SumJoins
<1> QED BY <1>1, <1>3, <1>6, <1>7 DEF D, P

\* A manual refund is booked: its amount is refunded and nothing else moves.
LEMMA BooksKeeps ==
  ASSUME RefundsTypeOK, RefundsTypeOK', NEW r \in RefundIds, Books(r)
  PROVE  /\ Sum(amount', With(status', "PROCESSING")) = Sum(amount, With(status, "PROCESSING"))
         /\ \E a \in 1..PaymentAmount :
              /\ Sum(amount', With(status', "SUCCEEDED")) = Sum(amount, With(status, "SUCCEEDED")) + a
              /\ refundedAmount' = refundedAmount + a
<1>1. PICK a \in 1..PaymentAmount : /\ refundedAmount' = refundedAmount + a
                                    /\ amount' = [amount EXCEPT ![r] = a]
  BY DEF Books
<1>2. status[r] = "NONE" /\ status' = [status EXCEPT ![r] = "SUCCEEDED"]
  BY DEF Books
<1> DEFINE D == With(status, "SUCCEEDED")
           P == With(status, "PROCESSING")
<1>3. /\ With(status', "SUCCEEDED") = D \union {r} /\ With(status', "PROCESSING") = P
      /\ D \in SUBSET RefundIds /\ P \in SUBSET RefundIds /\ r \notin P /\ r \notin D
  BY <1>2 DEF With, RefundsTypeOK
<1>4. amount'[r] = a /\ a \in 0..PaymentAmount
  BY <1>1, RefundsAssumption DEF RefundsTypeOK
<1>5. Agree(amount, amount', D) /\ Agree(amount, amount', P)
  BY <1>1, <1>3 DEF RefundsTypeOK, Agree
<1> HIDE DEF D, P
<1>6. Sum(amount', P) = Sum(amount, P)
  BY <1>5, SumSame
<1>7. Sum(amount', D \union {r}) = Sum(amount, D) + a
  BY <1>3, <1>4, <1>5, SumJoins
<1> QED BY <1>1, <1>3, <1>6, <1>7 DEF D, P

\* The amounts of settled refunds do not change: only their sets do.
LEMMA EndsKeeps ==
  ASSUME RefundsTypeOK, OutcomeIsTrue, NEW r \in RefundIds, Ends(r)
  PROVE  \/ /\ status[r] = "PROCESSING"
            /\ Sum(amount', With(status', "PROCESSING")) = Sum(amount, With(status, "PROCESSING")) - amount[r]
            /\ \/ /\ finalizeRefundCapacity(amount[r])
                  /\ Sum(amount', With(status', "SUCCEEDED")) = Sum(amount, With(status, "SUCCEEDED")) + amount[r]
               \/ /\ releaseRefundCapacity(amount[r])
                  /\ Sum(amount', With(status', "SUCCEEDED")) = Sum(amount, With(status, "SUCCEEDED"))
         \/ /\ status[r] \in {"SUCCEEDED", "FAILED"}
            /\ status' = status
            /\ finalizeRefundCapacity(amount[r]) \/ releaseRefundCapacity(amount[r])
<1> DEFINE D == With(status, "SUCCEEDED")
           P == With(status, "PROCESSING")
           n == amount[r]
<1>1. n \in 0..PaymentAmount /\ amount' = amount
  BY DEF RefundsTypeOK, Ends
<1>2. CASE status[r] = "PROCESSING"
  <2>1. /\ D \in SUBSET RefundIds /\ P \in SUBSET RefundIds /\ r \in P /\ r \notin D
        /\ With(status', "PROCESSING") = P \ {r}
    BY <1>2 DEF Ends, With, RefundsTypeOK
  <2>2. \/ finalizeRefundCapacity(n) /\ With(status', "SUCCEEDED") = D \union {r}
        \/ releaseRefundCapacity(n) /\ With(status', "SUCCEEDED") = D
    BY <1>2 DEF Ends, With, RefundsTypeOK
  <2>3. Sum(amount, P \ {r}) = Sum(amount, P) - n
    <3>1. amount[r] = n
      OBVIOUS
    <3>2. P \in SUBSET RefundIds /\ r \in P /\ n \in 0..PaymentAmount
      BY <1>1, <2>1
    <3> HIDE DEF P, n
    <3> QED BY <3>1, <3>2, SumLeaves
  <2>4. Sum(amount, D \union {r}) = Sum(amount, D) + n
    <3>1. Agree(amount, amount, D)
      BY DEF Agree
    <3> HIDE DEF D
    <3> QED BY <1>1, <2>1, <3>1, SumJoins
  <2> HIDE DEF D, P
  <2> QED BY <1>1, <1>2, <2>1, <2>2, <2>3, <2>4 DEF D, P
<1>3. CASE status[r] # "PROCESSING"
  <2>1. status[r] \in {"SUCCEEDED", "FAILED"}
    BY <1>3 DEF Ends, RefundsTypeOK, RefundStatuses
  <2>2. /\ status[r] = "SUCCEEDED" => remote[r] = "succeeded"
        /\ status[r] = "FAILED" => remote[r] = "failed"
    BY DEF Ends, OutcomeIsTrue, InStatus
  <2> QED BY <2>1, <2>2 DEF Ends, RefundsTypeOK
<1> QED BY <1>2, <1>3

\* Succeeded refunds are booked and capacity is held for open ones, through every move.
LEMMA BooksStayTrue ==
  ASSUME RefundsTypeOK, RefundsTypeOK', BooksInv, BooksMove
  PROVE  SucceededIsCounted' /\ ReservedForProcessing' /\ LoneAccounts'
<1> DEFINE S == Sum(amount, With(status, "SUCCEEDED"))
           P == Sum(amount, With(status, "PROCESSING"))
           S2 == Sum(amount', With(status', "SUCCEEDED"))
           P2 == Sum(amount', With(status', "PROCESSING"))
           alone == paidWith = "MANUAL" \/ AtMostOne(Made)
           Goal == /\ refundedAmount' >= S2 /\ reservedRefundAmount' <= P2
                   /\ alone => refundedAmount' = S2 /\ reservedRefundAmount' = P2
<1>1. S \in Nat /\ P \in Nat /\ S2 \in Nat /\ P2 \in Nat
  BY UnitsFinite DEF With
<1>2. refundedAmount >= S /\ reservedRefundAmount <= P
  BY TotalIsSum DEF BooksInv, SucceededIsCounted, ReservedForProcessing
<1>3. alone => refundedAmount = S /\ reservedRefundAmount = P
  BY TotalIsSum DEF BooksInv, LoneAccounts, AccountsMatchRefunds
<1>4. refundedAmount \in Nat /\ reservedRefundAmount \in Nat
  BY RefundsAssumption DEF RefundsTypeOK
<1>5. Goal
  <2>1. CASE UNCHANGED <<capacityVars, status, amount>>
    <3>1. S2 = S /\ P2 = P
      BY <2>1
    <3> HIDE DEF S, P, S2, P2, alone
    <3> QED BY <1>2, <1>3, <2>1, <3>1 DEF capacityVars
  <2>2. ASSUME NEW r \in RefundIds, Opens(r) PROVE Goal
    <3>1. S2 = S /\ \E a \in 1..PaymentAmount : P2 = P + a /\ reservedRefundAmount' = reservedRefundAmount + a
      BY <2>2, OpensKeeps
    <3>2. refundedAmount' = refundedAmount
      BY <2>2 DEF Opens
    <3> HIDE DEF S, P, S2, P2, alone
    <3> QED BY <1>1, <1>2, <1>3, <1>4, <3>1, <3>2, RefundsAssumption
  <2>3. ASSUME NEW r \in RefundIds, Books(r) PROVE Goal
    <3>1. P2 = P /\ \E a \in 1..PaymentAmount : S2 = S + a /\ refundedAmount' = refundedAmount + a
      BY <2>3, BooksKeeps
    <3>2. reservedRefundAmount' = reservedRefundAmount
      BY <2>3 DEF Books
    <3> HIDE DEF S, P, S2, P2, alone
    <3> QED BY <1>1, <1>2, <1>3, <1>4, <3>1, <3>2, RefundsAssumption
  <2>4. ASSUME NEW r \in RefundIds, Ends(r) PROVE Goal
    <3> DEFINE n == amount[r]
    <3>1. n \in Nat /\ n > 0
      BY <2>4, RefundsAssumption DEF Ends, RefundsTypeOK, BooksInv, WorkIsOnRefunds
    <3>2. CASE /\ P2 = P - n
               /\ \/ finalizeRefundCapacity(n) /\ S2 = S + n
                  \/ releaseRefundCapacity(n) /\ S2 = S
      <4> HIDE DEF S, P, S2, P2, alone, n
      <4> QED BY <1>1, <1>2, <1>3, <1>4, <3>1, <3>2 DEF finalizeRefundCapacity, releaseRefundCapacity
    <3>3. CASE /\ status[r] \in {"SUCCEEDED", "FAILED"} /\ status' = status
               /\ finalizeRefundCapacity(n) \/ releaseRefundCapacity(n)
      <4>1. S2 = S /\ P2 = P
        BY <2>4, <3>3 DEF Ends
      <4>2. ~alone
        <5>1. SUFFICES ASSUME alone PROVE FALSE
          OBVIOUS
        <5>2. AtMostOne(Made)
          BY <2>4, <5>1 DEF Ends
        <5>3. With(status, "PROCESSING") = {}
          BY <3>3, <5>2 DEF AtMostOne, Made, InStatus, With
        <5>4. P = 0
          BY <5>3, NobodyWith, Zenon
        <5> HIDE DEF S, P, n, alone
        <5> QED BY <1>3, <1>4, <3>1, <3>3, <5>1, <5>4
            DEF finalizeRefundCapacity, releaseRefundCapacity, Held
      <4> HIDE DEF S, P, S2, P2, alone, n
      <4> QED BY <1>1, <1>2, <1>4, <3>1, <3>3, <4>1, <4>2
          DEF finalizeRefundCapacity, releaseRefundCapacity
    <3> QED BY <2>4, <3>2, <3>3, EndsKeeps DEF BooksInv
  <2> QED BY <2>1, <2>2, <2>3, <2>4 DEF BooksMove
<1>6. (paidWith = "MANUAL" \/ AtMostOne(Made))' => alone
  <2>1. Made \subseteq Made'
    BY DEF BooksMove, Opens, Books, Ends, Made, InStatus, RefundsTypeOK
  <2>2. paidWith' = paidWith
    BY DEF BooksMove
  <2> QED BY <2>1, <2>2 DEF AtMostOne
<1>7. /\ Total(InStatus("SUCCEEDED"))' = S2
      /\ Total(InStatus("PROCESSING"))' = P2
  BY TotalIsSum
<1> HIDE DEF S, P, S2, P2, alone
<1> QED BY <1>5, <1>6, <1>7 DEF SucceededIsCounted, ReservedForProcessing, LoneAccounts, AccountsMatchRefunds

\* An ended refund says what the provider did, through every move.
LEMMA OutcomeStaysTrue ==
  ASSUME RefundsTypeOK, RefundsTypeOK', BooksInv, BooksMove
  PROVE  OutcomeIsTrue'
<1> SUFFICES ASSUME paidWith' # "MANUAL", NEW r \in RefundIds
             PROVE  /\ status'[r] = "SUCCEEDED" => remote'[r] = "succeeded"
                    /\ status'[r] = "FAILED" => remote'[r] = "failed"
  BY DEF OutcomeIsTrue, InStatus
<1>1. paidWith # "MANUAL" /\ (remote[r] \in Final => remote'[r] = remote[r])
  BY DEF BooksMove
<1>2. /\ status[r] = "SUCCEEDED" => remote[r] = "succeeded"
      /\ status[r] = "FAILED" => remote[r] = "failed"
  BY <1>1 DEF BooksInv, OutcomeIsTrue, InStatus
<1> DEFINE Fate == \/ status'[r] = status[r]
                   \/ status'[r] = "PROCESSING"
                   \/ status'[r] = "SUCCEEDED" /\ remote[r] = "succeeded"
                   \/ status'[r] = "FAILED" /\ remote[r] = "failed"
<1>3. Fate
  <2>1. CASE UNCHANGED status
    BY <2>1
  <2>2. ASSUME NEW s \in RefundIds, Opens(s) PROVE Fate
    BY <2>2 DEF Opens, RefundsTypeOK
  <2>3. ASSUME NEW s \in RefundIds, Ends(s) PROVE Fate
    BY <2>3 DEF Ends, RefundsTypeOK
  <2>4. ASSUME NEW s \in RefundIds, Books(s) PROVE FALSE
    BY <1>1, <2>4 DEF Books
  <2> QED BY <2>1, <2>2, <2>3, <2>4 DEF BooksMove
<1> QED BY <1>1, <1>2, <1>3 DEF Final

\* A refund that was made stays, with an amount to move.
LEMMA MadeStays ==
  ASSUME RefundsTypeOK, BooksInv, BooksMove
  PROVE  /\ Made \subseteq Made'
         /\ \A r \in RefundIds : /\ status'[r] # "NONE" => amount'[r] > 0
                                 /\ status'[r] = "PROCESSING" => paidWith' # "MANUAL"
<1>1. Made \subseteq Made'
  BY DEF BooksMove, Opens, Books, Ends, Made, InStatus, RefundsTypeOK
<1>2. ASSUME NEW r \in RefundIds, status'[r] # "NONE" PROVE amount'[r] > 0
  <2>1. status[r] # "NONE" => amount[r] > 0
    BY DEF BooksInv, WorkIsOnRefunds
  <2>2. CASE UNCHANGED <<capacityVars, status, amount>>
    BY <1>2, <2>1, <2>2
  <2>3. ASSUME NEW s \in RefundIds, Opens(s) \/ Books(s) PROVE amount'[r] > 0
    <3>1. PICK a \in 1..PaymentAmount : amount' = [amount EXCEPT ![s] = a]
      BY <2>3 DEF Opens, Books
    <3>2. r # s => status'[r] = status[r]
      BY <2>3 DEF Opens, Books, RefundsTypeOK
    <3> QED BY <1>2, <2>1, <3>1, <3>2, RefundsAssumption DEF RefundsTypeOK
  <2>4. ASSUME NEW s \in RefundIds, Ends(s) PROVE amount'[r] > 0
    BY <1>2, <2>1, <2>4 DEF Ends, RefundsTypeOK
  <2> QED BY <2>2, <2>3, <2>4 DEF BooksMove
<1>3. ASSUME NEW r \in RefundIds, status'[r] = "PROCESSING" PROVE paidWith' # "MANUAL"
  <2>1. status[r] = "PROCESSING" => paidWith # "MANUAL"
    BY DEF BooksInv, WorkIsOnRefunds
  <2> QED BY <1>3, <2>1 DEF BooksMove, Opens, Books, Ends, RefundsTypeOK
<1> QED BY <1>1, <1>2, <1>3

\* A step that leaves the provider alone, adds no word and works on refunds that were made.
LEMMA QuietSteps ==
  ASSUME RefundsTypeOK, BooksInv, BooksMove, UNCHANGED providerVars,
         \A c \in RefundCalls :
            \/ call'[c] \in {call[c], NoCall}
            \/ call'[c].step = "asking" /\ call'[c].refund \in Made' /\ paidWith # "MANUAL",
         \A d \in Deliveries : seen'[d] = "idle" \/ seen'[d] = seen[d] \/ news[d] # "none"
  PROVE  WordIsTrue' /\ WorkIsOnRefunds'
<1> USE DEF BooksInv
<1>1. /\ Made \subseteq Made'
      /\ \A r \in RefundIds : /\ status'[r] # "NONE" => amount'[r] > 0
                              /\ status'[r] = "PROCESSING" => paidWith' # "MANUAL"
  BY MadeStays
<1>2. paidWith' = paidWith
  BY DEF BooksMove
<1>3. WordIsTrue'
  BY DEF WordIsTrue, providerVars, NoCall
<1>4. \A c \in RefundCalls : call'[c] # NoCall => call'[c].refund \in Made' /\ paidWith' # "MANUAL"
  BY <1>1, <1>2 DEF WorkIsOnRefunds
<1>5. \A d \in Deliveries : seen'[d] # "idle" => news'[d] # "none"
  BY DEF WorkIsOnRefunds, providerVars
<1>6. \A d \in Deliveries : news'[d] # "none" => d[1] \in Made' /\ paidWith' # "MANUAL"
  BY <1>1, <1>2 DEF WorkIsOnRefunds, providerVars
<1>7. \A r \in RefundIds : remote'[r] # "none" => r \in Made'
  BY <1>1 DEF WorkIsOnRefunds, providerVars
<1> QED BY <1>1, <1>3, <1>4, <1>5, <1>6, <1>7 DEF WorkIsOnRefunds

\* The provider's own steps: it makes, ends or amends one refund and tells of it.
LEMMA ProviderTells ==
  ASSUME RefundsTypeOK, BooksInv, BooksMove, NEW r \in Made,
         \A s \in RefundIds : s # r => remote'[s] = remote[s],
         \A s \in RefundIds : answered'[s] # answered[s] => answered'[s] = remote'[s],
         \A d \in Deliveries : news'[d] # news[d] =>
            d[1] = r /\ paidWith # "MANUAL" /\ news'[d] = remote'[r] /\ remote'[r] # "none",
         \A c \in RefundCalls :
            \/ call'[c] = call[c]
            \/ /\ call'[c].step = "answered" /\ call'[c].refund = r /\ paidWith # "MANUAL"
               /\ call'[c].answer \in Final => call'[c].answer = remote'[r],
         UNCHANGED seen
  PROVE  WordIsTrue' /\ WorkIsOnRefunds'
<1> USE DEF BooksInv
<1>1. /\ Made \subseteq Made'
      /\ \A s \in RefundIds : /\ status'[s] # "NONE" => amount'[s] > 0
                              /\ status'[s] = "PROCESSING" => paidWith' # "MANUAL"
  BY MadeStays
<1>2. /\ paidWith' = paidWith
      /\ \A s \in RefundIds : remote[s] \in Final => remote'[s] = remote[s]
  BY DEF BooksMove
<1>3. \A s \in RefundIds : answered'[s] \in Final => remote'[s] = answered'[s]
  BY <1>2 DEF WordIsTrue
<1>4. \A d \in Deliveries : news'[d] \in Final => remote'[d[1]] = news'[d]
  <2>1. \A d \in Deliveries : d[1] \in RefundIds
    BY DEF Deliveries
  <2> QED BY <1>2, <2>1 DEF WordIsTrue
<1>5. \A c \in RefundCalls :
        call'[c].step = "answered" /\ call'[c].answer \in Final => remote'[call'[c].refund] = call'[c].answer
  <2>1. \A c \in RefundCalls : call[c].step = "answered" => call[c].refund \in RefundIds
    BY DEF RefundsTypeOK, NoCall
  <2> QED BY <1>2, <2>1 DEF WordIsTrue
<1>6. \A c \in RefundCalls : call'[c] # NoCall => call'[c].refund \in Made' /\ paidWith' # "MANUAL"
  BY <1>1, <1>2 DEF WorkIsOnRefunds
<1>7. \A d \in Deliveries : seen'[d] # "idle" => news'[d] # "none"
  BY DEF WorkIsOnRefunds
<1>8. \A d \in Deliveries : news'[d] # "none" => d[1] \in Made' /\ paidWith' # "MANUAL"
  BY <1>1, <1>2 DEF WorkIsOnRefunds
<1>9. \A s \in RefundIds : remote'[s] # "none" => s \in Made'
  BY <1>1 DEF WorkIsOnRefunds
<1> QED BY <1>1, <1>3, <1>4, <1>5, <1>6, <1>7, <1>8, <1>9 DEF WordIsTrue, WorkIsOnRefunds

LEMMA WordStaysTrue ==
  ASSUME RefundsTypeOK, BooksInv, [RefundsNext]_refundVars
  PROVE  WordIsTrue' /\ WorkIsOnRefunds'
<1> DEFINE Goal == WordIsTrue' /\ WorkIsOnRefunds'
<1>0. BooksMove /\ Made \subseteq Made'
  BY NextMoves, MadeStays
<1>1. ASSUME NEW r \in RefundIds, NEW a \in 1..PaymentAmount, createRefund(r, a) PROVE Goal
  BY <1>0, <1>1, QuietSteps DEF createRefund
<1>2. ASSUME NEW c \in RefundCalls, CallNext(c) PROVE Goal
  <2>1. ASSUME NEW r \in RefundIds, NEW a \in 1..PaymentAmount, StartRefund(c, r, a) PROVE Goal
    <3>1. r \in Made' /\ paidWith # "MANUAL"
      BY <2>1 DEF StartRefund, Made, InStatus, RefundsTypeOK
    <3>2. \A b \in RefundCalls :
             \/ call'[b] \in {call[b], NoCall}
             \/ call'[b].step = "asking" /\ call'[b].refund \in Made' /\ paidWith # "MANUAL"
      BY <2>1, <3>1 DEF StartRefund, RefundsTypeOK
    <3> QED BY <1>0, <2>1, <3>2, QuietSteps DEF StartRefund
  <2>2. ASSUME NEW r \in RefundIds, RetryRefund(c, r) PROVE Goal
    <3>1. r \in Made' /\ paidWith # "MANUAL"
      BY <2>2, <1>0 DEF RetryRefund, Made, InStatus, BooksInv, WorkIsOnRefunds
    <3>2. \A b \in RefundCalls :
             \/ call'[b] \in {call[b], NoCall}
             \/ call'[b].step = "asking" /\ call'[b].refund \in Made' /\ paidWith # "MANUAL"
      BY <2>2, <3>1 DEF RetryRefund, RefundsTypeOK
    <3> QED BY <1>0, <2>2, <3>2, QuietSteps DEF RetryRefund
  <2>3. ASSUME NEW outcome \in RemoteStates, AskProvider(c, outcome) PROVE Goal
    <3> DEFINE r == call[c].refund
    <3>1. call[c].step = "asking" /\ call[c] # NoCall
      BY <2>3 DEF AskProvider, NoCall
    <3>2. r \in Made /\ r \in RefundIds /\ paidWith # "MANUAL"
      BY <3>1 DEF BooksInv, WorkIsOnRefunds, Made
    <3>3. call' = [call EXCEPT ![c] = [step |-> "answered", refund |-> r, answer |-> outcome]]
      BY <2>3 DEF AskProvider
    <3> HIDE DEF r
    <3>4. outcome \in Final => outcome = remote'[r]
      <4>1. CASE ProviderRefunds(r, outcome)
        BY <3>2, <4>1 DEF ProviderRefunds, RefundsTypeOK
      <4>2. CASE ProviderReplays(r, outcome)
        BY <3>2, <4>2 DEF ProviderReplays, providerVars, BooksInv, WordIsTrue
      <4> QED BY <2>3, <4>1, <4>2 DEF AskProvider, r
    <3>5. /\ \A s \in RefundIds : s # r => remote'[s] = remote[s]
          /\ \A s \in RefundIds : answered'[s] # answered[s] => answered'[s] = remote'[s]
          /\ \A d \in Deliveries : news'[d] # news[d] =>
               d[1] = r /\ paidWith # "MANUAL" /\ news'[d] = remote'[r] /\ remote'[r] # "none"
      <4>1. CASE ProviderRefunds(r, outcome)
        <5>1. remote' = [remote EXCEPT ![r] = outcome] /\ outcome # "none"
          BY <4>1 DEF ProviderRefunds, RemoteStates
        <5>2. answered' = [answered EXCEPT ![r] = outcome]
          BY <4>1 DEF ProviderRefunds
        <5>3. \A d \in Deliveries : news'[d] # news[d] => d[1] = r /\ news'[d] = outcome
          BY <4>1 DEF ProviderRefunds, RefundsTypeOK
        <5> QED BY <3>2, <5>1, <5>2, <5>3 DEF RefundsTypeOK
      <4>2. CASE ProviderReplays(r, outcome)
        BY <4>2 DEF ProviderReplays, providerVars
      <4> QED BY <2>3, <4>1, <4>2 DEF AskProvider, r
    <3>6. \A b \in RefundCalls :
            \/ call'[b] = call[b]
            \/ /\ call'[b].step = "answered" /\ call'[b].refund = r /\ paidWith # "MANUAL"
               /\ call'[b].answer \in Final => call'[b].answer = remote'[r]
      BY <3>2, <3>3, <3>4 DEF RefundsTypeOK
    <3>7. UNCHANGED seen
      BY <2>3 DEF AskProvider
    <3> QED BY <1>0, <3>2, <3>5, <3>6, <3>7, ProviderTells
  <2>4. CASE RecordAnswer(c)
    <3>1. \A b \in RefundCalls : call'[b] \in {call[b], NoCall}
      BY <2>4 DEF RecordAnswer, RefundsTypeOK
    <3> QED BY <1>0, <2>4, <3>1, QuietSteps DEF RecordAnswer
  <2>5. CASE AbandonCall(c)
    <3>1. \A b \in RefundCalls : call'[b] \in {call[b], NoCall}
      BY <2>5 DEF AbandonCall, RefundsTypeOK
    <3> QED BY <1>0, <2>5, <3>1, QuietSteps DEF AbandonCall
  <2> QED BY <1>2, <2>1, <2>2, <2>3, <2>4, <2>5 DEF CallNext
<1>3. ASSUME NEW r \in RefundIds, NEW outcome \in RemoteStates, ProviderSettles(r, outcome) PROVE Goal
  <2>1. r \in Made
    BY <1>3 DEF ProviderSettles, BooksInv, WorkIsOnRefunds
  <2>2. remote' = [remote EXCEPT ![r] = outcome] /\ outcome # "none"
    BY <1>3 DEF ProviderSettles, RemoteStates
  <2>3. \A d \in Deliveries : news'[d] # news[d] => paidWith = "STRIPE" /\ d[1] = r /\ news'[d] = outcome
    BY <1>3 DEF ProviderSettles
  <2>4. UNCHANGED <<answered, seen, call>>
    BY <1>3 DEF ProviderSettles
  <2>5. /\ \A s \in RefundIds : s # r => remote'[s] = remote[s]
        /\ remote'[r] = outcome
    BY <2>2 DEF RefundsTypeOK
  <2> QED BY <1>0, <2>1, <2>2, <2>3, <2>4, <2>5, ProviderTells
<1>4. ASSUME NEW r \in RefundIds, ProviderAmends(r) PROVE Goal
  <2>1. r \in Made
    BY <1>4 DEF ProviderAmends, BooksInv, WorkIsOnRefunds
  <2>2. \A d \in Deliveries : news'[d] # news[d] => d[1] = r /\ news'[d] = "succeeded"
    BY <1>4 DEF ProviderAmends, RefundsTypeOK
  <2>3. UNCHANGED <<answered, remote, seen, call>> /\ paidWith = "STRIPE" /\ remote[r] = "succeeded"
    BY <1>4 DEF ProviderAmends
  <2> QED BY <1>0, <2>1, <2>2, <2>3, ProviderTells
<1>5. ASSUME NEW e \in Deliveries, ReceiveRefundEvent(e) \/ AbandonEvent(e) \/ reconcileStripeRefundEvent(e)
      PROVE  Goal
  <2>1. UNCHANGED <<providerVars, call>>
    BY <1>5 DEF ReceiveRefundEvent, AbandonEvent, reconcileStripeRefundEvent
  <2>2. \A d \in Deliveries : seen'[d] = "idle" \/ seen'[d] = seen[d] \/ news[d] # "none"
    BY <1>5 DEF ReceiveRefundEvent, AbandonEvent, reconcileStripeRefundEvent, RefundsTypeOK
  <2> QED BY <1>0, <2>1, <2>2, QuietSteps
<1>6. CASE UNCHANGED refundVars
  <2>1. UNCHANGED <<providerVars, call, seen>>
    BY <1>6 DEF refundVars
  <2> QED BY <1>0, <2>1, QuietSteps
<1> QED BY <1>1, <1>2, <1>3, <1>4, <1>5, <1>6 DEF RefundsNext

-----------------------------------------------------------------------------
\* The strengthened invariant: the type, the capacity, the words and the books.
RefundsBooks == RefundsIInv /\ BooksInv

LEMMA BooksInit == RefundsInit => RefundsBooks
<1> SUFFICES ASSUME RefundsInit PROVE RefundsBooks
  OBVIOUS
<1>1. RefundsIInv
  BY RefundsInitType
<1>2. InStatus("SUCCEEDED") = {} /\ InStatus("PROCESSING") = {} /\ InStatus("FAILED") = {} /\ Made = {}
  BY DEF RefundsInit, InStatus, Made
<1>3. Total(InStatus("SUCCEEDED")) = 0 /\ Total(InStatus("PROCESSING")) = 0
  <2>1. With(status, "SUCCEEDED") = {} /\ With(status, "PROCESSING") = {}
    BY DEF RefundsInit, With
  <2> QED BY <2>1, TotalIsSum, NobodyWith, Zenon
<1>4. SucceededIsCounted /\ ReservedForProcessing /\ LoneAccounts
  BY <1>3 DEF RefundsInit, SucceededIsCounted, ReservedForProcessing, LoneAccounts, AccountsMatchRefunds
<1>5. OutcomeIsTrue
  BY <1>2 DEF OutcomeIsTrue
<1>6. WordIsTrue /\ WorkIsOnRefunds
  BY DEF RefundsInit, WordIsTrue, WorkIsOnRefunds, Final, Deliveries, NoCall
<1> QED BY <1>1, <1>4, <1>5, <1>6 DEF RefundsBooks, BooksInv

LEMMA BooksNext == RefundsBooks /\ [RefundsNext]_refundVars => RefundsBooks'
<1> SUFFICES ASSUME RefundsBooks, [RefundsNext]_refundVars PROVE RefundsBooks'
  OBVIOUS
<1>1. RefundsIInv'
  BY RefundsNextKeeps DEF RefundsBooks
<1>2. RefundsTypeOK /\ RefundsTypeOK' /\ BooksInv
  BY <1>1 DEF RefundsBooks, RefundsIInv
<1>3. BooksMove
  BY <1>2, NextMoves
<1>4. WordIsTrue' /\ WorkIsOnRefunds'
  BY <1>2, WordStaysTrue
<1>5. SucceededIsCounted' /\ ReservedForProcessing' /\ LoneAccounts'
  BY <1>2, <1>3, BooksStayTrue
<1>6. OutcomeIsTrue'
  BY <1>2, <1>3, OutcomeStaysTrue
<1> QED BY <1>1, <1>4, <1>5, <1>6 DEF RefundsBooks, BooksInv

\* The inductive invariant: every answer and event is true of its refund, the
\* amounts cover the refunds in their states, and a lone refund is exact.
THEOREM BooksInductive == RefundsSpec => []RefundsBooks
BY BooksInit, BooksNext, PTL DEF RefundsSpec

\* No interleaving of answers, retries and events loses a refund that succeeded.
THEOREM RefundsAreBooked == RefundsSpec => []SucceededIsCounted
<1>1. RefundsBooks => SucceededIsCounted
  BY DEF RefundsBooks, BooksInv
<1> QED BY <1>1, BooksInductive, PTL

\* Whatever capacity is held is held for a refund that is still open.
THEOREM NoCapacityLeaks == RefundsSpec => []ReservedForProcessing
<1>1. RefundsBooks => ReservedForProcessing
  BY DEF RefundsBooks, BooksInv
<1> QED BY <1>1, BooksInductive, PTL

\* A refund ends as it did at the provider, although a request and an event each
\* settle it by what they read before: every word of an end stays true.
THEOREM OutcomesAreTrue == RefundsSpec => []OutcomeIsTrue
<1>1. RefundsBooks => OutcomeIsTrue
  BY DEF RefundsBooks, BooksInv
<1> QED BY <1>1, BooksInductive, PTL

\* A set of at most one element has no two.
LEMMA FewAreOne ==
  ASSUME NEW refunds \in SUBSET RefundIds, Cardinality(refunds) <= 1
  PROVE  AtMostOne(refunds)
<1> SUFFICES ASSUME NEW r \in refunds, NEW s \in refunds, r # s PROVE FALSE
  BY DEF AtMostOne
<1>1. IsFiniteSet(refunds)
  BY RefundsAssumption, FS_Subset
<1>2. IsFiniteSet(refunds \ {r}) /\ Cardinality(refunds \ {r}) = Cardinality(refunds) - 1
  BY <1>1, FS_RemoveElement
<1>3. refunds \ {r} # {} /\ Cardinality(refunds) \in Nat /\ Cardinality(refunds \ {r}) \in Nat
  BY <1>1, <1>2, FS_CardinalityType
<1>4. Cardinality(refunds \ {r}) = 0
  BY <1>2, <1>3
<1> QED BY <1>2, <1>3, <1>4, FS_EmptySet

\* One refund, however often it is answered, retried and reported, is booked
\* exactly once; a second settlement finds no capacity reserved for it.
THEOREM OneRefundIsExact == RefundsSpec => []ExactWhenAlone
<1>1. RefundsBooks => ExactWhenAlone
  <2> SUFFICES ASSUME RefundsBooks, paidWith = "MANUAL" \/ Cardinality(Made) <= 1
               PROVE  AccountsMatchRefunds
    BY DEF ExactWhenAlone, Made
  <2>1. Made \in SUBSET RefundIds
    BY DEF Made
  <2>2. paidWith = "MANUAL" \/ AtMostOne(Made)
    BY <2>1, FewAreOne
  <2> QED BY <2>2 DEF RefundsBooks, BooksInv, LoneAccounts
<1> QED BY <1>1, BooksInductive, PTL
=============================================================================
