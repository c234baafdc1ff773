-------------------------------- MODULE Refunds --------------------------------
(***************************************************************************)
(* The refunds of one SUCCEEDED payment.  A provider refund reserves       *)
(* capacity and records its attempt in one transaction, asks the provider  *)
(* and settles in a second one; it may be retried with its stored key.     *)
(* Stripe also reports each refund by webhook, several events per refund.  *)
(* Answers and events lock the Payment row when they move capacity, but    *)
(* judge the refund by a status read before that.                          *)
(***************************************************************************)
EXTENDS Integers, FiniteSets

CONSTANTS RefundIds,      \* Refund rows that may come to exist
          PaymentAmount,  \* Payment.amount, in the smallest unit
          RefundProviders,\* the providers the payment may have been made with
          RefundCalls     \* POST /orders/:id/refunds handlers in progress

ASSUME RefundsAssumption ==
  /\ IsFiniteSet(RefundIds)
  /\ PaymentAmount \in Nat \ {0}
  /\ RefundProviders \subseteq {"STRIPE", "PAYPAL", "MANUAL"}

VARIABLES paidWith,              \* Payment.provider, which never changes
          refundedAmount,        \* Payment.refundedAmount
          reservedRefundAmount,  \* Payment.reservedRefundAmount
          status,                \* Refund.status, "NONE" before the row exists
          amount,                \* Refund.amount
          remote,                \* the refund as the provider has it
          answered,              \* the provider's first answer to the refund's key
          news,                  \* Stripe's events: the status each of them carries
          receipts,              \* PaymentWebhookEvent rows: events processed
          seen,                  \* event handlers: the Refund.status they have read
          call                   \* refund handlers in progress

capacityVars == <<refundedAmount, reservedRefundAmount>>
providerVars == <<remote, answered, news>>
refundVars == <<paidWith, capacityVars, status, amount, providerVars, receipts, seen, call>>

RefundStatuses == {"PROCESSING", "SUCCEEDED", "FAILED"}
RemoteStates == {"pending", "succeeded", "failed"}
EventTypes == {"created", "updated", "failed"}
Deliveries == RefundIds \X EventTypes
NoCall == [step |-> "idle"]

RefundsTypeOK ==
  /\ paidWith \in RefundProviders
  /\ refundedAmount \in 0..PaymentAmount
  /\ reservedRefundAmount \in 0..PaymentAmount
  /\ status \in [RefundIds -> RefundStatuses \union {"NONE"}]
  /\ amount \in [RefundIds -> 0..PaymentAmount]
  /\ remote \in [RefundIds -> RemoteStates \union {"none"}]
  /\ answered \in [RefundIds -> RemoteStates \union {"none"}]
  /\ news \in [Deliveries -> RemoteStates \union {"none"}]
  /\ receipts \in SUBSET Deliveries
  /\ seen \in [Deliveries -> RefundStatuses \union {"NONE", "idle"}]
  /\ call \in [RefundCalls -> [step : {"asking"}, refund : RefundIds]
                \union [step : {"answered"}, refund : RefundIds, answer : RemoteStates]
                \union {NoCall}]

RefundsInit ==
  /\ paidWith \in RefundProviders
  /\ refundedAmount = 0 /\ reservedRefundAmount = 0
  /\ status = [r \in RefundIds |-> "NONE"]
  /\ amount = [r \in RefundIds |-> 0]
  /\ remote = [r \in RefundIds |-> "none"]
  /\ answered = [r \in RefundIds |-> "none"]
  /\ news = [d \in Deliveries |-> "none"]
  /\ receipts = {}
  /\ seen = [d \in Deliveries |-> "idle"]
  /\ call = [c \in RefundCalls |-> NoCall]

-----------------------------------------------------------------------------
(* Capacity, always under the lock of the Payment row.                      *)

\* Slip: what other refunds hold is forgotten.
ReserveUnrefunded(a) ==
  /\ refundedAmount + a <= PaymentAmount
  /\ reservedRefundAmount' = reservedRefundAmount + a
  /\ UNCHANGED refundedAmount

reserveRefundCapacity(a) ==
  /\ refundedAmount + reservedRefundAmount + a <= PaymentAmount
  /\ reservedRefundAmount' = reservedRefundAmount + a
  /\ UNCHANGED refundedAmount

\* Slip: the reservation is taken for granted.
HeldForGranted(a) == TRUE

Held(a) == reservedRefundAmount >= a

\* Slip: the reservation ends, the money is not booked.
FinalizeUnbooked(a) ==
  /\ Held(a)
  /\ reservedRefundAmount' = reservedRefundAmount - a
  /\ UNCHANGED refundedAmount

finalizeRefundCapacity(a) ==
  /\ Held(a)
  /\ reservedRefundAmount' = reservedRefundAmount - a
  /\ refundedAmount' = refundedAmount + a

\* Slip: a failed refund keeps what it held.
ReleaseNothing(a) == Held(a) /\ UNCHANGED capacityVars

releaseRefundCapacity(a) ==
  /\ Held(a)
  /\ reservedRefundAmount' = reservedRefundAmount - a
  /\ UNCHANGED refundedAmount

\* Capacity and status move together; without the reservation all rolls back.
Settle(r, outcome) ==
  \/ /\ outcome = "succeeded"
     /\ finalizeRefundCapacity(amount[r])
     /\ status' = [status EXCEPT ![r] = "SUCCEEDED"]
  \/ /\ outcome = "failed"
     /\ releaseRefundCapacity(amount[r])
     /\ status' = [status EXCEPT ![r] = "FAILED"]
  \/ /\ outcome = "pending"
     /\ UNCHANGED <<capacityVars, status>>

-----------------------------------------------------------------------------
(* The refund handler.                                                      *)

\* A manual refund is booked at once; its reference is unique.
createRefund(r, a) ==
  /\ paidWith = "MANUAL"
  /\ status[r] = "NONE"
  /\ refundedAmount <= PaymentAmount - a
  /\ refundedAmount' = refundedAmount + a
  /\ status' = [status EXCEPT ![r] = "SUCCEEDED"]
  /\ amount' = [amount EXCEPT ![r] = a]
  /\ UNCHANGED <<paidWith, reservedRefundAmount, providerVars, receipts, seen, call>>

StartRefund(c, r, a) ==
  /\ paidWith \in {"STRIPE", "PAYPAL"}
  /\ call[c] = NoCall
  /\ status[r] = "NONE"
  /\ reserveRefundCapacity(a)
  /\ status' = [status EXCEPT ![r] = "PROCESSING"]
  /\ amount' = [amount EXCEPT ![r] = a]
  /\ call' = [call EXCEPT ![c] = [step |-> "asking", refund |-> r]]
  /\ UNCHANGED <<paidWith, providerVars, receipts, seen>>

\* A retry names the attempt and reuses its key, amount and reservation.
RetryRefund(c, r) ==
  /\ call[c] = NoCall
  /\ status[r] = "PROCESSING"
  /\ call' = [call EXCEPT ![c] = [step |-> "asking", refund |-> r]]
  /\ UNCHANGED <<paidWith, capacityVars, status, amount, providerVars, receipts, seen>>

\* The refunds of a set take this much, counted one smallest unit at a time.
Total(refunds) ==
  Cardinality({unit \in refunds \X (1..PaymentAmount) : unit[2] <= amount[unit[1]]})

\* The provider acts once per key and never refunds more than was paid.
ProviderRefunds(r, outcome) ==
  /\ remote[r] = "none"
  /\ Total({x \in RefundIds : remote[x] \in {"pending", "succeeded"}} \union {r}) <= PaymentAmount
  /\ remote' = [remote EXCEPT ![r] = outcome]
  /\ answered' = [answered EXCEPT ![r] = outcome]
  /\ news' = IF paidWith = "STRIPE" THEN [news EXCEPT ![<<r, "created">>] = outcome] ELSE news

\* A replayed key: Stripe repeats its first answer, PayPal tells the present state.
ProviderReplays(r, outcome) ==
  /\ remote[r] # "none"
  /\ outcome = IF paidWith = "STRIPE" THEN answered[r] ELSE remote[r]
  /\ UNCHANGED providerVars

AskProvider(c, outcome) ==
  /\ call[c].step = "asking"
  /\ ProviderRefunds(call[c].refund, outcome) \/ ProviderReplays(call[c].refund, outcome)
  /\ call' = [call EXCEPT ![c] = [step |-> "answered", refund |-> @.refund, answer |-> outcome]]
  /\ UNCHANGED <<paidWith, capacityVars, status, amount, receipts, seen>>

\* Slip: a refund the provider has accepted counts as done.
AcceptedIsDone(c) == IF call[c].answer = "pending" THEN "succeeded" ELSE call[c].answer

AnswerOf(c) == call[c].answer

\* The refund's status is not read again, whoever settled it meanwhile.
RecordAnswer(c) ==
  /\ call[c].step = "answered"
  /\ Settle(call[c].refund, AnswerOf(c))
  /\ call' = [call EXCEPT ![c] = NoCall]
  /\ UNCHANGED <<paidWith, amount, providerVars, receipts, seen>>

\* A crash, a provider error, a timeout, or a reservation that is gone.
AbandonCall(c) ==
  /\ call[c] # NoCall
  /\ call' = [call EXCEPT ![c] = NoCall]
  /\ UNCHANGED <<paidWith, capacityVars, status, amount, providerVars, receipts, seen>>

-----------------------------------------------------------------------------
(* Stripe's events.                                                         *)

\* A refund that was pending ends; Stripe reports it, a failure twice.
ProviderSettles(r, outcome) ==
  /\ remote[r] = "pending" /\ outcome # "pending"
  /\ remote' = [remote EXCEPT ![r] = outcome]
  /\ news' = [d \in Deliveries |->
                IF /\ paidWith = "STRIPE"
                   /\ d = <<r, "updated">> \/ (d = <<r, "failed">> /\ outcome = "failed")
                THEN outcome ELSE news[d]]
  /\ UNCHANGED <<paidWith, capacityVars, status, amount, answered, receipts, seen, call>>

\* Stripe adds detail to a refund that succeeded at once.
ProviderAmends(r) ==
  /\ paidWith = "STRIPE" /\ remote[r] = "succeeded" /\ news[<<r, "updated">>] = "none"
  /\ news' = [news EXCEPT ![<<r, "updated">>] = "succeeded"]
  /\ UNCHANGED <<paidWith, capacityVars, status, amount, remote, answered, receipts, seen, call>>

\* Slip: the receipt is committed before the work it stands for.
ReceiptFirst(d) ==
  /\ news[d] # "none" /\ d \notin receipts /\ seen[d] = "idle"
  /\ seen' = [seen EXCEPT ![d] = status[d[1]]]
  /\ receipts' = receipts \union {d}
  /\ UNCHANGED <<paidWith, capacityVars, status, amount, providerVars, call>>

\* The unique receipt admits one handler of an event; it reads without a lock.
ReceiveRefundEvent(d) ==
  /\ news[d] # "none" /\ d \notin receipts /\ seen[d] = "idle"
  /\ seen' = [seen EXCEPT ![d] = status[d[1]]]
  /\ UNCHANGED <<paidWith, capacityVars, status, amount, providerVars, receipts, call>>

\* Only a refund that was PROCESSING when it was read is settled.
reconcileStripeRefundEvent(d) ==
  /\ seen[d] # "idle"
  /\ IF seen[d] = "PROCESSING"
     THEN Settle(d[1], news[d])
     ELSE UNCHANGED <<capacityVars, status>>
  /\ receipts' = receipts \union {d}
  /\ seen' = [seen EXCEPT ![d] = "idle"]
  /\ UNCHANGED <<paidWith, amount, providerVars, call>>

\* A crash or a reservation that is gone rolls the receipt back.
AbandonEvent(d) ==
  /\ seen[d] # "idle"
  /\ seen' = [seen EXCEPT ![d] = "idle"]
  /\ UNCHANGED <<paidWith, capacityVars, status, amount, providerVars, receipts, call>>

CallNext(c) ==
  \/ \E r \in RefundIds, a \in 1..PaymentAmount : StartRefund(c, r, a)
  \/ \E r \in RefundIds : RetryRefund(c, r)
  \/ \E outcome \in RemoteStates : AskProvider(c, outcome)
  \/ RecordAnswer(c)
  \/ AbandonCall(c)

RefundsNext ==
  \/ \E r \in RefundIds, a \in 1..PaymentAmount : createRefund(r, a)
  \/ \E c \in RefundCalls : CallNext(c)
  \/ \E r \in RefundIds, outcome \in RemoteStates : ProviderSettles(r, outcome)
  \/ \E r \in RefundIds : ProviderAmends(r)
  \/ \E d \in Deliveries : ReceiveRefundEvent(d)
  \/ \E d \in Deliveries : reconcileStripeRefundEvent(d)
  \/ \E d \in Deliveries : AbandonEvent(d)

RefundsSpec == RefundsInit /\ [][RefundsNext]_refundVars

\* Stripe redelivers until the handler answers 200, and not every handler dies.
FairRefundsSpec ==
  /\ RefundsSpec
  /\ \A d \in Deliveries : /\ WF_refundVars(ReceiveRefundEvent(d))
                           /\ SF_refundVars(reconcileStripeRefundEvent(d))

-----------------------------------------------------------------------------
(* Properties.                                                              *)

InStatus(s) == {r \in RefundIds : status[r] = s}

\* What is refunded or on its way never exceeds what was paid, however answers,
\* retries and events interleave.
RefundCapacityKept == refundedAmount + reservedRefundAmount <= PaymentAmount

\* Every refund that succeeded is booked: no race loses one.
SucceededIsCounted == refundedAmount >= Total(InStatus("SUCCEEDED"))

\* Capacity is held only for refunds still in progress: none leaks when one ends.
ReservedForProcessing == reservedRefundAmount <= Total(InStatus("PROCESSING"))

\* A refund's final status is what the provider did, whichever of the answer,
\* the retry and the events settled it.
OutcomeIsTrue ==
  paidWith # "MANUAL" =>
    /\ \A r \in InStatus("SUCCEEDED") : remote[r] = "succeeded"
    /\ \A r \in InStatus("FAILED") : remote[r] = "failed"

\* The payment's two amounts are exactly its refunds, settled once each.
AccountsMatchRefunds ==
  /\ refundedAmount = Total(InStatus("SUCCEEDED"))
  /\ reservedRefundAmount = Total(InStatus("PROCESSING"))

\* One refund attempt, answered, retried and reported by several events at once,
\* is booked exactly once; manual refunds always are.
ExactWhenAlone ==
  paidWith = "MANUAL" \/ Cardinality(RefundIds \ InStatus("NONE")) <= 1 => AccountsMatchRefunds

Alone(r) == InStatus("NONE") = RefundIds \ {r}

\* A refund that Stripe made is recorded even when every handler of the request
\* died: its events bring the news.
RefundLearned ==
  \A r \in RefundIds :
    (paidWith = "STRIPE" /\ remote[r] = "succeeded" /\ Alone(r))
      ~> (status[r] = "SUCCEEDED" \/ ~Alone(r))
=============================================================================
