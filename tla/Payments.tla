------------------------------- MODULE Payments -------------------------------
(***************************************************************************)
(* An order's Payment row and the provider behind it.  Starting a payment, *)
(* capturing it and recovering it are a transaction, a network call and a  *)
(* second transaction; webhooks arrive late, out of order and more than    *)
(* once; any handler may die between two steps.  The Order row lock makes  *)
(* each transaction one action, except in the PayPal webhook, which takes  *)
(* no lock: what it read may be stale when it writes.                      *)
(***************************************************************************)
EXTENDS Orders

CONSTANTS Providers,  \* the providers the storefront offers
          Calls       \* payment handlers, each in a server process of its own

ASSUME PaymentsAssumption == Providers \subseteq {"STRIPE", "PAYPAL"}

VARIABLES provider,    \* Payment.provider, "NONE" without a row
          reference,   \* Payment.providerReference: placeholder or the provider's id
          charge,      \* what the provider holds for the order's idempotency key
          sent,        \* webhook events the provider has emitted
          receipts,    \* PaymentWebhookEvent rows, the events already processed
          exceptions,  \* orders with a recorded refund/reconciliation exception
          call         \* the payment handlers in progress

paymentVars == <<provider, reference, charge, sent, receipts, exceptions, call>>
allVars == <<vars, paymentVars>>

Charges == {"none", "open", "approved", "pending", "paid", "refused"}
StripeEvents == {"succeeded", "failed", "canceled"}
PayPalEvents == {"completed", "pending", "denied"}
Events == StripeEvents \union PayPalEvents
Steps == {"asking Stripe", "Stripe answered", "recovering", "asking PayPal", "PayPal answered",
          "capturing", "captured", "webhook"}
NothingSeen == [payment |-> "NONE", status |-> "NONE", expiresAt |-> NoDeadline]
IdleCall == [step |-> "idle"]
Handler(step, o, event, saw) == [step |-> step, order |-> o, event |-> event, saw |-> saw]

Handlers == [step : Steps, order : OrderIds, event : Events \union {"none"},
             saw : [payment : PaymentStatuses \union {"NONE"},
                    status : OrderStatuses \union {"NONE"},
                    expiresAt : Nat \union {NoDeadline}]]

PaymentsTypeOK ==
  /\ TypeOK
  /\ provider \in [OrderIds -> {"NONE", "MANUAL", "STRIPE", "PAYPAL"}]
  /\ reference \in [OrderIds -> {"none", "placeholder", "provider"}]
  /\ charge \in [OrderIds -> Charges]
  /\ receipts \subseteq sent
  /\ sent \subseteq OrderIds \X Events
  /\ exceptions \subseteq OrderIds
  /\ call \in [Calls -> Handlers \union {IdleCall}]

PaymentsInit ==
  /\ Init
  /\ provider = [o \in OrderIds |-> "NONE"]
  /\ reference = [o \in OrderIds |-> "none"]
  /\ charge = [o \in OrderIds |-> "none"]
  /\ sent = {}
  /\ receipts = {}
  /\ exceptions = {}
  /\ call = [c \in Calls |-> IdleCall]

\* The parts of the order a transaction on its payment never touches.
OrderKept == UNCHANGED <<stockVars, status, items, expiresAt, key>>
RequestsKept == UNCHANGED <<request, clock>>

Begin(c, step, o, event, saw) ==
  /\ call[c] = IdleCall
  /\ call' = [call EXCEPT ![c] = Handler(step, o, event, saw)]

Advance(c, from, to) ==
  /\ call[c].step = from
  /\ call' = [call EXCEPT ![c].step = to]

End(c, step) ==
  /\ call[c].step = step
  /\ call' = [call EXCEPT ![c] = IdleCall]

\* A crash, a timeout or a refusal by the provider ends a handler anywhere.
DropCall(c) ==
  /\ call[c] # IdleCall
  /\ call' = [call EXCEPT ![c] = IdleCall]
  /\ OrderKept /\ RequestsKept
  /\ UNCHANGED <<payment, provider, reference, charge, sent, receipts, exceptions>>

\* The placeholder row that claims the order for one provider.
ClaimPayment(o, chosen, initial) ==
  /\ payment[o] = "NONE"
  /\ payment' = [payment EXCEPT ![o] = initial]
  /\ provider' = [provider EXCEPT ![o] = chosen]
  /\ reference' = [reference EXCEPT ![o] = "placeholder"]

PayManually(o) ==
  /\ CreatePayment(o) /\ RequestsKept
  /\ provider' = [provider EXCEPT ![o] = "MANUAL"]
  /\ UNCHANGED <<reference, charge, sent, receipts, exceptions, call>>

-----------------------------------------------------------------------------
(* Stripe.                                                                  *)

StartStripe(c, o) ==
  /\ Begin(c, "asking Stripe", o, "none", NothingSeen)
  /\ status[o] = "PENDING" /\ ~DeadlinePassed(o, clock)
  /\ \/ ClaimPayment(o, "STRIPE", "PROCESSING")
     \/ /\ provider[o] = "STRIPE" /\ payment[o] # "SUCCEEDED"
        /\ UNCHANGED <<payment, provider, reference>>
  /\ OrderKept /\ RequestsKept
  /\ UNCHANGED <<charge, sent, receipts, exceptions>>

\* One intent per order: creation replays the order's idempotency key.
AskStripe(c) ==
  /\ Advance(c, "asking Stripe", "Stripe answered")
  /\ charge' = [charge EXCEPT ![call[c].order] = IF @ = "none" THEN "open" ELSE @]
  /\ OrderKept /\ RequestsKept
  /\ UNCHANGED <<payment, provider, reference, sent, receipts, exceptions>>

\* Slip: the answer is stored without looking for a success that came first.
EvenIfSucceeded(o) == TRUE

\* The condition of the UPDATE that stores the answer.
NotSucceeded(o) == payment[o] # "SUCCEEDED"

RecordIntent(c) ==
  LET o == call[c].order IN
  /\ End(c, "Stripe answered")
  /\ payment' = [payment EXCEPT ![o] = IF NotSucceeded(o) THEN "PROCESSING" ELSE @]
  /\ reference' = [reference EXCEPT ![o] = IF NotSucceeded(o) THEN "provider" ELSE @]
  /\ OrderKept /\ RequestsKept
  /\ UNCHANGED <<provider, charge, sent, receipts, exceptions>>

\* The customer pays, fails to pay, or the intent is cancelled.
StripeSettles(o, event) ==
  /\ provider[o] = "STRIPE" /\ charge[o] = "open"
  /\ charge' = [charge EXCEPT ![o] = CASE event = "succeeded" -> "paid"
                                       [] event = "failed" -> "open"
                                       [] event = "canceled" -> "refused"]
  /\ sent' = sent \union {<<o, event>>}
  /\ OrderKept /\ RequestsKept
  /\ UNCHANGED <<payment, provider, reference, receipts, exceptions, call>>

OutcomeOf(event) == CASE event = "succeeded" -> "SUCCEEDED"
                      [] event = "failed" -> "FAILED"
                      [] event = "canceled" -> "CANCELED"

\* Slip: the payment is recorded, the order is left to be confirmed by hand.
LeaveUnconfirmed(o) == OrderKept

ConfirmPaidOrder(o) ==
  IF status[o] = "PENDING" THEN ConfirmOrderInTransaction(o) ELSE OrderKept

\* Slip: only an expired order is recognised as a late payment.
LateIfExpired(o) == status[o] = "EXPIRED"

LatePayment(o) == status[o] \in {"EXPIRED", "CANCELLED"}

\* Slip: a success that overtakes the intent's own answer finds no payment.
ApplyIfReferenced(o, event) ==
  /\ payment' = [payment EXCEPT ![o] = IF @ = "SUCCEEDED" \/ reference[o] # "provider"
                                      THEN @ ELSE OutcomeOf(event)]
  /\ IF event = "succeeded" /\ reference[o] = "provider"
     THEN ConfirmPaidOrder(o)
     ELSE OrderKept
  /\ UNCHANGED <<reference, exceptions>>

\* Evidence, payment and inventory conversion commit together.
ApplyStripePaymentOutcome(o, event) ==
  /\ payment' = [payment EXCEPT ![o] = IF @ = "SUCCEEDED" THEN @ ELSE OutcomeOf(event)]
  /\ IF event = "succeeded"
     THEN /\ reference' = [reference EXCEPT ![o] = "provider"]
          /\ ConfirmPaidOrder(o)
          /\ exceptions' = IF LatePayment(o) THEN exceptions \union {o} ELSE exceptions
     ELSE OrderKept /\ UNCHANGED <<reference, exceptions>>

\* A redelivered event stops at its receipt and changes nothing.
ReconcileStripePaymentEvent(o, event) ==
  /\ <<o, event>> \in sent \ receipts
  /\ receipts' = receipts \union {<<o, event>>}
  /\ ApplyStripePaymentOutcome(o, event)
  /\ RequestsKept
  /\ UNCHANGED <<provider, charge, sent, call>>

\* Slip: an intent the provider still knows is taken for a paid one.
RetrievedAsKnown(o) == IF charge[o] \in {"open", "paid"} THEN "succeeded" ELSE "none"

\* Only a retrieved intent that succeeded is reconciled.
Retrieved(o) == IF charge[o] = "paid" THEN "succeeded" ELSE "none"

\* Recovery reads the row and retrieves the intent; a placeholder names none.
RetrieveStripePayment(c, o) ==
  /\ provider[o] = "STRIPE" /\ reference[o] = "provider"
  /\ Begin(c, "recovering", o, Retrieved(o), NothingSeen)
  /\ OrderKept /\ RequestsKept
  /\ UNCHANGED <<payment, provider, reference, charge, sent, receipts, exceptions>>

RecoverStripePayment(c) ==
  /\ End(c, "recovering")
  /\ IF call[c].event = "succeeded"
     THEN ApplyStripePaymentOutcome(call[c].order, "succeeded")
     ELSE OrderKept /\ UNCHANGED <<payment, reference, exceptions>>
  /\ RequestsKept
  /\ UNCHANGED <<provider, charge, sent, receipts>>

-----------------------------------------------------------------------------
(* PayPal.  Neither initiation nor capture looks for a CANCELLED order.     *)

OpenForPayPal(o) == status[o] \notin {"NONE", "EXPIRED"} /\ ~DeadlinePassed(o, clock)

\* A row that has the PayPal order id already is answered from the row.
StartPayPal(c, o) ==
  /\ Begin(c, "asking PayPal", o, "none", NothingSeen)
  /\ OpenForPayPal(o)
  /\ \/ ClaimPayment(o, "PAYPAL", "PENDING")
     \/ /\ provider[o] = "PAYPAL" /\ payment[o] # "SUCCEEDED" /\ reference[o] = "placeholder"
        /\ UNCHANGED <<payment, provider, reference>>
  /\ OrderKept /\ RequestsKept
  /\ UNCHANGED <<charge, sent, receipts, exceptions>>

AskPayPal(c) ==
  /\ Advance(c, "asking PayPal", "PayPal answered")
  /\ charge' = [charge EXCEPT ![call[c].order] = IF @ = "none" THEN "open" ELSE @]
  /\ OrderKept /\ RequestsKept
  /\ UNCHANGED <<payment, provider, reference, sent, receipts, exceptions>>

\* Unconditional, and outside any transaction.
RecordPayPalOrder(c) ==
  /\ End(c, "PayPal answered")
  /\ payment' = [payment EXCEPT ![call[c].order] = "PENDING"]
  /\ reference' = [reference EXCEPT ![call[c].order] = "provider"]
  /\ OrderKept /\ RequestsKept
  /\ UNCHANGED <<provider, charge, sent, receipts, exceptions>>

ApprovePayPal(o) ==
  /\ provider[o] = "PAYPAL" /\ charge[o] = "open"
  /\ charge' = [charge EXCEPT ![o] = "approved"]
  /\ OrderKept /\ RequestsKept
  /\ UNCHANGED <<payment, provider, reference, sent, receipts, exceptions, call>>

StartCapture(c, o) ==
  /\ Begin(c, "capturing", o, "none", NothingSeen)
  /\ OpenForPayPal(o)
  /\ provider[o] = "PAYPAL" /\ payment[o] # "SUCCEEDED" /\ reference[o] = "provider"
  /\ OrderKept /\ RequestsKept
  /\ UNCHANGED <<payment, provider, reference, charge, sent, receipts, exceptions>>

\* One capture per order: the request id is the order's.
CapturePayPal(c) ==
  LET o == call[c].order IN
  /\ Advance(c, "capturing", "captured")
  /\ charge[o] \in {"approved", "paid"}
  /\ charge' = [charge EXCEPT ![o] = "paid"]
  /\ sent' = sent \union {<<o, "completed">>}
  /\ OrderKept /\ RequestsKept
  /\ UNCHANGED <<payment, provider, reference, receipts, exceptions>>

\* Slip: a capture PayPal is still reviewing counts as done.
CaptureHeldAsDone(c) ==
  LET o == call[c].order IN
  /\ Advance(c, "capturing", "captured")
  /\ charge[o] = "approved"
  /\ charge' = [charge EXCEPT ![o] = "pending"]
  /\ sent' = sent \union {<<o, "pending">>}
  /\ OrderKept /\ RequestsKept
  /\ UNCHANGED <<payment, provider, reference, receipts, exceptions>>

\* A capture that is not COMPLETED yet is refused as a mismatch.
CaptureHeld(c) ==
  LET o == call[c].order IN
  /\ End(c, "capturing")
  /\ charge[o] = "approved"
  /\ charge' = [charge EXCEPT ![o] = "pending"]
  /\ sent' = sent \union {<<o, "pending">>}
  /\ OrderKept /\ RequestsKept
  /\ UNCHANGED <<payment, provider, reference, receipts, exceptions>>

PayPalSettles(o) ==
  /\ charge[o] = "pending"
  /\ \/ /\ charge' = [charge EXCEPT ![o] = "paid"]
        /\ sent' = sent \union {<<o, "completed">>}
     \/ /\ charge' = [charge EXCEPT ![o] = "refused"]
        /\ sent' = sent \union {<<o, "denied">>}
  /\ OrderKept /\ RequestsKept
  /\ UNCHANGED <<payment, provider, reference, receipts, exceptions, call>>

\* The order is expired, or its deadline has passed.
TooLate(orderStatus, deadline) ==
  orderStatus = "EXPIRED" \/ (deadline # NoDeadline /\ deadline <= clock)

RecordCapture(c) ==
  LET o == call[c].order IN
  /\ End(c, "captured")
  /\ payment' = [payment EXCEPT ![o] = "SUCCEEDED"]
  /\ exceptions' = IF payment[o] # "SUCCEEDED" /\ TooLate(status[o], expiresAt[o])
                   THEN exceptions \union {o} ELSE exceptions
  /\ OrderKept /\ RequestsKept
  /\ UNCHANGED <<provider, reference, charge, sent, receipts>>

Handled(o, event) ==
  \E d \in Calls : call[d].step = "webhook" /\ call[d].order = o /\ call[d].event = event

\* The receipt is unique: a second delivery of the event waits for the first.
ReceivePayPalEvent(c, o, event) ==
  /\ <<o, event>> \in sent \ receipts
  /\ ~Handled(o, event)
  /\ Begin(c, "webhook", o, event,
           [payment |-> payment[o], status |-> status[o], expiresAt |-> expiresAt[o]])
  /\ OrderKept /\ RequestsKept
  /\ UNCHANGED <<payment, provider, reference, charge, sent, receipts, exceptions>>

\* The update is by id alone, whatever happened since the row was read.
ReconcilePayPalWebhookEvent(c) ==
  LET o == call[c].order
      event == call[c].event
      saw == call[c].saw
  IN
  /\ End(c, "webhook")
  /\ receipts' = receipts \union {<<o, event>>}
  /\ payment' = [payment EXCEPT ![o] =
                   CASE event = "completed" -> "SUCCEEDED"
                     [] event # "completed" /\ saw.payment = "SUCCEEDED" -> @
                     [] event = "denied" /\ saw.payment # "SUCCEEDED" -> "FAILED"
                     [] event = "pending" /\ saw.payment # "SUCCEEDED" -> "PROCESSING"]
  /\ exceptions' = IF event = "completed" /\ TooLate(saw.status, saw.expiresAt)
                   THEN exceptions \union {o} ELSE exceptions
  /\ OrderKept /\ RequestsKept
  /\ UNCHANGED <<provider, reference, charge, sent>>

-----------------------------------------------------------------------------
StripeNext ==
  \/ \E c \in Calls, o \in OrderIds : StartStripe(c, o)
  \/ \E c \in Calls : AskStripe(c)
  \/ \E c \in Calls : RecordIntent(c)
  \/ \E o \in OrderIds, event \in StripeEvents : StripeSettles(o, event)
  \/ \E o \in OrderIds, event \in StripeEvents : ReconcileStripePaymentEvent(o, event)
  \/ \E c \in Calls, o \in OrderIds : RetrieveStripePayment(c, o)
  \/ \E c \in Calls : RecoverStripePayment(c)

PayPalNext ==
  \/ \E c \in Calls, o \in OrderIds : StartPayPal(c, o)
  \/ \E c \in Calls : AskPayPal(c)
  \/ \E c \in Calls : RecordPayPalOrder(c)
  \/ \E o \in OrderIds : ApprovePayPal(o)
  \/ \E c \in Calls, o \in OrderIds : StartCapture(c, o)
  \/ \E c \in Calls : CapturePayPal(c)
  \/ \E c \in Calls : CaptureHeld(c)
  \/ \E o \in OrderIds : PayPalSettles(o)
  \/ \E c \in Calls : RecordCapture(c)
  \/ \E c \in Calls, o \in OrderIds, event \in PayPalEvents : ReceivePayPalEvent(c, o, event)
  \/ \E c \in Calls : ReconcilePayPalWebhookEvent(c)

PaymentsNext ==
  \/ OrderSystem /\ UNCHANGED paymentVars
  \/ \E o \in OrderIds : PayManually(o)
  \/ "STRIPE" \in Providers /\ StripeNext
  \/ "PAYPAL" \in Providers /\ PayPalNext
  \/ \E c \in Calls : DropCall(c)

PaymentsSpec == PaymentsInit /\ [][PaymentsNext]_allVars

\* Stripe redelivers an event until it is answered 200, which follows the commit.
Redelivery ==
  \A o \in OrderIds, event \in StripeEvents :
    WF_allVars(ReconcileStripePaymentEvent(o, event))

FairPaymentsSpec == PaymentsSpec /\ Redelivery

-----------------------------------------------------------------------------
(* Properties.                                                              *)

\* The shop never believes more than the provider does: a provider payment is
\* SUCCEEDED only when the money was taken there.
SuccessIsBacked ==
  \A o \in OrderIds :
    provider[o] \in {"STRIPE", "PAYPAL"} /\ payment[o] = "SUCCEEDED" => charge[o] = "paid"

\* Stripe success and confirmation commit together: no order is left PENDING
\* with its money taken, whichever of webhook, recovery and staff came first.
StripePaidIsConfirmed ==
  \A o \in OrderIds :
    provider[o] = "STRIPE" /\ payment[o] = "SUCCEEDED" => status[o] # "PENDING"

\* "Monotonic payment success": no late answer, failure event or retry takes a
\* recorded success back.
SuccessIsFinal ==
  [][\A o \in OrderIds : payment[o] = "SUCCEEDED" => payment'[o] = "SUCCEEDED"]_allVars

\* A payment that arrives for an order already over leaves an exception for
\* somebody to refund it.
LatePaymentFlagged ==
  [][\A o \in OrderIds :
       /\ payment[o] # "SUCCEEDED" /\ payment'[o] = "SUCCEEDED"
       /\ provider'[o] # "MANUAL"
       /\ status'[o] \in {"EXPIRED", "CANCELLED"}
       => o \in exceptions']_allVars

\* Money taken by Stripe is recognised in the end, whatever crashed meanwhile.
StripeSuccessLearned ==
  \A o \in OrderIds :
    (provider[o] = "STRIPE" /\ charge[o] = "paid") ~> (payment[o] = "SUCCEEDED")
=============================================================================
