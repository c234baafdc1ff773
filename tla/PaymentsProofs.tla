---------------------------- MODULE PaymentsProofs ----------------------------
(***************************************************************************)
(* Payments, for any number of orders, handlers and requests.  Why a       *)
(* success can be trusted is spread over the handlers: what a call or an   *)
(* event says of the provider must still be true when it is written.  The  *)
(* invariant PaymentsInv says that of every call and event, and that a row *)
(* keeps its provider for good.                                            *)
(***************************************************************************)
EXTENDS Payments, OrdersProofs

USE PaymentsAssumption

StripeSteps == {"asking Stripe", "Stripe answered", "recovering"}
PayPalSteps == {"asking PayPal", "PayPal answered", "capturing", "captured", "webhook"}

\* A Payment row belongs to an order, and is its provider's from the start.
RowsNameOrders ==
  \A o \in OrderIds :
    /\ provider[o] = "NONE" <=> payment[o] = "NONE"
    /\ payment[o] # "NONE" => status[o] # "NONE"
    /\ provider[o] \in Providers \union {"NONE", "MANUAL"}
    /\ charge[o] \in {"approved", "pending"} => provider[o] = "PAYPAL"

\* An event is the provider's own, and a success it reports is a success.
Reported(o, event, who, holds) ==
  /\ who[o] = IF event \in StripeEvents THEN "STRIPE" ELSE "PAYPAL"
  /\ event \in {"succeeded", "completed"} => holds[o] = "paid"

EventsAreTrue ==
  \A o \in OrderIds, event \in Events : <<o, event>> \in sent => Reported(o, event, provider, charge)

\* A handler works on a row of its provider, and what it brings from there holds.
Truthful(h, who, holds, events) ==
  /\ h.step \in StripeSteps => who[h.order] = "STRIPE"
  /\ h.step \in PayPalSteps => who[h.order] = "PAYPAL"
  /\ h.step = "recovering" /\ h.event = "succeeded" => holds[h.order] = "paid"
  /\ h.step = "captured" => holds[h.order] = "paid"
  /\ h.step = "webhook" => h.event \in PayPalEvents /\ <<h.order, h.event>> \in events

CallsAreTrue == \A c \in Calls : Truthful(call[c], provider, charge, sent)

PaymentsInv ==
  /\ RowsNameOrders
  /\ EventsAreTrue
  /\ CallsAreTrue
  /\ SuccessIsBacked
  /\ StripePaidIsConfirmed

-----------------------------------------------------------------------------
(* The order's side.  A payment leaves the order alone or confirms it.     *)

\* Confirmation keeps every row of the order well typed.
LEMMA ConfirmType ==
  ASSUME TypeOK, NEW o \in OrderIds, ConfirmOrderInTransaction(o),
         payment' \in [OrderIds -> PaymentStatuses \union {"NONE"}], RequestsKept
  PROVE  TypeOK'
<1>1. items[o] \in Baskets
  BY DEF TypeOK
<1>2. InventoryTypeOK'
  BY <1>1, ItemsType DEF ConfirmOrderInTransaction
<1> QED BY <1>2 DEF TypeOK, ConfirmOrderInTransaction, RequestsKept, OrderStatuses

\* A payment transaction, seen from the order.
LEMMA PaymentEffect ==
  ASSUME TypeOK, NEW o \in OrderIds, ConfirmPaidOrder(o) \/ OrderKept,
         payment' \in [OrderIds -> PaymentStatuses \union {"NONE"}], RequestsKept
  PROVE  TypeOK' /\ Effect
<1>1. CASE OrderKept
  BY <1>1 DEF OrderKept, RequestsKept, TypeOK, InventoryTypeOK, stockVars, Effect
<1>2. CASE ConfirmOrderInTransaction(o)
  <2>1. Sells(o)
    BY <1>2 DEF ConfirmOrderInTransaction, Sells, MovesTo
  <2> QED BY <1>2, <2>1, ConfirmType DEF Effect, OrderEffect
<1> QED BY <1>1, <1>2 DEF ConfirmPaidOrder

\* No order is unmade, and none becomes PENDING again.
LEMMA EffectStatus ==
  ASSUME TypeOK, Effect, NEW o \in OrderIds, status[o] # "NONE"
  PROVE  status'[o] # "NONE" /\ (status[o] # "PENDING" => status'[o] # "PENDING")
BY DEF Effect, OrderEffect, Places, Withdraws, Sells, TakesBack, Ships, MovesTo, TypeOK

\* The order system takes no payments.
LEMMA SystemTakesNoPayment == OrderSystem => UNCHANGED payment
<1> SUFFICES ASSUME OrderSystem PROVE UNCHANGED payment
  OBVIOUS
<1>1. ASSUME NEW r \in Requests, NEW o \in OrderIds, CreateOrder(r, o) \/ ExpireCandidate(r, o)
      PROVE  UNCHANGED payment
  BY <1>1 DEF CreateOrder, ExpireCandidate, ExpireOrderReservation, orderVars
<1>2. ASSUME NEW o \in OrderIds, OrderNext(o) PROVE UNCHANGED payment
  BY <1>2 DEF OrderNext, ConfirmOrder, CancelOrder, DispatchOrder, CompleteOrder
<1>3. CASE UNCHANGED orderVars
  BY <1>3 DEF orderVars
<1>4. ASSUME NEW r \in Requests, NEW basket \in Baskets, NEW k \in Keys \union {NoKey},
             BeginCreateOrder(r, basket, k)
      PROVE  UNCHANGED orderVars
  BY <1>4 DEF BeginCreateOrder
<1>5. ASSUME NEW r \in Requests, FindExpiredCandidates(r) \/ EndCreateOrder(r)
      PROVE  UNCHANGED orderVars
  BY <1>5 DEF FindExpiredCandidates, EndCreateOrder
<1>6. CASE Tick
  BY <1>3, <1>6 DEF Tick
<1> QED BY <1>1, <1>2, <1>3, <1>4, <1>5, <1>6 DEF OrderSystem

-----------------------------------------------------------------------------
(* The payment's side.  A row is claimed once, for one provider, and then  *)
(* written; the provider acts and reports; a handler learns or ends.       *)

ClaimsRow(o) ==
  /\ payment[o] = "NONE" /\ status[o] # "NONE"
  /\ \E p \in Providers \union {"MANUAL"}, s \in PaymentStatuses :
       /\ provider' = [provider EXCEPT ![o] = p]
       /\ payment' = [payment EXCEPT ![o] = s]
       /\ s = "SUCCEEDED" => p = "MANUAL"

WritesRow(o) ==
  /\ payment[o] # "NONE" /\ UNCHANGED provider
  /\ \E s \in PaymentStatuses :
       /\ payment' = [payment EXCEPT ![o] = s]
       /\ s = "SUCCEEDED" /\ payment[o] # "SUCCEEDED" /\ provider[o] # "MANUAL" => charge[o] = "paid"
       /\ s = "SUCCEEDED" /\ provider[o] = "STRIPE" => status'[o] # "PENDING"
       /\ payment[o] = "SUCCEEDED" /\ provider[o] # "PAYPAL" => s = "SUCCEEDED"
       /\ /\ s = "SUCCEEDED" /\ payment[o] # "SUCCEEDED" /\ provider[o] = "STRIPE"
          /\ status'[o] \in {"EXPIRED", "CANCELLED"}
          => o \in exceptions'

RowMoves == UNCHANGED <<payment, provider>> \/ \E o \in OrderIds : ClaimsRow(o) \/ WritesRow(o)

ProviderMoves ==
  /\ \A o \in OrderIds :
       /\ charge[o] = "paid" => charge'[o] = "paid"
       /\ charge'[o] \in {"approved", "pending"} => charge[o] = charge'[o] \/ provider'[o] = "PAYPAL"
  /\ sent \subseteq sent'
  /\ \A o \in OrderIds, event \in Events :
       <<o, event>> \in sent' \ sent => Reported(o, event, provider', charge')

CallMoves == \A c \in Calls : call'[c] = call[c] \/ Truthful(call'[c], provider', charge', sent')

PaymentMoves == RowMoves /\ ProviderMoves /\ CallMoves

\* What a handler knows of the provider stays true while others work.
LEMMA TruthStays ==
  ASSUME PaymentsTypeOK, RowsNameOrders, RowMoves, ProviderMoves,
         NEW h \in Handlers \union {IdleCall}, Truthful(h, provider, charge, sent)
  PROVE  Truthful(h, provider', charge', sent')
<1>1. CASE h = IdleCall
  BY <1>1 DEF IdleCall, Truthful, StripeSteps, PayPalSteps
<1>2. CASE h \in Handlers
  <2>1. h.order \in OrderIds
    BY <1>2 DEF Handlers
  <2>2. provider[h.order] = "NONE" \/ provider'[h.order] = provider[h.order]
    BY <2>1 DEF RowMoves, ClaimsRow, WritesRow, RowsNameOrders, PaymentsTypeOK
  <2> QED BY <2>1, <2>2 DEF Truthful, ProviderMoves
<1> QED BY <1>1, <1>2

\* Every such move keeps the invariant.
LEMMA MovesKeep ==
  ASSUME PaymentsTypeOK, PaymentsInv, PaymentMoves, TypeOK', Effect
  PROVE  PaymentsInv'
<1>0. \A o \in OrderIds : provider[o] = "NONE" \/ provider'[o] = provider[o]
  BY DEF PaymentMoves, RowMoves, ClaimsRow, WritesRow, RowsNameOrders, PaymentsTypeOK, PaymentsInv
<1>1. ASSUME NEW o \in OrderIds, status[o] # "NONE"
      PROVE  status'[o] # "NONE" /\ (status[o] # "PENDING" => status'[o] # "PENDING")
  BY <1>1, EffectStatus DEF PaymentsTypeOK
<1> USE DEF PaymentsInv, PaymentMoves, PaymentsTypeOK, TypeOK
<1>2. RowsNameOrders'
  BY <1>0, <1>1 DEF RowsNameOrders, RowMoves, ClaimsRow, WritesRow, ProviderMoves, PaymentStatuses
<1>3. EventsAreTrue'
  <2> SUFFICES ASSUME NEW o \in OrderIds, NEW event \in Events, <<o, event>> \in sent'
               PROVE  Reported(o, event, provider', charge')
    BY DEF EventsAreTrue
  <2>1. CASE <<o, event>> \in sent
    <3>1. Reported(o, event, provider, charge)
      BY <2>1 DEF EventsAreTrue
    <3> QED BY <1>0, <3>1 DEF Reported, ProviderMoves
  <2>2. CASE <<o, event>> \notin sent
    BY <2>2 DEF ProviderMoves
  <2> QED BY <2>1, <2>2
<1>4. CallsAreTrue'
  <2> SUFFICES ASSUME NEW c \in Calls PROVE Truthful(call'[c], provider', charge', sent')
    BY DEF CallsAreTrue
  <2>1. CASE call'[c] = call[c]
    <3>1. call[c] \in Handlers \union {IdleCall} /\ Truthful(call[c], provider, charge, sent)
      BY DEF CallsAreTrue
    <3> QED BY <2>1, <3>1, TruthStays
  <2> QED BY <2>1 DEF CallMoves
<1>5. SuccessIsBacked'
  BY <1>0 DEF SuccessIsBacked, RowsNameOrders, RowMoves, ClaimsRow, WritesRow, ProviderMoves
<1>6. StripePaidIsConfirmed'
  BY <1>0, <1>1 DEF StripePaidIsConfirmed, RowsNameOrders, RowMoves, ClaimsRow, WritesRow
<1> QED BY <1>2, <1>3, <1>4, <1>5, <1>6

-----------------------------------------------------------------------------
(* Handlers come and go.                                                   *)

CallType == call' \in [Calls -> Handlers \union {IdleCall}]

\* A handler at work has an order, an event and what it saw.
LEMMA AtWork ==
  ASSUME PaymentsTypeOK, NEW c \in Calls, call[c].step # "idle"
  PROVE  /\ call[c] \in Handlers /\ call[c].order \in OrderIds
         /\ call[c].event \in Events \union {"none"}
BY DEF PaymentsTypeOK, Handlers, IdleCall

LEMMA BeginMoves ==
  ASSUME PaymentsTypeOK, NEW c \in Calls, NEW step, NEW o, NEW event, NEW saw,
         Handler(step, o, event, saw) \in Handlers, Begin(c, step, o, event, saw),
         Truthful(Handler(step, o, event, saw), provider', charge', sent')
  PROVE  CallType /\ CallMoves
BY DEF PaymentsTypeOK, Begin, CallType, CallMoves

LEMMA AdvanceMoves ==
  ASSUME PaymentsTypeOK, NEW c \in Calls, NEW from \in Steps, NEW to \in Steps, Advance(c, from, to),
         Truthful([call[c] EXCEPT !.step = to], provider', charge', sent')
  PROVE  CallType /\ CallMoves
<1>1. call[c] \in Handlers
  BY AtWork DEF Advance, Steps
<1>2. [call[c] EXCEPT !.step = to] \in Handlers
  BY <1>1 DEF Handlers
<1>3. call' = [call EXCEPT ![c] = [call[c] EXCEPT !.step = to]]
  BY DEF Advance
<1> HIDE DEF Handlers
<1> QED BY <1>2, <1>3 DEF PaymentsTypeOK, CallType, CallMoves

LEMMA EndMoves ==
  ASSUME PaymentsTypeOK, NEW c \in Calls, call' = [call EXCEPT ![c] = IdleCall]
  PROVE  CallType /\ CallMoves
<1>1. Truthful(IdleCall, provider', charge', sent')
  BY DEF Truthful, IdleCall, StripeSteps, PayPalSteps
<1> QED BY <1>1 DEF PaymentsTypeOK, CallType, CallMoves

LEMMA CallsKept == PaymentsTypeOK /\ UNCHANGED call => CallType /\ CallMoves
BY DEF PaymentsTypeOK, CallType, CallMoves

\* The provider keeps quiet.
LEMMA ProviderKept ==
  ASSUME PaymentsTypeOK, UNCHANGED <<charge, sent>>
  PROVE  ProviderMoves
BY DEF ProviderMoves

\* A handler that does nothing to the order.
LEMMA OrderKeptType ==
  ASSUME TypeOK, OrderKept, RequestsKept, payment' \in [OrderIds -> PaymentStatuses \union {"NONE"}]
  PROVE  TypeOK' /\ Effect
BY DEF OrderKept, RequestsKept, TypeOK, InventoryTypeOK, stockVars, Effect

Good == PaymentsTypeOK' /\ PaymentMoves /\ Effect

-----------------------------------------------------------------------------
(* The steps.                                                              *)

\* A manual payment claims the order's row and asks no provider.
LEMMA ManualMoves ==
  ASSUME PaymentsTypeOK, PaymentsInv, NEW o \in OrderIds, PayManually(o)
  PROVE  Good
<1>1. TypeOK /\ TypeOK'
  BY NextType DEF PaymentsTypeOK, PayManually, Next, RequestsKept
<1>2. Effect
  BY DEF PayManually, CreatePayment, Effect
<1>3. RowMoves
  BY DEF PayManually, CreatePayment, RowMoves, ClaimsRow, PaymentStatuses
<1>4. CallType /\ CallMoves /\ ProviderMoves
  BY CallsKept, ProviderKept DEF PayManually
<1> QED BY <1>1, <1>2, <1>3, <1>4 DEF Good, PaymentMoves, PaymentsTypeOK, PayManually, CallType

\* A row claimed for a provider it may be paid with.
LEMMA ClaimMoves ==
  ASSUME PaymentsTypeOK, NEW o \in OrderIds, NEW p \in Providers, NEW s \in {"PENDING", "PROCESSING"},
         ClaimPayment(o, p, s), status[o] # "NONE"
  PROVE  /\ RowMoves
         /\ payment' \in [OrderIds -> PaymentStatuses \union {"NONE"}]
         /\ provider' \in [OrderIds -> {"NONE", "MANUAL", "STRIPE", "PAYPAL"}]
         /\ reference' \in [OrderIds -> {"none", "placeholder", "provider"}]
         /\ provider'[o] = p
<1>1. s \in PaymentStatuses /\ s # "SUCCEEDED"
  BY DEF PaymentStatuses
<1>2. ClaimsRow(o)
  BY <1>1 DEF ClaimPayment, ClaimsRow
<1> QED BY <1>1, <1>2 DEF ClaimPayment, RowMoves, PaymentsTypeOK, TypeOK

\* Both providers are asked for an order that was claimed for them.
LEMMA StartMoves ==
  ASSUME PaymentsTypeOK, PaymentsInv, NEW c \in Calls, NEW o \in OrderIds,
         \/ StartStripe(c, o) /\ "STRIPE" \in Providers
         \/ StartPayPal(c, o) /\ "PAYPAL" \in Providers
  PROVE  Good
<1>1. /\ payment' \in [OrderIds -> PaymentStatuses \union {"NONE"}]
      /\ provider' \in [OrderIds -> {"NONE", "MANUAL", "STRIPE", "PAYPAL"}]
      /\ reference' \in [OrderIds -> {"none", "placeholder", "provider"}]
      /\ RowMoves
  <2>1. CASE UNCHANGED <<payment, provider, reference>>
    BY <2>1 DEF PaymentsTypeOK, TypeOK, RowMoves
  <2>2. CASE ClaimPayment(o, "STRIPE", "PROCESSING") /\ status[o] = "PENDING" /\ "STRIPE" \in Providers
    BY <2>2, ClaimMoves
  <2>3. CASE ClaimPayment(o, "PAYPAL", "PENDING") /\ OpenForPayPal(o) /\ "PAYPAL" \in Providers
    BY <2>3, ClaimMoves DEF OpenForPayPal
  <2> QED BY <2>1, <2>2, <2>3 DEF StartStripe, StartPayPal
<1>2. TypeOK' /\ Effect
  BY <1>1, OrderKeptType DEF StartStripe, StartPayPal, PaymentsTypeOK
<1>3. CallType /\ CallMoves
  <2>1. CASE StartStripe(c, o)
    <3>1. provider'[o] = "STRIPE"
      BY <2>1 DEF StartStripe, ClaimPayment, PaymentsTypeOK
    <3>2. Handler("asking Stripe", o, "none", NothingSeen) \in Handlers
      BY DEF Handler, Handlers, Steps, NothingSeen
    <3>3. Truthful(Handler("asking Stripe", o, "none", NothingSeen), provider', charge', sent')
      BY <3>1 DEF Handler, Truthful, StripeSteps, PayPalSteps
    <3> QED BY <2>1, <3>2, <3>3, BeginMoves DEF StartStripe
  <2>2. CASE StartPayPal(c, o)
    <3>1. provider'[o] = "PAYPAL"
      BY <2>2 DEF StartPayPal, ClaimPayment, PaymentsTypeOK
    <3>2. Handler("asking PayPal", o, "none", NothingSeen) \in Handlers
      BY DEF Handler, Handlers, Steps, NothingSeen
    <3>3. Truthful(Handler("asking PayPal", o, "none", NothingSeen), provider', charge', sent')
      BY <3>1 DEF Handler, Truthful, StripeSteps, PayPalSteps
    <3> QED BY <2>2, <3>2, <3>3, BeginMoves DEF StartPayPal
  <2> QED BY <2>1, <2>2
<1>4. UNCHANGED <<charge, sent, receipts, exceptions>>
  BY DEF StartStripe, StartPayPal
<1> QED BY <1>1, <1>2, <1>3, <1>4, ProviderKept DEF Good, PaymentMoves, PaymentsTypeOK, CallType

\* A step that only asks, reads or gives up: rows and provider are as they were.
LEMMA CallOnly ==
  ASSUME PaymentsTypeOK, CallType, CallMoves, OrderKept, RequestsKept,
         UNCHANGED <<payment, provider, reference, charge, sent, receipts, exceptions>>
  PROVE  Good
<1>1. payment' \in [OrderIds -> PaymentStatuses \union {"NONE"}]
  BY DEF PaymentsTypeOK, TypeOK
<1>2. TypeOK' /\ Effect
  BY <1>1, OrderKeptType DEF PaymentsTypeOK
<1> QED BY <1>2, ProviderKept DEF Good, PaymentMoves, RowMoves, PaymentsTypeOK, CallType

\* A step at the provider: what it holds and reports changes, no row does.
LEMMA ProviderOnly ==
  ASSUME PaymentsTypeOK, CallType, CallMoves, OrderKept, RequestsKept, ProviderMoves,
         charge' \in [OrderIds -> Charges], sent' \subseteq OrderIds \X Events,
         UNCHANGED <<payment, provider, reference, receipts, exceptions>>
  PROVE  Good
<1>1. payment' \in [OrderIds -> PaymentStatuses \union {"NONE"}]
  BY DEF PaymentsTypeOK, TypeOK
<1>2. TypeOK' /\ Effect
  BY <1>1, OrderKeptType DEF PaymentsTypeOK
<1>3. receipts' \subseteq sent'
  BY DEF PaymentsTypeOK, ProviderMoves
<1> QED BY <1>2, <1>3 DEF Good, PaymentMoves, RowMoves, PaymentsTypeOK, CallType

\* Asking opens the charge of the order if there is none.
LEMMA AskMoves ==
  ASSUME PaymentsTypeOK, PaymentsInv, NEW c \in Calls, AskStripe(c) \/ AskPayPal(c)
  PROVE  Good
<1> DEFINE o == call[c].order
<1>1. call[c] \in Handlers /\ o \in OrderIds
  BY AtWork DEF AskStripe, AskPayPal, Advance
<1>2. charge' = [charge EXCEPT ![o] = IF @ = "none" THEN "open" ELSE @]
  BY DEF AskStripe, AskPayPal
<1>3. ProviderMoves /\ charge' \in [OrderIds -> Charges] /\ sent' \subseteq OrderIds \X Events
  BY <1>1, <1>2 DEF AskStripe, AskPayPal, ProviderMoves, PaymentsTypeOK, Charges
<1>4. Truthful(call[c], provider, charge, sent)
  BY DEF PaymentsInv, CallsAreTrue
<1>5. CallType /\ CallMoves
  <2>1. CASE AskStripe(c)
    <3>1. Truthful([call[c] EXCEPT !.step = "Stripe answered"], provider', charge', sent')
      BY <1>1, <1>4, <2>1 DEF AskStripe, Advance, Truthful, StripeSteps, PayPalSteps, Handlers
    <3> QED BY <2>1, <3>1, AdvanceMoves DEF AskStripe, Steps
  <2>2. CASE AskPayPal(c)
    <3>1. Truthful([call[c] EXCEPT !.step = "PayPal answered"], provider', charge', sent')
      BY <1>1, <1>4, <2>2 DEF AskPayPal, Advance, Truthful, StripeSteps, PayPalSteps, Handlers
    <3> QED BY <2>2, <3>1, AdvanceMoves DEF AskPayPal, Steps
  <2> QED BY <2>1, <2>2
<1> QED BY <1>3, <1>5, ProviderOnly DEF AskStripe, AskPayPal

\* The customer and the provider move the charge, and report what they did.
LEMMA SettleMoves ==
  ASSUME PaymentsTypeOK, PaymentsInv, NEW o \in OrderIds,
         \/ \E event \in StripeEvents : StripeSettles(o, event)
         \/ ApprovePayPal(o)
         \/ PayPalSettles(o)
  PROVE  Good
<1> USE DEF PaymentsTypeOK
<1>1. CASE \E event \in StripeEvents : StripeSettles(o, event)
  <2> PICK event \in StripeEvents : StripeSettles(o, event)
    BY <1>1
  <2>1. charge' \in [OrderIds -> Charges] /\ sent' \subseteq OrderIds \X Events
    BY DEF StripeSettles, StripeEvents, Events, Charges
  <2>2. ProviderMoves
    BY DEF StripeSettles, StripeEvents, Events, ProviderMoves, Reported
  <2> QED BY <2>1, <2>2, CallsKept, ProviderOnly DEF StripeSettles
<1>2. CASE ApprovePayPal(o)
  <2>1. charge' \in [OrderIds -> Charges] /\ sent' \subseteq OrderIds \X Events
    BY <1>2 DEF ApprovePayPal, Charges
  <2>2. ProviderMoves
    BY <1>2 DEF ApprovePayPal, ProviderMoves
  <2> QED BY <1>2, <2>1, <2>2, CallsKept, ProviderOnly DEF ApprovePayPal
<1>3. CASE PayPalSettles(o)
  <2>1. provider[o] = "PAYPAL"
    BY <1>3 DEF PayPalSettles, PaymentsInv, RowsNameOrders
  <2>2. charge' \in [OrderIds -> Charges] /\ sent' \subseteq OrderIds \X Events
    BY <1>3 DEF PayPalSettles, PayPalEvents, Events, Charges
  <2>3. ProviderMoves
    BY <1>3, <2>1 DEF PayPalSettles, StripeEvents, PayPalEvents, Events, ProviderMoves, Reported
  <2> QED BY <1>3, <2>2, <2>3, CallsKept, ProviderOnly DEF PayPalSettles
<1> QED BY <1>1, <1>2, <1>3

\* PayPal captures the order, or holds the capture for review.
LEMMA CaptureMoves ==
  ASSUME PaymentsTypeOK, PaymentsInv, NEW c \in Calls, CapturePayPal(c) \/ CaptureHeld(c)
  PROVE  Good
<1> DEFINE o == call[c].order
<1> USE DEF PaymentsTypeOK
<1>1. call[c] \in Handlers /\ o \in OrderIds /\ call[c].step = "capturing"
  BY AtWork DEF CapturePayPal, CaptureHeld, Advance, End
<1>2. provider[o] = "PAYPAL"
  BY <1>1 DEF PaymentsInv, CallsAreTrue, Truthful, PayPalSteps
<1>3. charge' \in [OrderIds -> Charges] /\ sent' \subseteq OrderIds \X Events
  BY <1>1 DEF CapturePayPal, CaptureHeld, PayPalEvents, Events, Charges
<1>4. ProviderMoves
  BY <1>1, <1>2 DEF CapturePayPal, CaptureHeld, StripeEvents, PayPalEvents, Events, ProviderMoves, Reported
<1>5. CallType /\ CallMoves
  <2>1. CASE CapturePayPal(c)
    <3>1. charge'[o] = "paid"
      BY <1>1, <2>1 DEF CapturePayPal
    <3>2. Truthful([call[c] EXCEPT !.step = "captured"], provider', charge', sent')
      BY <1>1, <1>2, <2>1, <3>1 DEF CapturePayPal, Truthful, StripeSteps, PayPalSteps, Handlers
    <3> QED BY <2>1, <3>2, AdvanceMoves DEF CapturePayPal, Steps
  <2>2. CASE CaptureHeld(c)
    BY <2>2, EndMoves DEF CaptureHeld, End
  <2> QED BY <2>1, <2>2
<1> QED BY <1>3, <1>4, <1>5, ProviderOnly DEF CapturePayPal, CaptureHeld

\* Recovery, capture and delivery start from what is known now.
LEMMA ReadMoves ==
  ASSUME PaymentsTypeOK, PaymentsInv, NEW c \in Calls, NEW o \in OrderIds,
         \/ RetrieveStripePayment(c, o)
         \/ StartCapture(c, o)
         \/ \E event \in PayPalEvents : ReceivePayPalEvent(c, o, event)
  PROVE  Good
<1>1. CASE RetrieveStripePayment(c, o)
  <2> DEFINE h == Handler("recovering", o, Retrieved(o), NothingSeen)
  <2>1. h \in Handlers
    BY DEF Handler, Handlers, Steps, NothingSeen, Retrieved, Events, StripeEvents
  <2>2. Truthful(h, provider', charge', sent')
    BY <1>1 DEF RetrieveStripePayment, Handler, Truthful, StripeSteps, PayPalSteps, Retrieved
  <2>3. CallType /\ CallMoves
    BY <1>1, <2>1, <2>2, BeginMoves DEF RetrieveStripePayment
  <2> QED BY <1>1, <2>3, CallOnly DEF RetrieveStripePayment
<1>2. CASE StartCapture(c, o)
  <2> DEFINE h == Handler("capturing", o, "none", NothingSeen)
  <2>1. h \in Handlers
    BY DEF Handler, Handlers, Steps, NothingSeen
  <2>2. Truthful(h, provider', charge', sent')
    BY <1>2 DEF StartCapture, Handler, Truthful, StripeSteps, PayPalSteps
  <2>3. CallType /\ CallMoves
    BY <1>2, <2>1, <2>2, BeginMoves DEF StartCapture
  <2> QED BY <1>2, <2>3, CallOnly DEF StartCapture
<1>3. ASSUME NEW event \in PayPalEvents, ReceivePayPalEvent(c, o, event) PROVE Good
  <2> DEFINE saw == [payment |-> payment[o], status |-> status[o], expiresAt |-> expiresAt[o]]
             h == Handler("webhook", o, event, saw)
  <2>1. h \in Handlers
    BY DEF Handler, Handlers, Steps, Events, PaymentsTypeOK, TypeOK
  <2>2. <<o, event>> \in sent /\ event \in Events /\ event \notin StripeEvents
    BY <1>3 DEF ReceivePayPalEvent, Events, PayPalEvents, StripeEvents
  <2>3. provider[o] = "PAYPAL"
    BY <2>2 DEF PaymentsInv, EventsAreTrue, Reported
  <2>4. Truthful(h, provider', charge', sent')
    BY <1>3, <2>2, <2>3 DEF ReceivePayPalEvent, Handler, Truthful, StripeSteps, PayPalSteps
  <2>5. CallType /\ CallMoves
    BY <1>3, <2>1, <2>4, BeginMoves DEF ReceivePayPalEvent
  <2> QED BY <1>3, <2>5, CallOnly DEF ReceivePayPalEvent
<1> QED BY <1>1, <1>2, <1>3

\* A handler dies, or its provider refuses.
LEMMA DropMoves ==
  ASSUME PaymentsTypeOK, NEW c \in Calls, DropCall(c)
  PROVE  Good
BY EndMoves, CallOnly DEF DropCall

\* A row written, the order confirmed with it or left alone.
LEMMA RowWritten ==
  ASSUME PaymentsTypeOK, CallType, CallMoves, NEW o \in OrderIds, WritesRow(o),
         ConfirmPaidOrder(o) \/ OrderKept, RequestsKept,
         reference' \in [OrderIds -> {"none", "placeholder", "provider"}],
         receipts' \subseteq sent, exceptions' \subseteq OrderIds, UNCHANGED <<charge, sent>>
  PROVE  Good
<1>1. payment' \in [OrderIds -> PaymentStatuses \union {"NONE"}]
  BY DEF WritesRow, PaymentsTypeOK, TypeOK
<1>2. TypeOK' /\ Effect
  BY <1>1, PaymentEffect DEF PaymentsTypeOK
<1>3. RowMoves /\ UNCHANGED provider
  BY DEF RowMoves, WritesRow
<1> QED BY <1>2, <1>3, ProviderKept DEF Good, PaymentMoves, PaymentsTypeOK, CallType

\* A provider's row is a row.
LEMMA RowExists ==
  ASSUME PaymentsTypeOK, PaymentsInv, NEW o \in OrderIds, provider[o] \in {"STRIPE", "PAYPAL"}
  PROVE  payment[o] \in PaymentStatuses
BY DEF PaymentsTypeOK, TypeOK, PaymentsInv, RowsNameOrders

\* The intent is stored where no success was recorded before.
LEMMA IntentMoves ==
  ASSUME PaymentsTypeOK, PaymentsInv, NEW c \in Calls, RecordIntent(c)
  PROVE  Good
<1> DEFINE o == call[c].order
           s == IF NotSucceeded(o) THEN "PROCESSING" ELSE payment[o]
<1>1. o \in OrderIds /\ provider[o] = "STRIPE"
  BY AtWork DEF RecordIntent, End, PaymentsInv, CallsAreTrue, Truthful, StripeSteps
<1>2. payment[o] \in PaymentStatuses
  BY <1>1, RowExists
<1>3. s \in PaymentStatuses /\ (s = "SUCCEEDED" <=> payment[o] = "SUCCEEDED")
  BY <1>2 DEF NotSucceeded, PaymentStatuses
<1>4. /\ OrderKept /\ RequestsKept /\ UNCHANGED <<provider, charge, sent, receipts, exceptions>>
      /\ payment' = [payment EXCEPT ![o] = s]
      /\ reference' \in [OrderIds -> {"none", "placeholder", "provider"}]
      /\ call' = [call EXCEPT ![c] = IdleCall]
  BY <1>1 DEF RecordIntent, End, PaymentsTypeOK
<1>5. s = "SUCCEEDED" => status'[o] # "PENDING"
  BY <1>1, <1>3, <1>4 DEF PaymentsInv, StripePaidIsConfirmed, OrderKept
<1> HIDE DEF o, s
<1>6. WritesRow(o)
  BY <1>1, <1>2, <1>3, <1>4, <1>5 DEF WritesRow, PaymentStatuses
<1>7. CallType /\ CallMoves
  BY <1>4, EndMoves
<1> QED BY <1>1, <1>4, <1>6, <1>7, RowWritten DEF PaymentsTypeOK

\* PayPal's answer is stored whatever came first; it is no success.
LEMMA PayPalOrderMoves ==
  ASSUME PaymentsTypeOK, PaymentsInv, NEW c \in Calls, RecordPayPalOrder(c)
  PROVE  Good
<1> DEFINE o == call[c].order
<1>1. o \in OrderIds /\ provider[o] = "PAYPAL"
  BY AtWork DEF RecordPayPalOrder, End, PaymentsInv, CallsAreTrue, Truthful, PayPalSteps
<1>2. payment[o] \in PaymentStatuses
  BY <1>1, RowExists
<1>3. /\ OrderKept /\ RequestsKept /\ UNCHANGED <<provider, charge, sent, receipts, exceptions>>
      /\ payment' = [payment EXCEPT ![o] = "PENDING"]
      /\ reference' \in [OrderIds -> {"none", "placeholder", "provider"}]
      /\ call' = [call EXCEPT ![c] = IdleCall]
  BY <1>1 DEF RecordPayPalOrder, End, PaymentsTypeOK
<1> HIDE DEF o
<1>4. WritesRow(o)
  BY <1>1, <1>2, <1>3 DEF WritesRow, PaymentStatuses
<1>5. CallType /\ CallMoves
  BY <1>3, EndMoves
<1> QED BY <1>1, <1>3, <1>4, <1>5, RowWritten DEF PaymentsTypeOK

\* A capture is recorded because PayPal has the money.
LEMMA RecordCaptureMoves ==
  ASSUME PaymentsTypeOK, PaymentsInv, NEW c \in Calls, RecordCapture(c)
  PROVE  Good
<1> DEFINE o == call[c].order
<1>1. o \in OrderIds /\ provider[o] = "PAYPAL" /\ charge[o] = "paid"
  BY AtWork DEF RecordCapture, End, PaymentsInv, CallsAreTrue, Truthful, PayPalSteps
<1>2. payment[o] \in PaymentStatuses
  BY <1>1, RowExists
<1>3. /\ OrderKept /\ RequestsKept /\ UNCHANGED <<provider, reference, charge, sent, receipts>>
      /\ payment' = [payment EXCEPT ![o] = "SUCCEEDED"]
      /\ exceptions' \subseteq OrderIds
      /\ call' = [call EXCEPT ![c] = IdleCall]
  BY <1>1 DEF RecordCapture, End, PaymentsTypeOK
<1> HIDE DEF o
<1>4. WritesRow(o)
  BY <1>1, <1>2, <1>3 DEF WritesRow, PaymentStatuses
<1>5. CallType /\ CallMoves
  BY <1>3, EndMoves
<1> QED BY <1>1, <1>3, <1>4, <1>5, RowWritten DEF PaymentsTypeOK

\* PayPal's webhook writes a success only for a completed capture.
LEMMA WebhookMoves ==
  ASSUME PaymentsTypeOK, PaymentsInv, NEW c \in Calls, ReconcilePayPalWebhookEvent(c)
  PROVE  Good
<1> DEFINE o == call[c].order
           event == call[c].event
           saw == call[c].saw
           s == CASE event = "completed" -> "SUCCEEDED"
                  [] event # "completed" /\ saw.payment = "SUCCEEDED" -> payment[o]
                  [] event = "denied" /\ saw.payment # "SUCCEEDED" -> "FAILED"
                  [] event = "pending" /\ saw.payment # "SUCCEEDED" -> "PROCESSING"
<1>1. /\ o \in OrderIds /\ provider[o] = "PAYPAL" /\ event \in PayPalEvents
      /\ <<o, event>> \in sent
  BY AtWork DEF ReconcilePayPalWebhookEvent, End, PaymentsInv, CallsAreTrue, Truthful, PayPalSteps
<1>2. payment[o] \in PaymentStatuses
  BY <1>1, RowExists
<1>3. event = "completed" => charge[o] = "paid"
  BY <1>1 DEF PaymentsInv, EventsAreTrue, Reported, Events
<1>4. /\ OrderKept /\ RequestsKept /\ UNCHANGED <<provider, reference, charge, sent>>
      /\ payment' = [payment EXCEPT ![o] = s]
      /\ receipts' \subseteq sent
      /\ exceptions' \subseteq OrderIds
      /\ call' = [call EXCEPT ![c] = IdleCall]
  BY <1>1 DEF ReconcilePayPalWebhookEvent, End, PaymentsTypeOK
<1>5. /\ s \in PaymentStatuses
      /\ s = "SUCCEEDED" => payment[o] = "SUCCEEDED" \/ event = "completed"
  <2> DEFINE was == saw.payment
  <2> HIDE DEF saw
  <2>1. CASE event = "completed"
    BY <2>1 DEF PaymentStatuses
  <2>2. CASE event # "completed" /\ was = "SUCCEEDED"
    BY <1>2, <2>2
  <2>3. CASE event # "completed" /\ was # "SUCCEEDED"
    BY <1>1, <2>3 DEF PaymentStatuses, PayPalEvents
  <2> QED BY <2>1, <2>2, <2>3
<1> HIDE DEF o, s, event, saw
<1>6. WritesRow(o)
  BY <1>1, <1>2, <1>3, <1>4, <1>5 DEF WritesRow, PaymentStatuses
<1>7. CallType /\ CallMoves
  BY <1>4, EndMoves
<1> QED BY <1>1, <1>4, <1>6, <1>7, RowWritten DEF PaymentsTypeOK

\* Stripe's outcome: a success has the money behind it and the order confirmed.
LEMMA StripeOutcome ==
  ASSUME PaymentsTypeOK, PaymentsInv, CallType, CallMoves,
         NEW o \in OrderIds, NEW event \in StripeEvents, provider[o] = "STRIPE",
         event = "succeeded" => charge[o] = "paid",
         ApplyStripePaymentOutcome(o, event), RequestsKept,
         receipts' \subseteq sent, UNCHANGED <<provider, charge, sent>>
  PROVE  Good
<1> DEFINE s == IF payment[o] = "SUCCEEDED" THEN "SUCCEEDED" ELSE OutcomeOf(event)
<1>1. payment[o] \in PaymentStatuses
  BY RowExists
<1>2. /\ s \in PaymentStatuses
      /\ s = "SUCCEEDED" => payment[o] = "SUCCEEDED" \/ event = "succeeded"
      /\ payment[o] = "SUCCEEDED" => s = "SUCCEEDED"
  BY DEF OutcomeOf, StripeEvents, PaymentStatuses
<1>3. payment' = [payment EXCEPT ![o] = s]
  BY DEF ApplyStripePaymentOutcome
<1>4. ConfirmPaidOrder(o) \/ OrderKept
  BY DEF ApplyStripePaymentOutcome
<1>5. /\ reference' \in [OrderIds -> {"none", "placeholder", "provider"}]
      /\ exceptions' \subseteq OrderIds
  BY DEF ApplyStripePaymentOutcome, PaymentsTypeOK
<1>6. s = "SUCCEEDED" => status'[o] # "PENDING"
  <2>1. CASE event = "succeeded"
    BY <2>1 DEF ApplyStripePaymentOutcome, ConfirmPaidOrder, ConfirmOrderInTransaction, OrderKept,
                PaymentsTypeOK, TypeOK
  <2>2. CASE event # "succeeded" /\ payment[o] = "SUCCEEDED"
    BY <2>2 DEF ApplyStripePaymentOutcome, OrderKept, PaymentsInv, StripePaidIsConfirmed
  <2> QED BY <1>2, <2>1, <2>2
<1>8. ASSUME s = "SUCCEEDED", payment[o] # "SUCCEEDED", status'[o] \in {"EXPIRED", "CANCELLED"}
      PROVE  o \in exceptions'
  <2>1. event = "succeeded"
    BY <1>2, <1>8
  <2>2. status'[o] = status[o]
    BY <1>8, <2>1 DEF ApplyStripePaymentOutcome, ConfirmPaidOrder, ConfirmOrderInTransaction, OrderKept,
                      PaymentsTypeOK, TypeOK
  <2> QED BY <1>8, <2>1, <2>2 DEF ApplyStripePaymentOutcome, LatePayment
<1> HIDE DEF s
<1>7. WritesRow(o)
  BY <1>1, <1>2, <1>3, <1>6, <1>8 DEF WritesRow, PaymentStatuses
<1> QED BY <1>4, <1>5, <1>7, RowWritten

LEMMA StripeLearns ==
  ASSUME PaymentsTypeOK, PaymentsInv,
         \/ \E o \in OrderIds, event \in StripeEvents : ReconcileStripePaymentEvent(o, event)
         \/ \E c \in Calls : RecoverStripePayment(c)
  PROVE  Good
<1>1. ASSUME NEW o \in OrderIds, NEW event \in StripeEvents, ReconcileStripePaymentEvent(o, event)
      PROVE  Good
  <2>1. <<o, event>> \in sent /\ event \in Events
    BY <1>1 DEF ReconcileStripePaymentEvent, Events
  <2>2. provider[o] = "STRIPE" /\ (event = "succeeded" => charge[o] = "paid")
    BY <2>1 DEF PaymentsInv, EventsAreTrue, Reported
  <2>3. receipts' \subseteq sent
    BY <1>1, <2>1 DEF ReconcileStripePaymentEvent, PaymentsTypeOK
  <2>4. CallType /\ CallMoves
    BY <1>1, CallsKept DEF ReconcileStripePaymentEvent
  <2> QED BY <1>1, <2>2, <2>3, <2>4, StripeOutcome DEF ReconcileStripePaymentEvent
<1>2. ASSUME NEW c \in Calls, RecoverStripePayment(c) PROVE Good
  <2> DEFINE o == call[c].order
  <2>1. o \in OrderIds /\ provider[o] = "STRIPE" /\ (call[c].event = "succeeded" => charge[o] = "paid")
    BY <1>2, AtWork DEF RecoverStripePayment, End, PaymentsInv, CallsAreTrue, Truthful, StripeSteps
  <2>2. CallType /\ CallMoves
    BY <1>2, EndMoves DEF RecoverStripePayment, End
  <2>3. CASE call[c].event = "succeeded"
    <3>1. ApplyStripePaymentOutcome(o, "succeeded") /\ receipts' \subseteq sent
      BY <1>2, <2>3 DEF RecoverStripePayment, PaymentsTypeOK
    <3> QED BY <1>2, <2>1, <2>2, <2>3, <3>1, StripeOutcome DEF RecoverStripePayment, StripeEvents
  <2>4. CASE call[c].event # "succeeded"
    BY <1>2, <2>2, <2>4, CallOnly DEF RecoverStripePayment
  <2> QED BY <2>3, <2>4
<1> QED BY <1>1, <1>2

\* Every step is such a move.
LEMMA EveryMove ==
  ASSUME PaymentsTypeOK, PaymentsInv, [PaymentsNext]_allVars
  PROVE  Good
<1>1. CASE OrderSystem /\ UNCHANGED paymentVars
  <2>1. TypeOK' /\ Effect
    BY <1>1, NextType, SystemEffect DEF Next, PaymentsTypeOK
  <2>2. RowMoves
    BY <1>1, SystemTakesNoPayment DEF RowMoves, paymentVars
  <2>3. CallType /\ CallMoves /\ ProviderMoves
    BY <1>1, CallsKept, ProviderKept DEF paymentVars
  <2> QED BY <1>1, <2>1, <2>2, <2>3 DEF Good, PaymentMoves, PaymentsTypeOK, CallType, paymentVars
<1>2. ASSUME NEW o \in OrderIds, PayManually(o) PROVE Good
  BY <1>2, ManualMoves
<1>3. CASE "STRIPE" \in Providers /\ StripeNext
  BY <1>3, StartMoves, AskMoves, IntentMoves, SettleMoves, ReadMoves, StripeLearns DEF StripeNext
<1>4. CASE "PAYPAL" \in Providers /\ PayPalNext
  BY <1>4, StartMoves, AskMoves, PayPalOrderMoves, SettleMoves, ReadMoves, CaptureMoves,
     RecordCaptureMoves, WebhookMoves DEF PayPalNext
<1>5. ASSUME NEW c \in Calls, DropCall(c) PROVE Good
  BY <1>5, DropMoves
<1>6. CASE UNCHANGED allVars
  <2>1. OrderKept /\ RequestsKept /\ UNCHANGED paymentVars /\ UNCHANGED payment
    BY <1>6 DEF allVars, vars, orderVars, OrderKept, RequestsKept
  <2> QED BY <2>1, CallsKept, CallOnly DEF paymentVars
<1> QED BY <1>1, <1>2, <1>3, <1>4, <1>5, <1>6 DEF PaymentsNext

-----------------------------------------------------------------------------
(* The theorems.                                                           *)

LEMMA PaymentsStart == PaymentsInit => PaymentsTypeOK /\ PaymentsInv
<1> SUFFICES ASSUME PaymentsInit PROVE PaymentsTypeOK /\ PaymentsInv
  OBVIOUS
<1>1. TypeOK
  BY InitType DEF PaymentsInit
<1>2. PaymentsTypeOK
  BY <1>1 DEF PaymentsInit, PaymentsTypeOK, Charges
<1>3. RowsNameOrders /\ EventsAreTrue /\ SuccessIsBacked /\ StripePaidIsConfirmed
  BY DEF PaymentsInit, Init, RowsNameOrders, EventsAreTrue, SuccessIsBacked, StripePaidIsConfirmed
<1>4. CallsAreTrue
  BY DEF PaymentsInit, CallsAreTrue, Truthful, IdleCall, StripeSteps, PayPalSteps
<1> QED BY <1>2, <1>3, <1>4 DEF PaymentsInv

\* The inductive invariant: types, and the truth of every call and event.
THEOREM PaymentsInductive == PaymentsSpec => [](PaymentsTypeOK /\ PaymentsInv)
<1>1. PaymentsTypeOK /\ PaymentsInv /\ [PaymentsNext]_allVars => (PaymentsTypeOK /\ PaymentsInv)'
  BY EveryMove, MovesKeep DEF Good, PaymentsTypeOK
<1> QED BY <1>1, PaymentsStart, PTL DEF PaymentsSpec

\* Every row, event and handler of a payment keeps its type.
THEOREM PaymentsTypeCorrect == PaymentsSpec => []PaymentsTypeOK
BY PaymentsInductive, PTL

\* stripeReconciliationService.ts, paypalCaptureService.ts: whatever is late, repeated
\* or lost, a provider payment is SUCCEEDED only if its money was taken.
THEOREM SuccessesAreBacked == PaymentsSpec => []SuccessIsBacked
<1>1. PaymentsInv => SuccessIsBacked
  BY DEF PaymentsInv
<1> QED BY <1>1, PaymentsInductive, PTL

\* stripeReconciliationService.ts: no order stays PENDING once Stripe's success is recorded.
THEOREM StripePaidAreConfirmed == PaymentsSpec => []StripePaidIsConfirmed
<1>1. PaymentsInv => StripePaidIsConfirmed
  BY DEF PaymentsInv
<1> QED BY <1>1, PaymentsInductive, PTL

\* The order system's promises hold under payments too: a confirmation by a
\* webhook or by recovery finds the stock its order reserved.
THEOREM StockUnderPayments == PaymentsSpec => []IInv
<1>1. PaymentsInit => IInv
  BY InitIInv DEF PaymentsInit
<1>2. PaymentsTypeOK /\ PaymentsInv /\ IInv /\ [PaymentsNext]_allVars => IInv'
  BY EveryMove, EffectKeeps DEF Good, PaymentsTypeOK, IInv
<1> QED BY <1>1, <1>2, PaymentsInductive, PTL DEF PaymentsSpec

\* A recorded success is never taken back, unless PayPal holds the payment.
LEMMA SuccessStays ==
  ASSUME PaymentsTypeOK, PaymentsInv, [PaymentsNext]_allVars, NEW o \in OrderIds,
         payment[o] = "SUCCEEDED", provider[o] # "PAYPAL"
  PROVE  payment'[o] = "SUCCEEDED"
BY EveryMove DEF Good, PaymentMoves, RowMoves, ClaimsRow, WritesRow, PaymentsTypeOK, TypeOK

\* A success of Stripe's that comes too late leaves an exception.
LEMMA LateSuccessFlagged ==
  ASSUME PaymentsTypeOK, PaymentsInv, [PaymentsNext]_allVars, NEW o \in OrderIds,
         payment[o] # "SUCCEEDED", payment'[o] = "SUCCEEDED", provider'[o] \notin {"MANUAL", "PAYPAL"},
         status'[o] \in {"EXPIRED", "CANCELLED"}
  PROVE  o \in exceptions'
<1>1. RowMoves /\ RowsNameOrders
  BY EveryMove DEF Good, PaymentMoves, PaymentsInv
<1>2. ASSUME ClaimsRow(o) PROVE FALSE
  BY <1>2 DEF ClaimsRow, PaymentsTypeOK, TypeOK
<1>3. ASSUME NEW p \in OrderIds, ClaimsRow(p) \/ WritesRow(p), p # o PROVE FALSE
  BY <1>3 DEF ClaimsRow, WritesRow, PaymentsTypeOK, TypeOK
<1>4. WritesRow(o)
  BY <1>1, <1>2, <1>3 DEF RowMoves
<1>5. provider[o] = "STRIPE"
  BY <1>1, <1>4 DEF WritesRow, RowsNameOrders
<1> QED BY <1>4, <1>5 DEF WritesRow, PaymentsTypeOK, TypeOK

\* "Monotonic payment success" (README.md): where PayPal is not
\* offered, no late answer, failure event, retry or recovery takes a success back.
\* PayPal's unconditional writes refute it, and the run of MCPayPalRetry shows how.
THEOREM SuccessesAreFinal == "PAYPAL" \notin Providers /\ PaymentsSpec => SuccessIsFinal
<1> SUFFICES ASSUME "PAYPAL" \notin Providers PROVE PaymentsSpec => SuccessIsFinal
  OBVIOUS
<1>1. PaymentsTypeOK /\ PaymentsInv /\ [PaymentsNext]_allVars =>
        [\A o \in OrderIds : payment[o] = "SUCCEEDED" => payment'[o] = "SUCCEEDED"]_allVars
  BY SuccessStays DEF PaymentsInv, RowsNameOrders
<1> QED BY <1>1, PaymentsInductive, PTL DEF PaymentsSpec, SuccessIsFinal

\* Where PayPal is not offered, a success for an order that is over leaves an
\* exception, in the transaction that records it.
THEOREM LatePaymentsFlagged == "PAYPAL" \notin Providers /\ PaymentsSpec => LatePaymentFlagged
<1> SUFFICES ASSUME "PAYPAL" \notin Providers PROVE PaymentsSpec => LatePaymentFlagged
  OBVIOUS
<1>1. /\ PaymentsTypeOK /\ PaymentsInv /\ PaymentsInv' /\ [PaymentsNext]_allVars
      => [\A o \in OrderIds :
            /\ payment[o] # "SUCCEEDED" /\ payment'[o] = "SUCCEEDED"
            /\ provider'[o] # "MANUAL"
            /\ status'[o] \in {"EXPIRED", "CANCELLED"}
            => o \in exceptions']_allVars
  BY LateSuccessFlagged DEF PaymentsInv, RowsNameOrders
<1> QED BY <1>1, PaymentsInductive, PTL DEF PaymentsSpec, LatePaymentFlagged

\* Finished orders stay finished, and the stock promise is kept, whoever pays,
\* retries or recovers.
THEOREM PromiseKeptUnderPayments == PaymentsSpec => KeepsPromise /\ TerminalOrdersStay
<1>1. IInv /\ PaymentsInit => Promised!Init
  BY PromiseInit DEF IInv, PaymentsInit
<1>2. PaymentsTypeOK /\ PaymentsInv /\ IInv /\ IInv' /\ [PaymentsNext]_allVars =>
        [Promised!Next]_(Promised!promiseVars)
  <2> SUFFICES ASSUME PaymentsTypeOK, PaymentsInv, IInv, IInv', [PaymentsNext]_allVars
               PROVE  Promised!Next \/ UNCHANGED Promised!promiseVars
    OBVIOUS
  <2>1. Promised!Next \/ UNCHANGED <<Available, Phase, items>>
    BY EveryMove, EffectPromises DEF IInv, StockInv, Good
  <2> QED BY <2>1 DEF Promised!promiseVars, Available, Phase
<1>3. PaymentsTypeOK /\ PaymentsInv /\ [PaymentsNext]_allVars =>
        [\A o \in OrderIds :
           status[o] \in {"COMPLETED", "CANCELLED", "EXPIRED"} => status'[o] = status[o]]_vars
  BY EveryMove, EffectLeavesTerminal DEF Good, PaymentsTypeOK
<1> QED BY <1>1, <1>2, <1>3, PaymentsInductive, StockUnderPayments, PTL
        DEF PaymentsSpec, KeepsPromise, Promised!Spec, TerminalOrdersStay
=============================================================================
