# Colorful Life backend: a TLA+ verification project

The backend sells LEGO sets from a small stock: customers check out, orders
reserve stock for thirty minutes, payments arrive through Stripe, PayPal or by
hand, and staff count, write off, convert and take back stock at the same time.
State lives in PostgreSQL; everything else is stateless handlers, so what can go
wrong is the order in which transactions, provider calls, webhooks, retries and
crashes meet. These modules model that. Paths below are relative to the
repository's root (`src/` is the server's source, `prisma/` the schema).

Contents: [inventory](#inventory) · [plan](#plan) · [modules and code](#modules-and-code) ·
[runs](#runs) · [findings](#findings) · [proofs](#proofs) · [not modelled](#not-modelled)

## Inventory

| Component | State | Operations | Talks to |
|---|---|---|---|
| Product listings and stock (`controllers/products.ts`, `controllers/inventory.ts`, `domain/inventory`, `domain/usedOffers`) | `ProductListing.currentStock`, `reservedStock`, `usedLifecycle`, `active`; the `InventoryMovement` ledger | adjust, stocktake, write-off, create/convert a Used offer, (de/re)activate | orders reserve, sell, release and return its rows |
| Order lifecycle (`domain/orders/order{,Expiry,Confirmation,Cancellation,Dispatch,Completion}Service.ts`) | `Order.status`, `OrderItem`, `reservationExpiresAt`, `creationIdempotencyKey` | create (with lazy expiry of others), confirm, cancel ×2, dispatch, complete | stock; payments read and confirm it; cart tasks are queued by it |
| Payments (`domain/payments`) | `Payment.status`, `provider`, `providerReference`; `PaymentWebhookEvent` receipts | manual payment; Stripe start, webhook, recovery; PayPal start, capture, webhook | providers over the network; orders |
| Refunds (`domain/refunds`, Stripe refund events) | `Payment.refundedAmount`, `reservedRefundAmount`, `Refund.status` | manual, Stripe and PayPal refund, retry, Stripe's refund events | providers; payments |
| Cart and cart provenance (`domain/cart`) | `CartItem.quantity`; `OrderCartProvenance.state`, `OrderCartAllocation` | add, update, remove, clear; allocate to an order; queue; settle | orders queue tasks; a polling worker settles them |
| Customer returns (`domain/orders/orderReturnService.ts`) | `OrderReturn.status`, `restockQuantity`; `OrderItem.returnedQuantity/reservedReturnQuantity` | request, authorise, receive, inspect, complete (with restock), cancel | stock; it reads orders, and refuses none for its status |
| Refresh sessions and account tokens (`domain/auth`) | `RefreshSession`, `PasswordResetToken`, `EmailVerificationToken`, `User.passwordHash`, `email`, `emailVerified`, `deletedAt` | login, rotate, logout, forgot, reset, resend, verify, change e-mail, delete account | every authenticated request |
| Address book (`controllers/addressController.ts`) | `Address` rows with two default flags | create, update, delete | checkout copies an address; account deletion erases it |
| Purchases (`domain/purchases`) | `PurchaseDocument` totals; `PurchaseItem` quantity, costs, link, disposition, `receivedAt`, `returnedAt` | import, group, link, exclude, amend, receive a line or a group, return to the supplier | stock |
| Feature products, images, artwork (`domain/products`, `productImages`, `catalogueArtwork`, `categories`, `usedOffers`) | `LegoProduct.categoryId`, `isFeatureProduct`; image, artwork and photo columns; the files they name | select a feature, create and move products; upload, reorder, replace, delete files | external file storage |
| Reads, analytics, profile, expenses; parsers and matchers; e-mail, address lookup, plumbing | – | queries, text extraction, I/O | – |

### Hard behaviours, and what makes each component correct

* **Stock** — every change is one conditional `UPDATE`; staff and customers race
  for the last unit. *Never more promised than on the shelf; the reserved column
  is exactly what unpaid orders hold; the ledger explains the stock; a physical
  Used item is sold at most once and one per product is sellable.*
* **Orders** — `createOrder` reads expired reservations, expires each in its own
  transaction and reserves in another, all with the timestamp it began with; two
  requests may share an Idempotency-Key. *Payment and expiry exclude each other;
  a key makes one order; finished orders stay finished; what was reserved can
  always be confirmed.*
* **Payments** — initiation is transaction, network, transaction; webhooks come
  late, twice and out of order; handlers die anywhere. *The shop believes no
  payment the provider did not take; success is never taken back; a Stripe
  success leaves no order pending; late money leaves an exception; money taken
  is recognised eventually.*
* **Refunds** — an answer, a retry and up to three events settle one refund.
  *Refunded plus reserved never exceeds the payment; nothing that succeeded is
  lost; no reservation leaks; the final status is what the provider did.*
* **Cart** — settlement is deferred: the line an order came from may be edited,
  deleted and recreated before it happens. *No order stands for quantity the cart
  lacks; when and by whom a task is settled makes no difference; every task is
  settled.*
* **Returns** — several returns of one line at once, with orders, staff and the
  shelf moving under them. *The columns count exactly the open and the completed
  returns and never pass what was bought; each completed return restocks its own
  units once.*
* **Accounts** — requests look a row up, wait for a lock and act on it later;
  reset and deletion take their two locks in opposite orders. *The credentials
  of a session form one chain; a logout that found its session ends it; a
  deleted account is never opened again; only the current address is verified;
  each role has exactly one default address.*
* **Purchases** — lines are regrouped, relinked and amended until they are
  received. *Each line moves stock in once and out at most once, for the listing
  and quantity it shows; documents add up to the penny; history stays.*
* **Catalogue** — files and rows live in two systems no transaction spans.
  *A category keeps its feature product; images stay numbered; no artwork or
  photo loses its file, and no file is lost without a failure.*

`PROJECT.json` lists each hazard at the line where it bites, with the properties
that would catch it or a note where none does.

## Plan

The modules, most important first, each with the theorems that exist:

1. `Inventory` → `Orders` (extends it), refining `StockPromise`; `OrdersProofs`.
2. `Payments` (extends `Orders`): one composition in which stock, orders,
   expiry, staff and payments interleave; `PaymentsProofs`.
3. `Refunds`, of one payment; `RefundsProofs`. Standing alone is enough: capacity
   is per `Payment` row, and a refund touches nothing of the order.
4. `CartProvenance`, refining `CartIntent`; `CartProofs`.
5. `OrderReturns` (extends `Orders`, so that returns meet checkouts,
   cancellations and staff); `OrderReturnsProofs`.
6. `Accounts`; `AccountsProofs`.
7. `Purchases` over `Inventory`; `PurchasesProofs`.
8. `Catalogue`; `CatalogueProofs`.

Left: `OrderLocking`, the row locks that item 1 takes as given, for which order
transactions cannot deadlock among themselves. Every invariant and action property
of the passing runs has its theorem.

## Modules and code

`PROJECT.json` maps each definition to its lines. Definitions marked "Slip" are
plausible mistakes in a neighbouring definition, used to confirm that the
properties notice them; no specification refers to them.

### `Inventory` and `Orders`

`Inventory` holds the listing rows. Staff operations are single transactions on
one row and are single actions; `ReserveItems`, `ReleaseItems`, `SellItems` and
`TakeBackItems` are the statements an order transaction runs per line. Two ghost
variables sum the ledger: `orderMovements` (sales and cancellation returns) and
`adminMovements`. Reactivation reads and updates in two statements without a
transaction and is two actions.

`Orders` adds orders, payments' statuses, a clock and the `createOrder` calls in
progress. Why most operations are one action: each starts by locking the `Order`
row (`FOR UPDATE`) or is a single conditional `updateMany` (dispatch, complete);
under READ COMMITTED its conditional `UPDATE`s re-evaluate their conditions
against the committed row once they hold its lock, and the transaction keeps
its row locks to the end. `createOrder` is the exception and is four:
`BeginCreateOrder` (early key lookup, timestamp), `FindExpiredCandidates`,
`ExpireCandidate` once per candidate, and `CreateOrder` (the key looked for again
under its advisory lock, the lines reserved, the row inserted);
`EndCreateOrder` stands for every way to leave without an order.

Abstractions: money, addresses, tracking numbers and titles are not there; an
order's lines are a function from listings to quantities; no code sets the schema's
RETURNED status, so the model has none; listings exist from the start except
Used offers, which start ABSENT. A check that only refuses on data no property
distinguishes is the disabled action.

`StockPromise` is what a customer may rely on: units are available, promised,
sold or given back. `KeepsPromise` states that every step of `Orders` is one of
its steps, with `available = currentStock - reservedStock`.

### `Payments`

Extends `Orders` with the `Payment` row's provider and reference, the provider's
own state (`charge`), the events emitted (`sent`) and processed (`receipts`), the
recorded exceptions and the payment handlers under way (`call`). Each handler is
cut where the code leaves its transaction: `StartStripe` / `AskStripe` /
`RecordIntent`, `RetrieveStripePayment` / `RecoverStripePayment`, `StartPayPal` /
`AskPayPal` / `RecordPayPalOrder`, `StartCapture` / `CapturePayPal` or
`CaptureHeld` / `RecordCapture`. A Stripe event is one transaction that locks the
order; a PayPal event reads without a lock and writes by id, so it is two
actions, `ReceivePayPalEvent` keeping what it saw. `DropCall` ends any handler at
any point: a crash, a timeout, a refusal. The providers are external: an intent
or capture per idempotency key, states that only move as the APIs document, one
event of each type per order, delivered in any order, any number of times (a
delivery after the receipt changes nothing and is the absence of a step).

Each handler is in a server process of its own. The process-local map in
`paypalCaptureService.ts` merges captures only within one process and is
therefore left out.

### `Refunds`

The refunds of one SUCCEEDED payment. `StartRefund` reserves capacity and records
the attempt, `AskProvider` is the network call, `RecordAnswer` settles;
`RetryRefund` reuses the stored key. Stripe's `refund.created`, `refund.updated`
and `refund.failed` are deliveries of their own, each read (`ReceiveRefundEvent`)
before it is settled (`reconcileStripeRefundEvent`), because the code reads the
refund's status before it locks the payment. A replayed key gets Stripe's first
answer and PayPal's present state. Amounts are in the smallest unit; `Total` counts
units. Stripe's reversal of a refund that had succeeded is not modelled, and a
PayPal refund event only leaves a receipt.

### `CartProvenance`

One customer's cart and the orders made from it. A cart transaction holds the
customer's advisory lock, settles what is queued and does its work; it is one
action, written as a function from tables to tables. The order transactions that
queue tasks do not take that lock, but only move a task from ACTIVE to a pending
state; both count as attached, so no quantity that a cart transaction reads
changes under it (`docs/cart-order-provenance.md` argues the same). `linked` is a
non-NULL `cartItemId`: deleting a line unlinks it (`ON DELETE SET NULL`), and a
line created later never regains it. A stock refusal of an edit is the edit not
happening; `lastError` is never read and left out.

`CartIntent` is what the cart means: quantity nobody claimed, and what each
unpaid order claims. `ActsLikeIntent` counts a queued purchase as taken and a
queued release as given back; settlement is then a stutter, so when it happens,
and whether the worker or the customer's next edit does it, is invisible.

### `OrderReturns`

Extends `Orders` with the `OrderReturn` rows and the two `OrderItem` columns they
move. Each handler is one transaction whose conditional `updateMany` claims the
return's status and the line's quantity at once, so each is one action:
`RequestOrderReturn`, `Advance` (authorise, receive), `InspectOrderReturn`
(which fixes `restockQuantity`), `CompleteOrderReturn` (moves the units from
reserved to returned and puts the resellable units back on the shelf with an
ORDER_RETURN movement) and `CancelOrderReturn`. Nothing in the code sets REJECTED.
No handler looks at `Order.status`, so no action does; the ledger of `Orders`
counts what comes back among the orders' movements.

### `Accounts`

One account and any number of concurrent requests. `request` records what a
handler has found: rotation and logout look the session up by hash
(`Discover...`) and later act under the `User` row's lock; login compares the
password before it inserts the session; verification finds its token first.
What a handler does under that lock is one action, except in two places. A reset
deletes its token's row (`ConsumeResetToken`, which holds the row in `tokenLock`),
reads the user without a lock (`ReadUserForReset`) and only then updates it
(`SetPassword`); a deletion locks the user first (`userLock`) and the token's row
last. So the two can deadlock, and `AbortDeadlock` is PostgreSQL ending that.
Rows that refer to the user, when inserted, wait for its lock. Addresses are in
the same module because their handlers lock the same row and deletion erases
them. Tokens are numbered in the order they are issued; an expired token is one
that is not presented; a session's expiry is a step of its own.

### `Purchases`

One purchase over the listings of `Inventory`. Every mutation locks the
`Purchase` row first and is one action. The revision that a review mutation
carries only makes it fail when rows have changed since; since an administrator can
reload at any moment, what is left is that each action decides on the current
rows, which is what the actions do. `allocateProportional` hands the leftover
pennies to the largest remainders, `calculatedItems` adds a line's share of
shipping and takes off its share of the discount, and an amendment recalculates
its whole document. Customers and other staff appear as `ListingsNext`, which
reserves, releases and sells a unit and switches listings on and off. The shape of a document is an input from a small
set; extraction is not part of this.

### `Catalogue`

Feature selection (`BeginSetFeature` reads the category, `setFeature` acts under
the category's advisory lock, which a move of the product does not take) and the
three families of files: product images, artwork of products and categories,
photos of Used offers. A handler is cut at every call to the storage provider:
upload, transaction, and the deletion that follows (or, for a product image,
precedes) it. `Compensate` is a transaction that fails after its upload,
`Discard` a deletion that may fail and is only logged, `Die` the end of the
process at any point; `leftBehind` is the ghost that remembers which files a
failure stranded. The two columns of a category may begin with a common file, as
the thumbnail migration left them.

### MC modules

`MCOrders`, `MCPayments`, `MCRefunds`, `MCReturns` and `MCPurchases` give the
constants their functions and the symmetry sets. `MCCustomer` and `MCStaff` each
hold two systems that touch no common row: the variable `part` picks one at the
start and the other keeps an initial state, so that the state space is the sum of
the two and not the product. Symmetry is over interchangeable ids only and never
used where a liveness property is checked; `MCStaff` gives the ids of its two
parts the same names so that one permutation serves both.

## Runs

| Run | Instance | Shows |
|---|---|---|
| `orders` (1.1 M states) | 1 NEW listing of 2 units, 2 orders, 2 checkouts, 1 key, TTL 1, time 0..1 | stock, ledger, expiry, idempotency and terminal-state properties and the refinement `KeepsPromise` |
| `used_offers` (1.1 M) | 1 NEW listing of 1 unit, 2 Used ids of the same product, 2 orders | physical items are never sellable twice; reserved orders stay confirmable |
| `stripe_payments` (106 k) | the last unit, 1 order, 2 handlers, all three Stripe events | safety of Stripe payments, and `StripeSuccessLearned` |
| `paypal_payments` (135 k) | the same with PayPal | `SuccessIsBacked` |
| `paypal_retry` | as above | violates `SuccessIsFinal` (finding 1) |
| `paypal_late` | as above | violates `LatePaymentFlagged` (finding 2) |
| `staff` (761 k) | either a payment of 2 with 2 refunds, 2 handlers, all providers (142 k); or 2 products, 2 categories, 3 files, 2 handlers, at most 2 images (619 k) | refund capacity, booking, release, exactness of a lone refund; image order, file accounting, feature products |
| `refund_events` (78 k) | Stripe or by hand, 1 handler, redelivery | `RefundLearned` |
| `refund_twice` | 2 refunds, 2 handlers, Stripe | violates `AccountsMatchRefunds` (finding 3) |
| `returns` (2.3 M) | 1 order of up to 2 units of a NEW and a Used listing, 2 returns | columns count the returns; sales and restocks book their own units |
| `purchases` (300 k) | 3 lines in 2 documents, 1 NEW listing, money with leftover pennies | receipts and movements, costs, closed history |
| `customer` (1.3 M) | either a cart of 2 lines of up to 2 with 2 orders (14 k); or 2 requests, 1 session with 3 credentials, 2 reset and 3 verification tokens, 2 e-mail and 2 postal addresses | allocation, tasks, settlement and the refinement `ActsLikeIntent`; sessions, deletion, verification, default addresses |

**Why the bounds are enough.** Two units and two orders let one order exhaust,
share or overrun the stock; two checkouts race for a key, for a unit and for the
same stale candidate. With TTL 1 and time 0..1 a deadline can pass while a
checkout still holds an older timestamp. `used_offers` fixes the time at 0, so
orders never expire there: an expiry does to a Used item what a cancellation
does, and expiry itself is `orders`' business. Payments concern one order: a
payment transaction touches one order's rows, and two handlers suffice for any
pair of steps to interleave (a third would need a chain of three stale reads,
which no property distinguishes). Two refunds of a payment of two is the least
in which a refund can take the other's reservation. Two cart lines and two
overlapping orders give oldest-first reduction, partial consumption and deleted
rows. Two returns of up to two units can compete for the same unit, and an order
can be cancelled, expired or sold around them. In `returns` and `used_offers` a
column's limit is two. An account's hazards are pairs of requests, one that
looked something up and one that changes it; three credentials let one be
replaced twice, three verification tokens let one be replaced while another is
in flight. Three lines let a document's pennies be shared and a group span two
documents; a total that differs from price times quantity is the correction the
importer accepts. Three files suffice for two images to close ranks behind a
third being deleted, and for a replacement to meet a shared file. The bounds are
`MaxStock` (the column's limit, so overflow is reachable), `MaxQuantity`,
`MaxTime`, `MaxImages` and the sizes of the id sets.

Deadlock is checked where the system can always go on. Refunds end when each is
settled and every event handled; a cart, an account and a purchase run out of the
finite ids that new rows take; so `staff`, `refund_events`, `purchases` and
`customer` do without that check, and database deadlock in `Accounts` is an
action instead. A run checks at most one type invariant, and where a type
invariant is a theorem (`Payments`, `Refunds`, `CartProvenance`, `Accounts`,
`OrderReturns`, `Catalogue`) none.

**Fairness.** None is assumed for safety. `StripeSuccessLearned`: weak fairness
of each event's handler, because Stripe redelivers until it gets the 200 that
follows the commit (`controllers/stripeWebhookController.ts:23-27`).
`RefundLearned`: the same for the read, strong fairness for the settlement,
since a handler may die but not every time. `QueuedIsSettled`: weak fairness of
the cart worker, which polls every five seconds for as long as a server runs
(`index.ts:10`) and repeats what failed. Expired reservations are released only
when somebody orders the same listing, so nothing promises that they ever are;
no liveness is claimed for them. PayPal's money is not claimed to be learned
either: nothing in the code recovers it.

## Findings

1. `paypal_retry` — two initiations may both hold the placeholder; the slower
   one's `UPDATE` (`domain/payments/paypalOrderService.ts:70`) is unconditional and
   puts a captured, SUCCEEDED payment back to PENDING. Stripe's counterpart
   guards it with `status: { not: SUCCEEDED }` (`stripePaymentService.ts:79`). The
   webhook can do the same: it writes by id what it decided on an unlocked read
   (`paypalReconciliationService.ts:46`). `README.md:558` promises that a retry
   converges.
2. `paypal_late` — neither PayPal initiation nor capture refuses a CANCELLED
   order, and the capture and webhook record an exception only for EXPIRED or a
   passed deadline (`paypalCaptureService.ts:95`); cancellation clears the
   deadline. Money for a cancelled order is then recorded with no exception,
   against `README.md:541`, which the Stripe path keeps.
3. `refund_twice` — the status that guards settlement is read before the payment
   is locked (`stripeReconciliationService.ts:109`), and the answer does not look
   at it (`stripeRefundService.ts:79`). With a second refund in flight both pass the
   capacity check: the first is booked twice and the second cannot be finalised.
   `README.md:586` rules it out. Capacity still holds (`RefundCapacityKept`, also
   proved), and a lone refund is exact (`ExactWhenAlone`, proved too).

What the code allows without any of its documents denying it is no finding, and
no property claims the opposite:

* A return is accepted for an order in any status, and a completed return does
  not stop a later cancellation: both put the same units back on the shelf
  (`orderReturnService.ts:174`).
* A request authenticated before the account was deleted may still add an
  address to the erased row or change its e-mail and profile; nothing looks at
  `deletedAt` again. What must not come back, sessions and the password, is
  `DeletedStaysOut`.
* A resend reads the address to write to before it replaces the token
  (`authController.ts:196-206`); after a change of address in between, the new
  token, which verifies the new address, is mailed to the old one.
  `VerifiedIsCurrent` speaks of the address a token is issued for, not of the
  mailbox it reaches.
* A product image's file is deleted before its row (`productImageService.ts:87`),
  so a failure in between leaves a row without a file until the deletion is
  repeated. `FilesAccounted` says nothing of images in that direction.
* The creation of a Used offer makes the product its category's feature by id,
  without looking at the category again (`usedOfferService.ts:76`); only the
  unique index keeps features unique, which `OneFeaturePerCategory` models.

## Proofs

All theorems hold for every value of the constants that satisfies the modules'
`ASSUME`s, which only say what the code or the schema says (finite sets of
orders, positive bounds, a key set without `NoKey`, ...). Every property of a
passing run is a theorem but the liveness properties; two of `Payments` are theorems
for shops without PayPal, since runs refute them with it.

* `OrdersProofs`. `TypeCorrect` first: it already carries that stock stays in
  `0..MaxStock`. `IInv`, types, `StockInv`, `ReservedBacked` and the ledger, is the
  inductive invariant (`InductiveInvariant`). `NoOversell` alone is not inductive:
  cancelling or confirming subtracts an order's quantity from both columns, which
  is safe only because the reserved column is exactly the PENDING orders' sum, and
  a Used item's row must be tied to its lifecycle. Sums are cardinalities of unit
  sets, so the lemmas `UnitsAdd`, `UnitsRemove` and `UnitsSame` do the arithmetic that
  an order entering, leaving or staying PENDING needs. From `IInv` follow
  `NeverOversells`, `ReservationsAreBacked`, `UsedOffersConsistent`, `LedgerIsComplete` and
  `ReservedOrdersConfirmable`. `SalesAreOrders` counts fulfilled orders the same way;
  `KeysNameOneOrder` and `PaidOrdersNeverExpire` need only that a row is claimed once.
  `PromiseKept` is the refinement of `StockPromise`, one action at a time: each
  order action is a step of the promise on that order's lines, each staff action a
  change of what is available, and `IInv` is what makes the promise's own guards true.
* `OrderReturnsProofs` and `PaymentsProofs` extend `OrdersProofs`: an action of theirs
  that is an action of `Orders` keeps `IInv` by that module's lemmas, and only the
  new ones are argued for, so `StockUnderReturns`, `StockUnderPayments` and both
  `PromiseKeptUnder...` theorems hold for the compositions.
  `ReturnsAreBacked`: the columns count units of open and completed returns, with
  lemmas for a return that enters, advances or leaves. The invariant needs one
  fact about orders, `NothingUnordered`: an order without a row bought nothing, so a
  placed order's quantities never change under its returns.
* `PaymentsProofs`. `SuccessesAreBacked` is not inductive: a success is written from
  what a call was answered, an event said or a webhook read earlier. `PaymentsInv`
  says of each of these that it is still true of the provider, which only moves
  forward, and that a row never changes provider. `SuccessesAreFinal` and
  `LatePaymentsFlagged` assume `"PAYPAL" \notin Providers`. That is a shop the code
  supports, and the assumption is needed: findings 1 and 2 are the counterexamples.
  `SuccessesAreBacked` and the composition theorems have no such assumption.
* `RefundsProofs`. `RefundsWithinPayment` needs types and one fact more: a payment
  taken by hand never has a reservation, since the manual refund compares with
  `refundedAmount` alone. One lemma (`SettleKeeps`) covers answers and events. What is
  booked needs `BooksInv`: every word a request or an event carries about the end
  of a refund is the provider's (`WordIsTrue`), so two settlements by stale reads
  cannot disagree (`OutcomesAreTrue`), refunded covers what succeeded and reserved
  never exceeds what is open (`RefundsAreBooked`, `NoCapacityLeaks`), and a refund that is
  the payment's only one is booked exactly (`OneRefundIsExact`): its second settlement
  finds nothing reserved and fails.
* `CartProofs`. `TasksFollowOrders`: the invariant adds that an order without a
  row has no task. Settlement and every customer edit act on tasks through one
  lemma each (`SettleState`, `EditsKeepState`), whatever they do to quantities.
  `AllocationsWithinCart` counts the units that orders hold of a line, one by one;
  the heart is `reduceAllocations`, which takes from the oldest order first: a reduction
  that is not covered by unallocated units leaves the orders together with exactly
  what the cart has (`ReduceReaches`, `ReduceExact`). It makes `SettlementSucceeds`
  possible: settlement's only failure is a line too small for the purchase.
  `CartActsLikeIntent` is the whole refinement of `CartIntent`: with the queued tasks
  counted as done, settlement is unseen (`SettleUnseen`), and each edit, claim and
  outcome is one step of the intent, although the code settles the queue first.
* `AccountsProofs`. `AccountsIInv` adds to the types what a request half way may rely
  on: who holds which lock and what the holder read under it (`LocksHeld`), that
  sessions and credentials found are there (`SessionsKept`), that a deleted account's
  password is unusable, and which address a current token was issued for
  (`TokenFits`). From it follow `CredentialsFormChains`, `DefaultsAreUnique` and the three
  action properties `LogoutIsFinal`, `DeletionIsFinal` and `VerificationIsCurrent`. That a
  deletion promotes one of the addresses that remain needs a minimum to exist:
  `MinOfNaturals`, by well-founded induction on the naturals.
* `CatalogueProofs`. `FilesAreAccounted` rests on what is known of a file between
  storage and database: a held file is stored, shown nowhere and known to no
  other handler (`HeldAlone`); a file whose image is being deleted shows nothing else
  (`DeletesImages`); roles of files do not mix (`RolesApart`); two columns share a
  file only within a category (`ArtworkOnce`). `FeaturesAreKept` needs the types only.
  `ImagesStayInOrder` counts: places below the number of images and pairwise
  distinct are all taken (`PlacesFill`), and appending one, closing the gap of one
  and permuting them keep both (`PlaceAdded`, `PlacesClose`).
* `PurchasesProofs`. `ReceivedStaysHistory` and `ReceiptsAreStock` rest on which lines an
  operation reaches: every mutation but a return works on PENDING lines, and an
  amendment only on documents that have no other kind (`HistoryKept`).
  `CostsAlwaysReconcile` is about `allocateProportional` (`SharesAreFair`). The sums of
  the model are folds in an order that CHOOSE fixes; `SumUnfolds` and `SumRemove` show
  that any element may come first, and from there sums add, scale and count. The
  remainders of the divisions add up to the leftover pennies times the merchandise,
  so there are at most as many pennies as lines (`FewPennies`); lines rank without
  ties, so exactly that many get one (`RanksFill`); and a penny moved would go from
  a larger remainder to a smaller (`NoBetterPenny`). `FinalsAddUp` follows: the check
  with which `calculatePurchaseCosts` ends can never refuse a document.

The library's induction theorems cannot be instantiated here. Where a proof needs
induction (a least or greatest order, a set of places, a sum) it takes a minimal
counterexample: the naturals are well founded, and so are the subsets of a finite
set (`SmallerFirst`).

Only model-checked: the liveness properties `StripeSuccessLearned`, `RefundLearned`
and `QueuedIsSettled`, since the prover handles neither fairness nor ENABLED.

## Not modelled

Row locks between order transactions are taken as given, so their deadlocks are
out of sight until `OrderLocking`; PostgreSQL resolves one by rolling a
transaction back, which is the action not happening. Read by hand, checkout,
confirmation, cancellation and expiry agree on the order (idempotency key, cart,
`Order`, listings ascending, cart tasks), but not every transaction follows it:
the purchase import's `createMany` takes its foreign-key locks on listings in
document order (`purchasePersistence.ts:127`), refund creation takes `Payment`
before `Order` where a PayPal capture takes `Order` first, and the worker's
`lastError` update (`cartProvenanceService.ts:116`) names its rows in no order.
So freedom from deadlock is not a property this code has; an aborted side is
all that the models need. A commit whose
acknowledgement is lost is not in `Catalogue`: compensation would then delete a
file in use. Files outside the service's own folders are never deleted by the
code, and the model has none. Receiving purchases and restocking returns change
the same listings as `Orders`, by increments; they are composed with the
statements of `Inventory` and, for returns, with all of `Orders`, not with each
other. Expired reservations have no liveness property, for the code gives no
guarantee. Stripe's reversal of a refund that had succeeded is left out, and so
is what the administrators' clients do with a refused revision.

Left out for good: invoice parsing and text extraction (characters, not states),
signature verification and hashing (cryptography), analytics and reads, e-mail and
address lookup (I/O), single-row updates such as the profile and business
expenses, and `src/generated/prisma-client`, the generated database client, which
is most of the repository's lines and holds no decision of this program.
