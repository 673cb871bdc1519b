# Kongkon backend: models and proofs

TLA+ specifications of the ordering, matching, payment, cart and account parts
of this NestJS application, the TLC configurations that check them on small
instances, and TLAPS proofs of their safety properties for every instance.
Source paths are relative to the application's `src/`; every definition's
lines are listed under `map` in `PROJECT.json`.

## The system

A customer orders goods from a merchant; a driver (partner) near the merchant
brings them. PostgreSQL (Sequelize), Redis, RabbitMQ and Socket.IO connect the
parts; Midtrans takes the payments. One Node.js process runs everything, so
code between two `await`s is atomic and every `await` lets other handlers run.

| Part | State it keeps | Operations | What makes it correct |
|---|---|---|---|
| Ride offers, `notification/notification.gateway.ts` | `pendingResponses`, a Map in memory keyed by driver and order; one timer per offer | `notifyAssignedDriver`, `handleDriverResponse`, the timer | each offer's promise is settled, once, by its own answer or timer |
| Matching, `partner/partner.service.ts` | the queue of `driver.match`; a local list of candidates | `handleDriverMatchEvent`, `handleRematch` | no request is lost; an order goes to a driver who accepted it |
| Positions and search, `partner/`, `merchant/` | Redis keys that expire after 300 s; merchants' rows | `postLocation`, `findNearbyDrivers` | the answer agrees with where drivers are; a search ends |
| Orders, `order/`, with writers in `transaction/`, `partner/`, `notification/` | the orders table; the queue of `order.matched` | create, pay, status, complete, cancel, delete, assign a partner | the driver in the row accepted it; stale copies undo nothing |
| Payments, `transaction/`, `order/` | the transactions table; Midtrans | `createOrder`, `payment-notification`, deletions | whoever is asked to pay has a transaction; reports are kept |
| Notifications, `notification/` | rooms of Socket.IO; the queue of `order.complete` | one-way messages, the consumer of `order.complete` | an announced completion reaches its consumer, as often as the requests account for; those concerned are told (they are not: finding 3) |
| Carts, `cart/`, `cart_item/` | carts, cartItems | quote, add, update, delete, totals | a cart's total is that of its items; an order costs what was quoted |
| Accounts, `user/`, `roles/`, `user-in-roles/`, `wallet/`, `auth/` | users, roles, wallets | register, sign in, balances | one account per email, with a wallet and a role |
| Catalogue, `merchant/`, `item/`, `variant/` | their tables | create, update, delete | |

Interactions: `createOrder` fills a cart from the catalogue, and makes the
order, the Midtrans payment and the transaction. `processPayment` marks the
order paid and publishes `driver.match`. The consumer of `driver.match`
searches, offers the order and, when a driver accepts, publishes
`order.matched`. The consumer of `order.matched` stores the driver in the
order's row. Requests of drivers and customers write the same row in the
meantime. `completeOrder` publishes `order.complete`, the controller behind it
publishes it again, and the consumer notifies rooms that ought to be those of
the customer, the merchant and the driver.

What is hard here, in the order in which `PROJECT.json` lists the hazards: two
offers that share a Map key; an answer that races a timer; a consumer that
waits for a promise nobody can settle; redelivered messages; data that expires
or is deleted between two reads; copies of rows saved after the row has
changed; operations over several systems without a transaction; inserts that
nobody awaits.

## Modules

| Module | Models | Proofs |
|---|---|---|
| `OfferGateway` | the offers, their Map and timers | `OfferGatewayProofs` |
| `DriverMatching` (extends `OfferGateway`) | the consumer of `driver.match` and RabbitMQ's part in it | `DriverMatchingProofs` |
| `Matchmaking` | what `DriverMatching` implements: an order is matched once per search, and a failure repeats a search at most once per request | |
| `DriverSearch` | positions and `findNearbyDrivers` | `DriverSearchProofs` |
| `OrderLifecycle` | all writers of the orders table, the consumers of `order.matched` and `order.complete` | `OrderLifecycleProofs` |
| `OrderAssignment` | what `OrderLifecycle` implements: an order is paid, searched for, accepted and assigned | |
| `Payments` | `createOrder`, Midtrans's notifications, deletions | `PaymentsProofs` |
| `Carts` | carts, cart items, their totals; the catalogue they are priced from; quotes | `CartsProofs`, `CartTotalsProofs` |
| `Accounts` | registrations, wallets, roles | `AccountsProofs` |

Each `MC...` module instantiates one of them for TLC.

**OfferGateway.** Offers are numbered. `pendingResponses[k]` is the offer whose
`resolve`/`reject` the Map holds under key `k`, `outcome` the state of each
promise, `armed` the timers that have not fired, `deleting[k]` the answers that
await `cacheManager.del`. An answer takes two actions, because the Map's entry
goes only after that await. Timers fire in the order they were armed: all last
30 s. `Restart` empties what is in memory. The cached copy of an entry is
written and deleted but never read, and is not state.

**DriverMatching.** A run is one delivery of a message; `run[r].pc` says what
the handler awaits. `held` is the broker's view: which message the run still
has to acknowledge. A handler that throws, a crash and a lost connection give
messages back (the default of @golevelup/nestjs-rabbitmq is to requeue). A lost
connection leaves the handler running without its message. The search is
abstracted to its possible results, nobody or one driver (`DriverSearch` shows
why one). A match names the run and the offer it comes from, so that each rests
on an acceptance of its own.

**Matchmaking.** The view of the rest of the system. A request gives an order a
ticket, a match or a search without result uses it up. Only a failure between
broker and process changes the tickets otherwise, and adds at most one for each
request there was. `ImplementsMatchmaking` counts as tickets what the queue and the
handlers under way may still become.

**DriverSearch.** A search reads the merchant, lists the keys, fetches each key
in any order, then asks the database; `location` changes and expires in
between. Distances are abstracted to the relation `Within`. Drivers are
numbered in the order the query sorts them.

**OrderLifecycle.** A row is its status and partner. A call holds a copy of the
row from `findByPk` to `save()`. `Merge` is what Sequelize writes: the fields
of the copy that the handler changed, nothing when the row is gone. A driver's
acceptance is one action here; `DriverMatching` is its detail, and
`PartnerAccepted` ties the two through the history `sent`, and
`Matchmaking` is what it may rely on. Each message of `order.matched` has a slot
of its own in `call` (`Deliveries`), because the broker has a message in at most
one handler's hands. Any await of its handler may fail, for a missing row or
another reason: the error is logged and the message acknowledged
(`MatchedOrderFails`; `dropped` remembers the order). Completions are counted:
requested (`completing`), announced, acknowledged by the consumer (`delivered`)
and answered; what the queue holds is the difference of two counts.
`PublishComplete` makes both publications, and either may fail
(`PublishCompleteFails`). `HandleCompleteOrder` may fail as well and is
acknowledged all the same; when it does notify, `told` keeps the rooms, which
`Room` names after fields that `findOrderById`'s `{order, cart}` does not have.

**OrderAssignment.** The promise without handlers, copies and messages. An
order that is "open" has a row; one that was removed never comes back. A driver
is assigned only after accepting, may be replaced by another who accepted, and
is never taken away; an accepted order gets a driver unless it is removed, or
the handler of an acceptance was lost to an error (`lost`).
`ImplementsAssignment` maps the table onto it.

**Payments.** `createOrder` may stop before each of its steps (no such user,
Midtrans's error, a failing insert). The foreign key lets a transaction in only
while its order's row is there, and takes it away with the row. `lastReport` and
`raced` are histories: what the latest notification reported, and the orders
that another notification was working on at the time.

**Carts.** `cart`, `row` and `orders` are tables, `listing` says which items
exist. `FillCart`, `PriceLine`, `InsertRows`, `SaveCart` and `PlaceOrder` are
the awaits of `addToCartItem` and of `createOrder` after it; `StartCollect` to
`SaveCart` those of `addToCart`; `StartEdit` to `StoreTotal` those of
`updateCartItem`, whose second half it shares with `PUT carts/:id`.
`StartQuote` and `QuoteLine` are `POST cart-items/calculate`, which stores
nothing; the history `quotes` keeps what it answered. Nobody checks that a
basket has lines: an empty one is inserted and priced like any other, and
quoted at once. Nor that quantities are positive, so `QuoteHolds` compares a
quote with a higher charge only when they are not negative. Prices are small numbers
that never change, as no route changes them; notes, names and the status
`active`, which no code changes, are left out. `edited`, `disturbed` and
`detached` are histories that name the reasons for which a total may drift.

**Accounts.** `pending` holds the inserts of a registration that nobody awaits:
the wallet's and the role's. They are done some time later, also after the
answer; one that the database refuses has no handler, and either ends the
process (Node's default) or is reported. `raced`, `renamed`, `roleless`,
`stripped` and `lost` are histories that name the reasons for a shared email
and for a missing wallet or role.

What becomes of rows that refer to a deleted one depends on the tables, which
`sequelize.sync()` makes only where they are missing. `Carts` and `Accounts`
allow the outcomes that the entities' declarations leave open: the deletion
takes them along, clears the reference, leaves it dangling, or is refused.

## Runs

| Run | Shows | Bounds |
|---|---|---|
| `offer_gateway` | when offers are orphaned, cut short or left in the Map; sole offers are settled | 2 drivers, 1 order, 4 offers, 2 suspended answers: a twin, a stranger and a third offer after an answer |
| `driver_search` | what a search says of drivers that stood still, why it fails, that it ends | 3 drivers, 2 merchants, 3 positions, one without a coordinate, 1 search: searches share nothing but what they read |
| `driver_matching` | requests are conserved; matches rest on acceptances of their own and are within the requests, each counted again after a failure; stuck runs have a rival; undisturbed requests are served; the matching implements `Matchmaking` | 1 driver, 2 orders, 2 deliveries, 2 requests per order, 1 crash or lost connection, prefetch 2 |
| `order_lifecycle` | the row keeps a driver who accepted; messages are handled; the table implements `OrderAssignment`; a completion is announced twice for each request answered, never oftener than asked, and reaches its consumer | 1 order, 2 drivers, 1 request and both drivers' messages at a time, 1 completion requested, 1 restart |
| `payments` | payments shown are recorded; no orphan transactions; reports are kept, the latest one unless notifications raced | 1 order, 3 overlapping calls, 1 restart, symmetry of callers (safety and action properties) |
| `carts` | an order is charged its items; a total is that of the items unless something known got in its way; an order costs what was quoted or more; only what lost its cart is collected | 2 items, one with a variant, baskets of no, one and two lines, 2 carts, 2 cart items, 4 requests, 2 at a time, 1 restart |
| `accounts` | shared emails and incomplete users are explained; the wallet follows | 2 emails, 2 users, 2 roles, 2 rows of userinroles, 3 requests, 2 at a time, 1 restart |
| `matching_timer` | violated: a comment on the timer | as `driver_matching` |
| `search_all` | violated: a comment on the search's result | 2 drivers |
| `completion_news` | violated: a comment on who is notified of a completion | as `order_lifecycle` |
| `payment_capture` | violated: what Midtrans is told of a capture | 1 order, 1 call |
| `cart_update` | violated: a comment on the recalculated total | as `carts` |

The bounds are enough for the properties because each relates at most one pair
of offers, deliveries, messages or calls on one key, row, cart or email; other
keys and rows share no state with it, except the broker's prefetch, for which
`driver_matching` has a second order. The largest run, `carts`, has 3.2
million states; the others have between 0.16 and 1.1 million. `DriverMatching`
has one driver because a search returns at most one. `Callers` of
`OrderLifecycle` is one because two consumers already give two stale copies
beside the request's. Deadlock is not checked: every component may come to
rest with nothing left to do, and the counters that bound the runs stop it as
well.

`MaxOffers`, `MaxReplies`, `MaxRequests`, `MaxCalls`, `MaxRuns`, `MaxCarts`,
`MaxRows`, `MaxUsers`, `MaxEntries`, `MaxCompletions`, `MaxFailures` and
`MaxCrashes` bound what is otherwise unbounded; `Callers` and `Searches` bound
how much happens at the same time. `Prefetch` is the broker's own limit (10 by default), made small. With `MaxCompletions` at one, both
announcements of a completion may be in the queue together, or the order may be
deleted between them; further requests only add to the same counts, as the
proof of `AnnouncedTwicePerRequest` shows for any number.

### Fairness

Weak fairness, per actor, of what the platform does by itself: timers that are
due fire, handlers whose await is over go on, the broker delivers what is ready
when there is room, per queue and order where messages wait for each other,
handlers of requests go on once they have started (their awaits end, with an
answer or an error), Redis and the database answer, inserts that were started
are done or refused. Nothing is assumed of
customers, drivers or Midtrans, nor of crashes and expiry. `RequestServed`
holds only while nothing fails, no order is deleted or requested twice: with a
twin offer the code does leave a consumer waiting for ever (`StuckRunHasRival`,
run `matching_timer`), and the message of a deleted order is requeued for ever.

## What the violated runs found

1. `notification.gateway.ts:143`: a second offer for the same driver and order
   takes the Map entry of the first; the first timer rejects the second offer
   and the first promise is never settled.
2. `partner.service.ts:83`: `let [results] =` keeps one driver of all that are
   near, so "the next candidate" never exists.
3. `notification.service.ts:64`: `findOrderById` returns `{order, cart}`, which
   has no `customer_id`, `merchant_id` or `partner_id`; a completion is notified
   three times to the room `user-undefined-notifications`, and the customer, the
   merchant and the driver hear nothing. (The notices of `order.matched` at line
   30 miss the customer and the merchant in the same way; they have the driver's
   id from the message.)
4. `transaction.service.ts:50`: `findOrderById` returns `{order, cart}`, which
   has no `save`; the notification of a captured payment fails before the
   matching is started.
5. `cart_item/cart.service.ts:335`: the total stored after an update of a cart
   item leaves out the additional price of every variant in the cart.

One more needs no run: `order.service.ts:340` tests `!= 'paid' || 'canceled'`,
which is always true. `RefuseCancel` models it: no order can be cancelled, and
nothing is refunded.

## Proofs

All proofs hold for arbitrary sets of drivers, orders and callers and arbitrary
bounds, from the assumptions named in the modules (bounds are natural numbers;
the values that stand for "nothing" are not values of the data; in
`OrderLifecycle`, requests and deliveries are distinct slots, and finitely many
requests are under way; in `Carts`, prices
are natural numbers, and no basket is longer than `MaxRows`, as one that is
could never be inserted within that bound).

* `OfferGatewayProofs`. The invariant `IInv` adds to the properties that an
  entry sits under its own key and that a deletion is pending only under a key
  that was answered. Each offer's fate then depends only on offers with its own
  key. The four safety properties and the type invariant are conjuncts of it.
* `DriverSearchProofs`. A driver who has not moved since a search began has one
  value for all its steps, so the list of keys, the values read and the answer
  agree with it (`ReadsOK`).
* `DriverMatchingProofs`. On top of the gateway's invariant: each offer belongs
  to one run (`OffersFollowRuns`), each match to one run and one offer
  (`MatchesFollowRuns`). `NoRequestLost` rests on how the number of runs that
  hold a message changes with one run. `MatchmakingImplemented` maps every step
  to one of `Matchmaking` or a stutter; a failure adds at most what was held
  (`FailureRepeats`). On the abstract steps, `MatchesPaid` is inductive: an
  order's matches and its tickets together are at most its requests times one
  more than the failures. `MatchesWithinRequests` is what is left of it without
  the tickets.
* `OrderLifecycleProofs`. `CallOK` says what a call under way knows, `RowsOK`
  and `HistoryOK` relate rows and messages. The step that needs them is a save
  of a stale copy: a copy whose partner is a driver was read after a driver was
  stored, and no write takes the partner back to "pending", so where `Merge`
  keeps the row's own partner it is a driver who accepted. `AssignmentSticks`,
  `PartnerAccepted` and `AcceptedHasPartner` follow. `NewsOK` counts, for each
  order, the requests with two announcements still to make (`Ahead`) and those
  with one (`Halfway`): with them, announcements stay between twice the requests
  answered and twice the requests made. A restart or an error only takes calls
  out of these sets (`QuietKeepsNews`).
  Its last section is the refinement. From the same invariant, each step is one
  step of `OrderAssignment` or a stutter: a publication is a `Search` because
  the call has stored "paid", a save of a status leaves the partner alone,
  `AssignPartner` assigns the driver of its message or leaves the one the row
  has.
* `PaymentsProofs`. A call in `record` has had its payment opened, a call in
  `saveTx` has read a status. With them `PaymentUrlBacked` and
  `TransactionHasOrder` are inductive. `FirstRecord` (an order has one creator,
  and no transaction before) is a second invariant, needed for the action
  property `StatusComesFromReport`: it rules out that the insert of `createOrder`
  overwrites a status. For `LastReportStored`, a call that will save is either
  the latest reader's or has `raced` against it.
* `AccountsProofs`. An insert relies on what the look-up saw, although users
  may appear in between. `LookUpHolds` is what survives the wait: whoever has
  the email of a registration past its look-up was created during it, or was
  renamed. `IdsInOrder` makes the new user the later one of each pair, the one
  `DuplicateEmailExplained` blames. `RegistrationsTracked` follows the two
  inserts of a registration until they are done, lost or explained by a
  history; `IncompleteUserExplained` is what is left when none is under way.
* `CartsProofs`. Ways into a row's cart and into a cart's total: an item is in a
  cart that `addToCartItem` made or has lost it with a deletion (`RowsOK`), and
  only the call that made a cart of `addToCart`, or a change by hand, stores a
  total in it (`CallFits`). `CollectedItemsWereDetached` follows. `Typed` adds
  the types, with what each handler has filled of its call by the await it is
  at (`CallFlows`). That a total is a number needs sums: `SumFunction` is a
  recursive function over the subsets of a function's domain. Its existence and
  its laws (an element split off, one summand changed, summands compared,
  renamed or all 0) are shown by well-founded induction, with the set of
  subsets that have the property in place of an operator parameter.
* `CartTotalsProofs`. `Priced`: the sum of a call is that of the lines it has
  looked up and found, so it is the basket's when none is left.
  `OrderChargesItsItems` and `QuoteHolds` follow, as orders and quotes take
  that sum. `TotalsKept`, for `TotalMatchesItems`, cannot speak of settled
  carts alone: it says how far the total is at each await of the one call that
  is at work on an undisturbed cart (`CallTotal`), that there is one only
  (`Apart`), and that a cart which no call works on has the total of its items
  (`Matched`). Steps of others leave such a cart alone (`KeepsCart`), because
  cart items get ids that nobody had, an item deleted from the catalogue does
  not come back, and an edit's cart item is in the edit's cart or has lost it
  (`Known`, `Ages`). Each of these invariants was checked on the states of
  `carts` before it was proved.

Every safety property of the passing runs is proved. Model-checked only: the
liveness properties (`SoleOfferSettles`, `SearchEnds`, `RequestServed`,
`MatchedMessageHandled`, `AnsweredIsDelivered`, `WalletFollows`), which are beyond
the prover, with the liveness part of `ImplementsAssignment`.

## Not modelled

* Delivery costs, distances and text; authentication, a password comparison and
  a signed token; names, ratings and pictures of the catalogue and of users.
* The balances of wallets, which no request reaches: `addBalance` is behind the
  check of `cancelOrder` that always fails, nothing calls `useBalance`. With it
  the dead branch of `cancelOrder`.
* `handleRematch`, which changes nothing: `findOrderById` returns a wrapper
  without `merchant_id`, the search for a merchant `undefined` throws, and the
  handler's own `catch` logs it. `waitForDriverResponse`, which nothing calls.
* The texts of one-way notifications, and the rooms of all but the completion's
  (finding 3): nothing in the server depends on them. The messages
  `transaction.paid` and `payment.confirmation`, which no queue receives. That
  their publication may fail is modelled where something has been stored before it.
* The answer to Midtrans: a notification's handler answers with an error after
  it has stored the transaction's status (finding 4), so Midtrans sends the
  notification again. `Payments` lets any notification arrive any number of
  times, which includes this.
* The classes no module provides (`partner_matching.service.ts`,
  `rabbitmq_consumer.ts`), and configuration.
* Failures of the database in the middle of a handler, except where they leave
  something behind (`createOrder`, publications, unawaited inserts) or are logged
  while a message is acknowledged (`order.matched`, `order.complete`).

`DriverMatching` and `OrderLifecycle` are not checked as one state machine:
the product of both is beyond TLC even for one order. They meet in
`Matchmaking`, which the first implements, and in the messages
`order.matched`: the first shows that each rests on an acceptance of its own
(`MatchRestsOnAcceptance`), the second that a row's driver comes from such a
message (`PartnerAccepted`).

## Plan

1. Done, in this order: offers, search and matching; orders; payments; carts;
   accounts; the abstract assignment that the orders implement; completions
   and their announcements; quotes; `Matchmaking`, which the matching
   implements; proofs of every safety property.
2. Left to model: a reduced `OrderLifecycle` whose `DriverAccepts` is driven
   by `Matchmaking`, which would check the two halves' assumptions about each
   other in one run.
