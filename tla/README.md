# Marhaba Delivery V2 in TLA+

A verification project for the Marhaba delivery platform: a NestJS API
(`packages/api`), the types and rules it shares with its clients
(`packages/shared`), an offline-first driver app (`packages/driver-app`) and a
dispatcher console (`packages/web-dashboard`).

The API is many handlers over one PostgreSQL database.  A handler reads a row,
decides, and writes in a transaction of its own; nothing locks the row between
the read and the write, and several API processes may serve the same order.
Its clients are no simpler: the driver app replays a queue over a bad network,
the dashboard polls, retries and refreshes its session behind the user's back.
That is the interesting part of the system, and the models are built around it:
one step per `await` that matters, one step per transaction.

## Inventory

| Component | State | Operations | Talks to |
|---|---|---|---|
| Order state machine (`shared/src/state-machine`) | none, a table | `canTransition` | read by every order handler |
| Orders (`orders.service.ts`) | `orders` rows | create, place, transition, cancel | pricing, audit log, broadcasts |
| Assignment (`assignment.service.ts`) | `orders.driverId`, `driver_profiles` | assign (manual, nearest), reassign, unassign | audit log, broadcasts |
| Drivers (`drivers.service.ts`) | `driver_profiles.status` | set own status, nearest | geography queries |
| Audit log (`order-events.service.ts`) | `order_events`, append only | record, timeline | analytics |
| Delivery (`delivery.service.ts`) | `delivery_attempts`, `proof_of_delivery`, OTP in Redis | record failure, issue OTP, submit proof | orders, scheduler |
| Scheduler (`scheduler.service.ts`) | BullMQ jobs in Redis | schedule retry, schedule placement, process | orders |
| Real-time (`realtime/`) | Socket.IO rooms | broadcast, join, driver ping | driver location |
| Payments (`payments/`) | `payments`, `processed_webhook_events` | intent, cash, webhook | Stripe, broadcasts |
| Idempotency (`idempotency.interceptor.ts`) | Redis lock, `idempotency_keys` | prepare, persist | order creation, payment intents |
| Rate limit (`rate-limit.guard.ts`, `redis.service.ts`) | a counter per window | count | Redis |
| Pricing, zones, geography (`pricing.ts`, `zones/`, `geo/`) | zones (polygon and PostGIS area), rules | quote, compute, edit zones and rules | order creation |
| Catalog (`catalog/`) | products | price and availability, categories | order creation |
| Auth (`auth/`, `jwt-auth.guard.ts`) | `users`, `refresh_tokens`, cookies | register, login, refresh, logout | dashboard |
| Analytics (`analytics.service.ts`) | none | dispatch board, driver performance | orders, audit log |
| Dashboard (`web-dashboard`) | query cache, cookies | `request()` with its refresh, dispatch page | API |
| Driver app (`driver-app`) | SQLite outbox, location task | enqueue, flush | API |
| Driver location, ETA | Redis geo index, history rows | ingest ping | broadcasts |
| Notifications, users, storage, health | rows | plain CRUD and I/O | |

What is hard, component by component (each at its line under `hazards` in
`PROJECT.json`):

* **Orders and assignment**: decisions on rows read before the transaction; two
  rows (order, driver) and a log that must agree; broadcasts after the commit; a
  driver taken by two assignments; a finished order that is re-opened.
* **Delivery**: five writes without a transaction; attempts numbered from a
  count; an OTP checked and deleted in two commands; a proof stored before the
  order is delivered.
* **Scheduler**: a job racing the dispatcher; a crash in the middle of a job, or
  a lapsed lock that sets a second worker on it; job ids that are never free
  again after a failure.
* **Payments**: redelivered, reordered and half-handled webhooks; intents asked
  for again, around the expiry of Stripe's key too.
* **Order creation**: a key left behind by an error or a crash, a lost lock,
  retries that overlap; prices, zones and rules edited between the reads; two
  representations of one polygon; a counter without an expiry; rounding.
* **Auth**: one refresh token used by two tabs; a logout in between, or one that
  leaves the cookies; tokens that outlive their user; a client that retries.
* **Outbox**: overlapping flushes that write from old rows, late and lost
  answers, giving up.
* **Dispatch page**: answers that are older than what the page knows; a room
  that is never written to.

## Modules

| Module | What it is |
|---|---|
| `OrderStatus` | the enums and the transition table |
| `OrderLifecycle` | orders, assignment, driver status: every handler as read, transaction, broadcast |
| `OrderMachine` | abstract specification: an order is one atomic state machine with a holder |
| `OrderRequirements` | what must hold of `OrderLifecycle`, and the refinement mapping to `OrderMachine` |
| `OrderLifecycleProofs`, `OrderCalmProofs` | theorems and proofs about them |
| `Delivery`, `DeliveryRequirements` | failure reports, OTP, proofs and the BullMQ workers, composed with `OrderLifecycle` |
| `DeliveryProofs` | how far the theorems about orders carry over, and the theorems about deliveries and jobs |
| `Dispatch`, `DispatchRequirements` | analytics and the dispatcher's page, composed with `Delivery` |
| `DispatchProofs` | the page as a client of `Delivery`, and the theorems about boards and credit |
| `Payments`, `PaymentsRequirements` | payment intents, cash, the Stripe webhook, and Stripe itself as their environment |
| `PaymentsProofs` | their inductive invariant, theorems and proofs |
| `Pricing` | `computePricing`, in exact arithmetic |
| `PriceBook` | products, zones and rules, what managers do to them, and the queries on them; on `Pricing` |
| `Checkout`, `CheckoutRequirements` | POST /orders, from the rate limit to the stored response; on `PriceBook` |
| `OncePerKey` | abstract specification: what an Idempotency-Key promises |
| `CheckoutProofs` | the proof that `Checkout` implements it, and those about totals, replays, counters and areas |
| `Sessions`, `SessionsRequirements` | refresh tokens, cookies, accounts and the dashboard's `request()` |
| `SessionsProofs` | their inductive invariant, theorems and proofs |
| `DriverApp`, `DriverAppRequirements` | the outbox, the network, and the transition endpoint behind it |
| `DriverAppProofs` | its inductive invariant, theorems and proofs |
| `MC...` | the models for TLC |

An operator named after another one with a suffix (`AssignCommitNoRelease`,
`ProcessRetryDriverOnly`) is a mutant: the definition below it as a plausible
bug would have it.  `PROJECT.json` says which property refutes which mutant; no
specification uses them.

### How they correspond to the code

`orders`, `drivers` and `audit` are tables; `audit` keeps, per order, the last
event that carries a `toStatus`, which is all the properties need.  `view` is
the last status broadcast to the room of an order, which the payment webhook
tells PLACED whatever the status is (`AnnouncePaid`).  `req[p]` is the request
that process slot `p` works on: `pc` names the await it is suspended at, and
the other fields are the local variables that survive that await (`from` and
`prev` are the snapshot).

| Code | Actions |
|---|---|
| `OrdersService.create` | `Create`, `Emit`; its reads and its prices in `Checkout` |
| `OrdersService.transition`, cancel | `Transition`, `TransitionCommit`, `Emit` |
| `OrdersService.place`, then `transition` | `Place`, `TransitionRead` or `TransitionRejected`, `TransitionCommit`, `Emit` |
| `AssignmentService.assign` | `Assign`, `PickNearest`, `CheckDriver`, `AssignCommit`, `Emit` |
| `AssignmentService.unassign` | `Unassign`, `UnassignCommit`, `Emit` |
| `DriversService.setStatus` | `SetDriverStatus` |
| `emitOrderStatus` in `onPaymentSucceeded` | `AnnouncePaid` |
| any rejected query | `Fail` |
| the process dies | `Crash` |
| `DeliveryService.recordFailure` | `RecordFailure`, `CountAttempts`, `InsertAttempt`, `LogFailure`, a call of transition, `Resolve`, another call, `ScheduleRetry` |
| `DeliveryService.issueOtp` | `IssueOtp`, `ExpireOtp` |
| `DeliveryService.submitProof` | `SubmitProof`, `CheckOtp`, `BurnOtp`, `SaveProof`, a call of transition |
| `SchedulerService.process` | `ProcessRetry`, a call of transition |
| the BullMQ worker around it (external) | `StartJob`, `CompleteJob`, `Abandon`; `Stall` when its lock lapses |
| `PaymentsService.createPaymentIntent` | `StartIntent`, `CreateIntent` (the call of Stripe), `UpsertPayment`, `ReturnSecret` |
| `PaymentsService.confirmCash` | `ConfirmCash`, `RecordCash` |
| `PaymentsService.handleWebhookEvent` | `Deliver`, `ApplyEvent`, `RecordEvent`, `Mark`; `EventError` is an error its `finally` block follows |
| Stripe and the client (external) | `Pay`, `Decline`, `Refund`, `ForgetKey` |
| `RateLimitGuard`, `RedisService.rateLimit` | `Arrive` (INCR), `Expire`, `WindowEnds` |
| `IdempotencyInterceptor.prepare` | `LookUp`, `Replay`, `AcquireLock`, `InsertKey`; `LockEnds` is the lock's time to live, or Redis losing it |
| `OrdersService.create`, `PricingService.quote` | `ReadProducts`, `FindZone`, `ReadRule`, `CommitOrder` |
| the response; `IdempotencyInterceptor.persist`, not awaited | `Respond`, `Persist`, in either order |
| `CatalogService`, `ZonesService` | `UpdateProduct`, `DeleteProduct`, `CreateZone`, `UpdateZone`, `RedrawZone` and then `SyncZoneArea` or `EditFails`, `CreateRule`, `UpdateRule` |
| `api.ts` `request()` | `Api`, `Me`, `Logout` (a fetch begins), `Accepted`, `Unauthorized`, `SendRefresh`, and `Deliver`, behind which it calls itself |
| `AuthService`, `TokensService` | `Login`, `Register`, `CreateUser`, `FindToken`, `RevokeToken`, `ReadUser`, `Issue`; `RevokeAll`, `ClearCookies` |
| `UsersService` | `AddUser`, `UpdateUser` |
| `enqueue` | `Press`, `Ping` |
| `flushOutbox`, `apiFetch` | `StartFlush`, `Send`, `MarkSent`, `MarkFailed`; `ConnectionFails` and `Kill` are what happens to it |
| the transition endpoint, seen from the app | `ReadOrder`, `WriteOrder`, `Refuse`; `StaffMove` is everybody else |
| `AnalyticsService` | `DispatchBoard`, `DriverPerformance`, of the tables and the `journal` |
| `DispatchPage` | `Refetch`, `ReadBoard`, `ShowBoard`, `FetchFails`; `Click`, `Hear`, `LoseAnswer` |

A handler of `Delivery` calls `OrdersService.transition`: `flow[p]` is where
it is in its own code and `req[p]` is the call, so the call's steps are the
very actions of `OrderLifecycle`.  `Dispatch` adds to every step of `Delivery`
what it records in the journal and what it answers to a page.  A transaction is
one step, because its row locks are held until it commits and its updates are
blind; the exception is `commitAssignment`, whose first statement reads the
driver under read committed without a lock, and which is therefore two steps.  A
request that is refused changes nothing and has no step, except where a client
is modelled that hears of the refusal.

Abstractions, module by module:

* **orders, delivery**: any slot outside `Workers` is a handler of some API
  process, and each member of `Workers` is the BullMQ worker of one.  `Crash`
  ends every process; the death of one is an error of each of its handlers and a
  `Stall` of its job.  Prices, items, addresses, reasons and times are left out;
  the nearest driver is any free driver (or none in range); retry windows are a
  small set of instants, any of which may be due at any time; a one-time
  password is a model value.  Callers are not restricted by role, since the
  properties do not depend on who calls;
* **payments**: the state an intent is in with Stripe, not its amount, and one
  event per intent and kind; a refund is whole or partial, since the code sets
  REFUNDED for both.  A client pays only with the secret it was given.  `told`
  is the webhook's broadcast, whose effect on the room is `AnnouncePaid` of
  `OrderLifecycle`.  Stripe may forget a key at any time, a request under way or
  not; `straddled` is a history variable: the orders whose key was forgotten
  under a request for an intent;
* **checkout**: a body hash stands for its body.  Distances are whole metres and
  a surge multiplier is a percentage, so that every product is exact; the code
  multiplies doubles before it rounds (`pricing.ts:70-74`), and at an exact half
  may get the other neighbour (50 * 1.15 rounds to 57 there, to 58 here).  No
  property depends on which.  The currency is left out, and so is how far a
  counter is over its limit.  Geometry is a set of points per polygon and a
  distance per point.  The Zod pipe runs after the interceptor, so a body it
  refuses is one more error behind `InsertKey`.  There is one client address;
* **sessions**: one browser.  A logout's response clears the cookies or leaves
  them, as `COOKIE_DOMAIN` has it: they are set with a domain and cleared
  without one.  An access token is whose it is, or none once it has expired.  A
  row of `refresh_tokens` that neither the browser nor a call holds is left out,
  which keeps the model finite;
* **driver app**: one order, whose status is all the API has of it.  A request
  that is overwritten on `wire` counts as lost;
* **dispatch**: of a board the page tells apart whether an order is on it and
  who drives it.  `told` is a history variable: what the page has been told.

### The traffic a property assumes

The order handlers do not keep two requests about one order from overlapping,
and much of what one would like to say of them is false when they do.  Their
properties are therefore grouped by traffic, and the README does not hide which
is which:

* **any interleaving**: `Spec`, `DeliverySpec`, `DispatchSpec`, and everything
  about payments, checkout, sessions and the driver app;
* **calm traffic**: `CalmSpec`, `CalmDelivery`.  Requests overlap freely, but
  no two about one order.  This is an assumption on the clients, *not*
  something the code enforces.  `RerunDelivery` (run `delivery_calm`) is calm but
  for the runs of one retry job: two workers may be on it at once, which is
  BullMQ's doing and no client's.

Errors and crashes may happen anywhere in all of them.  A property that an error
can break says so itself: it says of each step that only such a step may break it
(`OnlyKnownCausesStrand`, `OnlyFaultsSignOut`, `OnlyRacesDoubleBook`,
`OnlyOverlapsMisnumber`, `OnlyUnassignReopens`, `OnlyPaymentsMisleadRooms`,
`OrdersStayReplayable`, `AreaFollowsPolygon`, `CountersKeepEnding`), and so holds
before, between and after the faults.  In `OrdersStayReplayable` and
`CountersKeepEnding` the excuse is the action `Fail`, the end of a request
without its next step; that is also how a request ends that the code refuses,
so these two excuse refusals along with errors.  `OnlyFaultsSignOut` and
`OnlyKnownCausesStrand` do not: a step that the code takes by itself is no fault
there (`Fault`, `Faulty`).

`order_stale` shows why calm traffic is needed: with two overlapping
transitions the row jumps (a DRAFT order that has been PLACED becomes
SCHEDULED), although `orders.service.ts` calls the transition atomic.

## Runs

| Run | Instance | Shows |
|---|---|---|
| `order_calm` | 2 orders, 2 drivers, 2 requests, calm | `TypeOK`, `ActiveOrderIsHeld`, `DriverOnlyAfterAcceptance`, `AuditIsAChain`; `OnlyUnassignReopens`: nothing but `unassign` brings a finished order back; `OnlyPaymentsMisleadRooms`: nothing but the webhook of a payment leaves a room behind its order; `OnlyRacesDoubleBook`: a driver is on the order they are assigned to until two assignments of that driver overlap; `ImplementsMachine` (refinement of `OrderMachine`) |
| `order_stale` | violation | `StatusStepsAreLegal` against "all atomically" (`orders.service.ts:188`) |
| `delivery` | 1 order, 2 HTTP handlers and a worker, any interleaving | `DeliveryTypeOK`, `AuditExplainsStatus`, `AuditIsPlausible`, `DriverChangesAreAssignments`; `OnlyOverlapsMisnumber`: attempts are numbered 1, 2, ... until two reports overlap between count and insert; `OnlyKnownCausesStrand`: an error, a crash, a stall, a client that asks for RETRY_SCHEDULED or a job id the queue still has leave an order waiting with nothing to wake it, and nothing else does |
| `delivery_calm` | 1 order, 1 HTTP handler, 2 workers that may be on one job, 2 windows | `RetryHappens`, `DeliveryImplementsMachine`, `OnlyKnownCausesStrand` again, with two attempts, two windows and jobs run twice |
| `dispatch` | 1 order, 2 drivers, a page and one more handler, any interleaving; no worker | `OwnAssignmentShown`, `CreditIsEarned`, `BoardCatchesUp` |
| `payments` | 1 card order, 1 cash order, 2 intents, 2 requests, 3 events, any interleaving | `PaymentsTypeOK`, `ChargedOnce` and `RowHoldsPayableIntent` (but for an order whose key Stripe forgot under a request), `NoFalsePayment` |
| `payments_lost` | violation | `ProcessedTookEffect` against "so re-deliveries are safe" (`payments.service.ts:127`) |
| `checkout` | 2 requests, 1 key, 2 bodies, 2 zones, 1 manager | `CheckoutTypeOK`; `ImplementsOncePerKey` (refinement of `OncePerKey`), `OrdersStayReplayable`; `TotalIsReproducible`; `AreaFollowsPolygon`; `CountersKeepEnding` |
| `sessions` | 2 tabs, 1 user, 4 tokens | `SessionsTypeOK`, `RefreshUsesUp`, `OnlyFaultsSignOut`, `CallsEnd`, `DeactivationTakesEffect` |
| `driver_app` | 2 entries, 2 flushes, given up after 2 failures | `DriverAppTypeOK`, `NotGivenUpEarly`, `NoOvertaking`, `NothingWaitsForever` |
| `outbox_replay` | violation | `AppliedOnce` against "replays after a flaky connection never double-apply" (`outbox.ts:50`) |
| `outbox_offline` | violation | `KeptWhileOffline` against "synced to the API when connectivity allows" (`db.ts:6`): a phone without a network makes its entries DEAD |

What a name does not say: `NotGivenUpEarly` and `NothingWaitsForever` are about
how the queue gives up, not about whether it delivers; `outbox_offline` shows that
it does not.  `NoOvertaking` allows an entry that was given up at some time to be
overtaken, also when a flush that had read it earlier set it back from DEAD to
PENDING.  `CreditIsEarned` allows a hand-over to take an order's history along.
The properties on overlaps and faults state what the code holds on to around a
defect, and name the defect; the defects are under Findings.

**Bounds.**  One order is enough where the property is about one row, its log
and its requests: orders share nothing but drivers.  Two orders and two drivers
are the least with which a driver is wanted twice and an order changes hands.
Two requests are the least that race; the third actor in `delivery` is a worker,
and in `delivery_calm` two workers and one handler take turns but for the
workers.  `Requested` is what clients ask the transition endpoint for: every
status in `order_stale`; in `order_calm` what takes an order to a driver, to a
failure, to its retry and to an end (`Shortened`: PICKED_UP and OUT_FOR_DELIVERY
are more steps of a way that is straight there, the plain transition to ASSIGNED
is asked for in `delivery_calm`, and of the four ends CANCELLED is there, which an
order can reach with a driver and without); in the delivery runs what the driver
app and the dispatcher ask for, which in `delivery` is only what reaches a failure
and in `dispatch` (`Road`) what leads from an assignment to the customer.
`MaxAttempts` bounds the failures
of an order (in the guard of `RecordFailure`): one attempt in `delivery`, where
two reports of one failure may still both be recorded, two in `delivery_calm`,
so that a retry fails and is retried again, for the same window or another.
OTPs are left to `delivery_calm`, retries to the two delivery runs;
`delivery_calm` also asks the transition endpoint for RETRY_SCHEDULED, which it
accepts.  `SelfStatus` is what drivers set themselves: no property tells OFFLINE
and ON_BREAK apart, so at most one is there, and in
`dispatch` none: drivers become AVAILABLE there when they are released.  In
`payments` two intents are the least with which an order can be charged twice, and two requests the least that
ask for them at once or handle one event twice.  `MaxEvents` (`CONSTRAINT
FewEvents`) lets Stripe emit three events: one of each kind, or successes of
both intents and a refund.

In `checkout` two requests with one key are the least that race for it, and two
bodies the least that misuse it; `MaxOrders` is the second order that must not
be.  `Limit` is reached by the two requests and reset by the window.  The
prices, distances and times are chosen at the edges: one basket meets the free
delivery, and the other the minimum, only at the higher price; the distance
fees are half minor units; one basket is in the surge.  `MaxEdits` lets the
manager make one edit (of two statements) anywhere in a checkout, `MaxRules` a
second rule.  With a single manager no two edits overlap, which is what
`AreaFollowsPolygon` excepts anyway.  In `sessions` each of two tabs can hold one
token it presents and one it was issued, and the jar one more, which a tab
presents: four rows are never all held when one is asked for.  In `driver_app`
two entries are the least that overtake, and two flushes the least that work on
one row; MAX_ATTEMPTS is 2 instead of 8, since what matters is whether a row has
used all its attempts, some or none; in `outbox_replay` and `outbox_offline` it
is 8, with batches of 50, as in the code.

**Fairness.**  Nothing is assumed of people, and nothing of faults but that, in
some properties, they stop.

* `delivery_calm`: `WF(Run(p))`, the event loop resumes a handler whose query has
  been answered.  `SF(StartJob)`: some worker takes a due job in the end, although
  handlers of the same order come first again and again (the traffic keeps the
  workers off that order meanwhile); a worker handles one job at a time, and with
  finitely many jobs in an instance none is passed over for ever.  Nothing makes
  a lock lapse, and nothing keeps it from lapsing;
* `sessions`: the API and the network bring each call to an answer or an error,
  and an access token expires;
* `driver_app`: the timer ticks while the app runs, a fetch ends one way or the
  other, and the loop goes on.  The network need never deliver anything;
* `dispatch`: a page that is open and in sight polls (React Query stops
  `refetchInterval` in a tab in the background), the API answers a query, and
  the browser shows the answer.

**Deadlock** is checked wherever the system cannot stop.  It is off in
`checkout` (a counter left without expiry refuses its client for ever, and the
bounds end the traffic) and in the three runs of the driver app (a queue
that is done with `MaxEntries` entries has nothing left to do).

Symmetry is used where no property is temporal liveness and no constant is
named by the model: orders, drivers and requests in the order runs, the HTTP
handlers in `delivery`, requests and intents in `payments`, requests and zones in
`checkout`.

## Findings

1. `order_stale`: `transition` checks the table on a row it read before its
   transaction and updates by id alone, so overlapping transitions skip arrows.
2. `payments_lost`: a webhook event is marked as processed in a `finally` block,
   also when its handler threw, so the redelivery is ignored.
3. `outbox_replay`: the routes the outbox replays to have no idempotency
   interceptor, so an entry whose answer was lost is applied again once a
   dispatcher has moved the order to where the table allows it.
4. `outbox_offline`: a flush without a network counts as a failure of its first
   entry, so eight flushes, about eighty seconds offline, make it DEAD; it is then
   never sent, although `db.ts:4-6`, `location.ts:19-20` and the "will sync when
   online" of `ActiveDeliveryScreen.tsx:46` say that it waits for the network.

One more statement of the repository is not what the code does: "Terminal states -
an order can never leave these" (`enums.ts:43`).  `unassign` asks for a driver and
not for a status (`assignment.service.ts:117`), and a DELIVERED order keeps its
driver, so taking the driver off re-opens it as ACCEPTED.  `OnlyUnassignReopens`
says precisely that, and that nothing else does it.

Seen while modelling, without a statement in the repository that a run could
hold against it.

Orders and delivery:

* nothing releases a driver when an order ends.  `commitAssignment` then
  refuses the driver, and the nearest-driver query skips them, until a
  dispatcher unassigns the finished order, which re-opens it;
* two assignments of one driver that overlap both succeed
  (`OnlyRacesDoubleBook` shows that nothing else double-books);
* `schedulePlacement` has no caller, so a SCHEDULED order waits for a person,
  although the root `README.md:34` has BullMQ drive scheduled deliveries;
* a retry job that failed keeps its id, so a second retry for the same instant
  is silently not added.  If the worker is overtaken between its read and its
  transition (the order moves on and fails again for the same instant), the
  order waits for ever.  `OnlyKnownCausesStrand` names this case (`NotAdded`), and
  `RetryHappens` speaks of traffic in which only workers overlap;
* the transition endpoint takes RETRY_SCHEDULED, and no job is added for an order
  that got there by it (`AskedToWait`);
* BullMQ does not run a job exactly once, as `scheduler.service.ts:21` has it: a
  worker that is held up loses its lock and a second one runs the job beside it.
  The guard on RETRY_SCHEDULED and the table make that harmless as long as nobody
  else is about the order;
* two reports of one failure that overlap are given one attempt number
  (`OnlyOverlapsMisnumber` shows that nothing else misnumbers);
* the webhook of a payment broadcasts PLACED to the room whatever the status is
  by then, or was: a client that watches an order under way sees it placed again;
* the plain transition ASSIGNED to ACCEPTED leaves the driver on the order, busy;
  `unassign` does not.

Payments:

* a late `payment_failed` overwrites CAPTURED, and a slow second intent request
  sets the row back to PENDING: the row may claim less than happened, never more
  (`NoFalsePayment`);
* Stripe keeps a key for a day.  Two requests for an intent of which one began
  before the key ended and one asks after it get two intents, and both secrets
  are out: the customer can be charged twice.  `ChargedOnce` excepts such orders
  (`straddled`) and shows that nothing else leads there;
* an intent that exists is returned without its client secret, so a client that
  lost the first response cannot pay.

Order creation:

* an error behind `InsertKey`, a body that the validation refuses included, or a
  crash before `persist`, leaves a key whose every retry gets a 409: nothing
  ever reads the `expiresAt` of a key row;
* two managers who redraw one zone at once can leave its polygon and its area
  apart until the next redraw, as a failure between the two statements does.

Sessions:

* a login leaves earlier refresh tokens of the user alive; two tabs that refresh
  at once may both succeed with one token, or one of them gets a 401 and its page
  is told so although the browser is signed in;
* a refresh whose response is lost leaves the browser with a revoked token;
* `/auth/me` and `/auth/logout` are never refreshed behind a 401, so a page
  opened after the access token has expired starts signed out, and a logout then
  does nothing on the server;
* `clearCookies` names no domain, `respond` does: with a configured domain the
  cookies stay, so a logout leaves a browser that presents a revoked refresh token
  and an access token that is good until it expires (`HalfLogout`).

Driver app:

* a slow flush sets SENT back to PENDING, so the entry is sent again;
* an old flush also sets DEAD back to PENDING, after entries behind it were sent;
* the route of a location ping does not exist, so a ping holds up the entries
  behind it until it has been given up;
* the app stores no refresh token, so the queue gets 401s once the access token
  has expired, and is sent under whoever logs in next;
* no screen ever enqueues DELIVERY_FAILURE or CASH_CONFIRM.

Dispatch, real-time, analytics:

* `emitDispatchBoard` has no caller, so the page lives on its polling alone; a
  failed assignment is not shown; the button stays while one is pending, so two
  clicks overlap;
* assignments are pushed to a driver's room by the id of the profile, while
  sockets join by the id of the user; pings go the other way round
  (`driver-location.service.ts:54` updates a profile by the id of a user and
  throws);
* DRIVER_ACCEPTED is never recorded, so two of the three averages of
  `driverPerformance` are always null; FAILED set by staff does not count as a
  failure; an order that changes hands takes its history along
  (`CreditIsEarned` allows exactly that);
* `notifications.send`, `getHotLocation` and `emitEta` have no caller.

## Proofs

Every safety invariant and every action property that a passing run checks is a
theorem, for any sets of orders, drivers, intents, keys, bodies, zones, users,
tokens, entries, pages and requests, and so are the three refinements.

| Theorem | Statement |
|---|---|
| **Orders** (`OrderLifecycleProofs`, `OrderCalmProofs`) | |
| `TypeCorrect` | `Spec => [](TypeOK /\ ReqInv)` |
| `AuditCorrect` | `Spec => []AuditExplainsStatus` |
| `AuditPlausibleCorrect` | `Spec => []AuditIsPlausible` |
| `DriverChangesCorrect` | `Spec => DriverChangesAreAssignments` |
| `CalmCorrect` | `CalmSpec => [](SnapshotFresh /\ DriverOnlyAfterAcceptance /\ ActiveOrderIsHeld)` |
| `CalmRefinement` | `CalmSpec => ImplementsMachine` |
| `AcceptanceCorrect` | `CalmSpec => []DriverOnlyAfterAcceptance` |
| `ChainCorrect` | `CalmSpec => AuditIsAChain` |
| `ReopenCorrect` | `CalmSpec => OnlyUnassignReopens` |
| `RoomCorrect` | `CalmSpec => OnlyPaymentsMisleadRooms` |
| `DoubleBookingCorrect` | `CalmSpec => OnlyRacesDoubleBook` |
| **Deliveries** (`DeliveryProofs`) | |
| `DeliveryTypeCorrect` | `DeliverySpec => []DeliveryTypeOK` |
| `DeliveryAuditCorrect` | `DeliverySpec => []AuditExplainsStatus` |
| `DeliveryPlausibleCorrect` | `DeliverySpec => []AuditIsPlausible` |
| `DeliveryDriversCorrect` | `DeliverySpec => DriverChangesAreAssignments` |
| `DeliveryRefinement` | `CalmDelivery => DeliveryImplementsMachine` |
| `AttemptsCorrect` | `DeliverySpec => OnlyOverlapsMisnumber` |
| `StrandCorrect` | `DeliverySpec => OnlyKnownCausesStrand` |
| **Dispatch** (`DispatchProofs`) | |
| `PageIsAClient` | `DispatchSpec => DeliverySpec` |
| `CreditCorrect` | `DispatchSpec => CreditIsEarned` |
| `OwnAssignmentCorrect` | `DispatchSpec => OwnAssignmentShown` |
| **Payments** (`PaymentsProofs`) | |
| `PaymentsTypeCorrect` | `Spec => []PaymentsTypeOK` |
| `ChargeCorrect` | `Spec => []ChargedOnce` |
| `PayableCorrect` | `Spec => []RowHoldsPayableIntent` |
| `LedgerCorrect` | `Spec => []NoFalsePayment` |
| **Checkout** (`CheckoutProofs`) | |
| `OnceCorrect` | `Spec => ImplementsOncePerKey` |
| `CheckoutTypeCorrect` | `Spec => []CheckoutTypeOK` |
| `TotalCorrect` | `Spec => []TotalIsReproducible` |
| `ReplayCorrect` | `Spec => OrdersStayReplayable` |
| `CounterCorrect` | `Spec => CountersKeepEnding` |
| `AreaCorrect` | `Spec => AreaFollowsPolygon` |
| **Sessions** (`SessionsProofs`) | |
| `SessionsTypeCorrect` | `Spec => []SessionsTypeOK` |
| `RefreshCorrect` | `Spec => RefreshUsesUp` |
| `SignOutCorrect` | `Spec => OnlyFaultsSignOut` |
| **Driver app** (`DriverAppProofs`) | |
| `DriverAppTypeCorrect` | `Spec => []DriverAppTypeOK` |
| `LossCorrect` | `Spec => []NotGivenUpEarly` |
| `OvertakingCorrect` | `Spec => NoOvertaking` |

The assumptions are those declared in the modules: the null values are not
orders, drivers, intents, keys, bodies, zones, users, tokens or pages; what
drivers, clients and staff ask for are statuses; an order is paid by card or in
cash; what clients send is a key or none with a body that the Zod schema accepts
(a finite list of items, quantities from 1, `schemas/order.ts:66`); prices,
distances and terms are natural numbers and a surge multiplier is between 1 and 5;
the rate limit, MAX_ATTEMPTS and the batch are not zero.

### The order tables

*Any interleaving.*  `TypeOK` is inductive.  `AuditExplainsStatus` is, too, since
`WriteOrder` is the only writer of both tables.  `AuditIsPlausible` is not: the
event is written later than it is checked, from the request's record.  The
strengthening says that a request about to commit a transition holds a pair of
statuses the table allows; it is a fact about the record alone, so other requests
cannot disturb it, and that is why the log stays plausible while the row does
not.

*Calm traffic.*  `CalmInv` joins the type invariant, the record fact above,
`OnePerOrder`, that the order of a request in flight exists, and the three
invariants themselves.  They need each other: a snapshot stays fresh because
nobody else writes the order (`OnePerOrder`) and nobody creates it again, and
the release of a previous driver frees the right one because the snapshot is
fresh. The refinement then maps each action to one of `OrderMachine` or to a
stutter: the commit of a transition is a `Move` because the status it read is
still the row's.  `OnlyUnassignReopens` follows: of the machine's steps only
`TakeBack` leads out of a terminal status (`ReopenStep`).

The rest of calm traffic follows from those fresh snapshots.  The log is a chain
because the status an event names as its origin is the row's, which the last event
explains.  For `OnlyPaymentsMisleadRooms` a request that has yet to broadcast is
shown to hold the status its order still has (`EmitsAreCurrent`); `OnePerOrder`
makes it the only request about the order, so that no late broadcast follows it,
and every transaction but the one that makes a draft ends in such a request.  For
`OnlyRacesDoubleBook` each transaction that writes an order or a driver is shown
to keep both pointers together; only `AssignCommit` can take a driver that another
request has looked at, and then both are under way at once.

### Deliveries

To the order tables a handler of `Delivery` is one more caller of `transition`.
`OrderStep` says so: every step of `DeliveryNext` is, of the order variables, a
step of `OrderLifecycle`, a call that arrives, or a restart
(`DeliveryIsOrderStep`). The three kinds of step are shown once each to keep the
invariants of orders, and the order theorems carry over, the refinement of
`OrderMachine` included.

`FlowInv` is what the flows themselves need.  `FlowFits` ties `flow[p]` to
`req[p]`: only three of a handler's steps await a call, everywhere else no call is
open; workers run jobs and nobody else does; a flow's order exists.  `LocksHold`
is what is left of "exactly once" when locks lapse: a worker with a lock is on an
active job, and no other worker has the lock of that job.

Both of the theorems that are the module's own hold under any interleaving.
`OnlyOverlapsMisnumber` looks at the pair of the attempts and the counts that
reports have made of them: an insert by one report leaves the count of every
other right unless that one had counted as well, which is the exception.  For
`OnlyKnownCausesStrand` the three things that can wake an order are followed
through every step: a due job is handed to a worker that is about to move the
order (`DueJobStep`); that worker ends with the order moved, since a waiting order
can always go where it sends it and a refusal means that it waits no more
(`MoverStep`); and the report that made the order wait goes on to add the job, or
finds that the queue has it (`AdderStep`).  An order starts to wait in no way but
by a transition (`StartsWaiting`).

`DeliveryRefinement` is about `CalmDelivery`.  That two runs of one job are still
the machine is model-checked (`delivery_calm`).

### The dispatch page

`PageIsAClient` is the projection: a click is an assignment that arrives, and
nothing else a page does touches the API.  `CreditIsEarned` follows from what a
step can record in the journal and from when an order can change hands, both
properties of `Delivery`.  `OwnAssignmentShown` needs `PageInv`: of an order
that a page has heard it assigned, and that has kept a driver since, neither the
row nor an answer under way shows no driver.  A query that was read before the
assignment cannot be among those answers, since hearing of an assignment makes
the page cancel it.

### Payments

`ChargedOnce` is far from inductive.  `PaymentsInv` adds why it
holds: of an order whose key Stripe has not forgotten under a request
(`straddled`), every request for an intent under way has the intent that Stripe's
key and the row have, if they have one (`KeyedInv`); the client only has secrets
of intents its row points to; and only an intent whose secret is out is ever
charged.  Once the key is forgotten under a request nothing of this is left, and
the properties do not claim it.  `NoFalsePayment` needs none of it: an event, once
emitted, stays true of its intent (a captured intent is at most refunded), so it
does not matter when it is applied.

### Checkout

*Keys.*  The lock in Redis is in no argument: it may be lost at any time.
What makes a key safe is the row, which is unique and, as far as the code goes,
never deleted.  `KeyInv` says that a request behind `InsertKey` owns its key: the
row is of its body, no other request is behind `InsertKey` with that key, and the
key's order is still to be made, or is the one it holds; and that a stored
response is of an order that was made with the key, of the body in the row.  A
request that fails drops out and leaves the row, which is exactly why its key is
never used again.  `CommitOrder` then maps to `Make`, a replay and a response to
`Tell`, and every other step, those of the managers included, to a stutter.
`ReplayInv` adds that there is one order to a key and that a request past
`CommitOrder` knows it; so the response that is stored is the order's, and the
order is replayable as long as its request is on its way or has stored it.

*Totals.*  A request about to commit carries a snapshot that adds up (`Adds`).
That it does is a fact about `computePricing` (`PricingAddsUp`), for every
subtotal, distance and terms: each part is rounded by itself, a rounded natural
is a natural, and a surge multiplier of at least 1 leaves no negative fee.  That
the subtotal is a natural needs the sum over a finite cart (`SubtotalIsNat`),
and that a rule is found needs a maximum over a finite set (`Greatest`).  Both
are proved by least counterexample, from the well-foundedness of < on the
naturals.

*Counters and areas* are about two statements each, INCR and EXPIRE, polygon and
area.  The proofs go through every step and ask what it can do to the second one.

### Sessions

`SessionsInv` joins the shape of the tables, that a row the browser
or a call holds exists (a new one is taken from those nobody knows), and that a
call past `RevokeToken` holds a token that is revoked.  No other call can undo
that, since rows only ever go from live to revoked or expired while someone
holds them; so it does not matter which of two overlapping refreshes is first.

`OnlyFaultsSignOut` needs to know who holds what (`HolderInv`): a call that
exchanges a token acts for its owner, who exists, and a token that is on its way
in an answer is in nobody else's hands.  Then from the step that revokes the
browser's token until its successor is delivered, the call that brings it is
under way.  A refusal on that way means that the user is not active.  A logout of
another tab can only revoke what it brings, which is the first half of
`HalfLogout`, and whatever a logout has revoked in the jar it is about to clear,
which fails in the second half only.

### The driver app

`QueueInv` is why the outbox can afford to have no lock.  The order the API sees
is kept since of each flush all rows before the one in hand, but those it has
still to try, have been dealt with: applied, or given up at some time, which a
stale flush cannot take back.  Nothing is given
up early since no count of attempts, neither a row's nor one a flush has read, is
ever ahead of the failures there really were; a flush that writes an old count
back only makes the row be tried once more.

### What the proofs changed

* the type invariant of `Delivery` used to bound an order's attempts by
  `MaxAttempts`.  With more handlers than the instance has, overlapping reports
  can exceed any such bound; the invariant now says what holds, that attempts
  are numbered from 1;
* a body's list of items is now said to be finite (`ValidBody`): the code's are,
  and without it the sum of a cart need not be a number;
* `JarWorks` excuses no refused refresh, and the exception for logouts is two
  steps of one instead of any logout under way.

### Only model-checked

Liveness: `RetryHappens`, `BoardCatchesUp`, `CallsEnd`,
`DeactivationTakesEffect` and `NothingWaitsForever`.  The prover has no rules
for fairness or for ENABLED.  The properties of the four violation runs are
false, and TLC shows how.

## Not modelled, and the plan

Next, in this order:

1. an order whose driver has been taken off after it ended, and an order in
   ACCEPTED with a driver, as soon as a text says what either should be;
2. refinement further down: `Payments` against an abstract ledger in which a
   charge and its row are one step, as `OncePerKey` is for `Checkout`;
3. the steps that lead to each liveness property, as action properties with
   their theorems (what a step of the worker, of a flush or of a poll always
   brings nearer), so that only the fairness argument is left to TLC;
4. the hazards without a property (`PROJECT.json`): drivers that stay busy when
   an order ends, one code for two submissions, a slow second intent.  The code
   really does these, and nothing in the repository promises otherwise.

Left out for good:

* PostGIS geometry and distances (sets of points stand for them), and the ETA,
  which is floating point over a routing service;
* the ingest of driver pings: `ingestPing` looks a driver profile up by the id of
  a user, so it throws before it writes anything a property could be about;
* password hashing and the signing of JWTs, object storage, health checks,
  configuration;
* `notifications.send`, `schedulePlacement` and what else nobody calls;
* CRUD of categories, saved addresses and user details, whose writes are single
  statements that nothing else reads to decide;
* role checks: no property depends on who calls;
* the dashboard's other pages, which show what they fetch; the averages of
  `driverPerformance`;
* the seed and the tests, which are data and callers of what is modelled.
