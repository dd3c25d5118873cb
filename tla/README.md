# Framed Obsessions: specifications

TLA+ models of the order, stock, production, catalogue, sign-in, event-delivery
and scheduling code of this repository. TLC checks them on small instances;
TLAPS proves the properties that matter most for every value of the constants.
`PROJECT.json` maps every definition to the lines it models and lists the runs,
hazards, findings and theorems.

## The system

Framed sells posters in frames. Three Flask applications and one worker share a
PostgreSQL database and a Redis server (`deploy/docker-compose.yml`): the
storefront (3 gunicorn processes), the admin panel (2), the event collector (2)
and one worker process with several threads. Nothing is locked outside the
database, and every `with tx(...)` (`db/conn.py`) is one READ COMMITTED
transaction. A request that needs several transactions runs them one after the
other, and the process can be killed between any two.

| Part | State it keeps | Operations | What is hard | What makes it correct |
|---|---|---|---|---|
| Carts (`web/carts.py`) | `store.carts`, `store.cart_items`, the cart token in the browser's session | add, update, clear, sweep of abandoned carts | two tabs; a cart and its cookie arrive in three steps; a sweep during a checkout | a sale is never swept; a cart is lost only to an order, unless first requests overlap |
| Checkout (`web/app.py`, `web/orders.py`) | `store.orders`, `store.order_items` | `place_order`, `mark_paid` | two transactions with a network call between them; the cart is read before it is locked | nothing is oversold; an order is paid only if reserved |
| Payments (`web/payments.py`, webhook) | the Stripe session, its event | `charge`, the webhook | repeated, overlapping, killed deliveries; lost answers | only money makes an order paid; money is not forgotten |
| Inventory (migrations 006, 008) | `ops.components`, `ops.inventory_ledger` | append to the ledger; a trigger moves the cached balances | many writers; the balances are a cache | the balances equal the ledger; never negative or over-reserved |
| Production board (`db/repo/admin.py`) | `order_items.production_status` | `advance_item`, then `consume_for_item` | a check in one transaction and the consumption in another | legal moves only; one consumption, unless two requests race |
| Back office (`admin/views.py`, `db/repo/admin.py`) | `cancelled_at`, `refunded_cents`, `refunded_qty`, `payment_status` | cancel, refund, restock, adjust | requests overlap; several items restocked in a loop | money and status agree; goods come back once, unless two requests race |
| Roll-up trigger (migration 005) | `orders.production_rollup` | recomputed on every status change | statement snapshots, lock order | the roll-up is the least-advanced open item |
| Outbox and relay (migration 007, `worker/main.py`) | `raw.outbox`, `raw.domain_events` | write, select with SKIP LOCKED, copy and mark | crash between steps; rows commit out of id order; two workers in a deployment | every fact arrives once, in causal order |
| Event pipeline (`static/js/track.js`, `collector/app.py`, `worker/main.py`) | the Redis stream, its consumer group, `raw.events` | collect, read, load, acknowledge, reclaim | at-least-once delivery, a capped stream, bad batches | acknowledged means stored; every entry is handed out |
| Admin sessions (`admin/auth.py`, `admin/sessions.py`, `admin/rbac.py`, `scripts/create_admin_user.py`) | `ops.users` with `session_version`, sessions in Redis, the copy each request holds | sign-in, second factor, enrolment, role and password changes, revocation, sign-out | a request in flight writes its copy back after the session was revoked; sign-in decides on a row read earlier | nobody is served on a session older than the last change; no owner without a second factor |
| Worker scheduler, event partitions (`worker/main.py`, migration 007) | three timers, the drift gauge, the partitions of `raw.events` | sweep, partition maintenance, drift check | one try block for three jobs; failures and restarts; months go by | a lasting drift reaches the gauge while maintenance can succeed; the month has a partition; nothing is dropped early |
| dbt scheduler (`scripts/run_dbt.py`) | last-run times, `target/run_results.json`, `meta.dbt_runs` | build, record | dbt dies without writing results; a run raises | every entry comes round again; the metric needs a model that was built |
| Price list (`db/repo/admin.py`, `admin/views.py`) | `store.variants` | CSV import, single edits, archiving | files fail half-way, overlap, lock rows crosswise; orders are priced meanwhile | an import is one step on the list as it is at its commit; an order has the list's prices |
| Cart page and listing (`web/app.py`, `web/carts.py`, `web/catalog.py`, `db/repo/catalog.py`) | the lines of a cart, `status` and `archived_at` of products | list, add, render, remove by position | the page posts a position; the list may come from a file; insert and catalogue edits overlap | positions stay right under additions; what is archived cannot be added |

The other parts (pricing, audit log, dbt models, analytics, front end,
deployment) keep little state of their own. `PROJECT.json` lists each with the
reason it is left out.

## Modules

| Module | What it models |
|---|---|
| `Stock` | The store: one posting of the ledger with the trigger that applies it and the checks that can refuse it. `StockSpec` is the abstract promise of the store. |
| `Stations` | The `prod_status` order, the transition table of `advance_item` and the minimum the roll-up takes. Extended by the next two. |
| `Fulfilment` | An order after it was placed: settlement, board, consumption, cancel, refund, restock, adjustment. Extends `Stock`, and implements it. |
| `Production` | The same board inside its transactions: row locks, snapshots, the roll-up trigger, deadlocks. |
| `Checkout` | From the cart to the paid order, with both gateways and the webhook. |
| `OutboxRelay` | Outbox writers and relays. |
| `EventPipeline` | Beacon deliveries, stream, consumer group, loader. |
| `Access` | What the admin panel promises: a request is admitted as a user only on a session started since that user's last change, and what it takes to start one. |
| `Sessions` | Sign-in, sessions, roles and revocation, request by request. Implements `Access`. |
| `Jobs` | The worker's scheduler, partition maintenance, the drift check, the exporter's build metric, and the dbt scheduler. |
| `PriceFile` | What one row of an import file does to one variant: rejected, skipped, unknown, or an update. |
| `PriceList` | The price list as its readers see it: single edits, whole imports, archiving. |
| `Catalogue` | Imports row by row with their locks, single edits, archiving, and orders being priced. Implements `PriceList`. |
| `CartPage` | One cart, the page that shows it, the listing with its fallback, and the product pages of the admin panel. |
| `FulfilmentProofs` (with `Stock`), `ProductionProofs`, `EventPipelineProofs`, `OutboxRelayProofs`, `CheckoutProofs`, `SessionsProofs`, `JobsProofs`, `CatalogueProofs` (with `PriceList` and `CartPage`) | Theorems and proofs. |
| `MCFulfilment`, `MCProduction`, `MCCheckout`, `MCOutboxRelay`, `MCEventPipeline`, `MCSessions`, `MCJobs`, `MCCatalogue`, `MCCartPage` | Constants for TLC. |

Definitions whose name begins with `Bug` are faulty variants of the definition
that follows or precedes them: a dropped guard, a swapped order, a missing lock.
No specification uses them. `PROJECT.json` pairs each with the property that
fails when it takes the place of the original, which shows that the property
can fail.

### How state and actions correspond to the code

**Stock.** A posting is one INSERT into `ops.inventory_ledger`. It may concern
several items and components, so it keeps the quantity of each component once
(`size`) and the direction in which each column moves. `Accepts` is `stock_sane`
and `ledger_moves_something`; a refused posting aborts its transaction.

**Fulfilment.** A transaction that locks the rows it decides on is one action.
`consume_for_item` and `restock_for_item` decide on a snapshot and write in a
way that no lock protects, so each is a Read and a Write action with other
requests in between. `work[w]` is what a worker still has to do in its request;
`Crash` drops it. `MarkPaid` stands for every delivery or manual replay. `raced` is
history: the items that two workers were consuming, or restocking, at the same time.
An item has quantity one or more through `Need`; refunds name an item and a
quantity or neither, as the form does.

**Production.** A transaction keeps its uncommitted writes and its locks in
`tx[w]`. An action takes the lock it needs as a guard, so waiting is being
disabled. `RollUp` takes the trigger's snapshot, and `Commit` later gets the
order's lock and writes what was counted. That order is what PostgreSQL does
with an UPDATE whose subquery was evaluated on the statement's snapshot: when
the row it waited for has changed, the row is fetched again but the subquery
still sees the old snapshot. From the second updated item of one statement on,
the order row is held already. `DeadlockVictim` is PostgreSQL's deadlock
detection. `overlapped` is a history variable.

**Checkout.** `work[w]` is the request of a worker. It works with the session cookie it
was sent, and what it sets reaches the browser with the answer (`Hand`, `Answer`). A
first page view only opens the session (`viewing`); a first add creates the cart
(`creating`), adds the line (`filling`) and answers (`handing`), three steps that other
requests, or a crash, may come between; a change of a cart one has is `editing`. A
checkout is `placing` (items read, order not placed), `charging` (order committed),
`answering`; the webhook is `hook` and `settling`. `owner`, `given` and `overlapped` are
history: whose cart it is, whether it reached the browser, and whose first requests
overlapped. Stock is a single component because `Fulfilment` has the ledger. `session`
and `event` are Stripe's state; a delivery can be repeated, overlap with another one, or
lose its answer. `gateway` is fixed for a behaviour by the environment the process was
started with. `recorded` is the set of orders with an event in the outbox.

**OutboxRelay.** An id is taken when a row is inserted and becomes visible at
commit, so visibility is out of order. The copy and its mark are one commit.
`before` and `overlapped` are history variables.

**EventPipeline.** The stream is kept whole and `trimmed` counts what Redis has
dropped. A row is known by its key `(event_id, occurred_at)`; `occurred_at` is 0
for a clock the collector believes and the number of the delivery otherwise. Each
delivery decides for itself (`believed`), because it compares with its own time.
`Poison` events are those the table refuses (for example a `props` value that is
no longer JSON after it was cut at 8000 characters): they fail their batch.

**Sessions.** A request is `opened` with a copy of its session, passes
`attach_user` (`AttachServed`, `AttachRefused`), runs a view, and at the end `Save`
writes the copy back; with two requests of one cookie, or a revocation in between,
every order of these steps is there. `Change` is the transaction that writes the
row and bumps `session_version`; `Revoke` is the later scan of Redis, which a crash
or an absent Redis may leave out (the request simply never takes the step). `Expire`
stands for the key's time to live. `second`, `changes` and `out` are history. Enrolment
replaces the factor and leaves `session_version` as it is, so it is no change in the
sense of `Access`; a change is one of role or password, or a reset.

**Jobs.** `wpc` walks through the three timers in the code's order. `JobFails` is the
shared `except`: it ends the pass, so the jobs after the failing one wait for the
next. A timer is the flag `due`; `JobIsDue` sets it at any moment. `mayCreate` says
whether the role `etl` may create tables in `raw`: not with the grants the repository
makes (`Grants = {FALSE}`), but where somebody has given it the right. `Build` lets dbt
build some models or none and write its results, or die and leave the file of an earlier
run; a file has a row for each model, and all that is read of it later is whether one
says 'success' (`Records`).

**Catalogue, PriceFile.** `job[s].new` holds what an import has written and not
committed; these rows are locked (`Free`). A file is a sequence of rows with a price
and a sale price that may be blank or unparsable. `Updates` and `Changed` are the
branches of `bulk_update_variants`. `placing[r]` is an order being priced line by line,
each line on a snapshot of its own; `moved` remembers which prices changed meanwhile.

`PriceList` has a file as its readers see it: of all lines that set a cell, the last
one counts.

**CartPage.** An add is three steps: the listing is looked at, the variant is looked up,
the line is inserted, and its commit makes it visible, possibly after a line with a
higher id. The lines are a set of rows, and `order by ci.id` is `Position`: how many
lines have an id no larger. `page.shown` is what the browser has, each product with its
position; `page.fresh` is history. Its top-level names (`PageInit`, `PageNext`, `PageSpec`,
`PageTypeOK`) differ from those of `Catalogue`, because `CatalogueProofs` extends both.

## Runs

| Run | Instance | What it shows |
|---|---|---|
| `fulfilment` | 2 admin workers, as deployed, 1 order of 2 items, 2 components with 2 and 1 units, 3 requests, with stock adjustments | Ledger, payment status, refunds and outbox stay consistent with one another under every interleaving, replay and crash; an item is consumed, or put back, twice only where two workers raced for it; every transaction is a step of `StockSpec`. |
| `production` | 2 workers, 1 order with 2 items, 3 requests | Committed moves are legal; every request ends in spite of lock cycles; the roll-up is exact while transactions do not overlap. |
| `rollup_race` | the same, 2 requests | **Violated**: two overlapping advances leave a wrong roll-up. |
| `outbox` | 2 relays, batches of 2, 4 rows | No row lost or marked without its copy; causal order unless relays overlap; late commits arrive. |
| `pipeline` | 2 loaders, 2 events (one fails its batch), 2 deliveries each, believed or not, a stream of 3 | Acknowledged entries are stored, every entry is handed out. |
| `pipeline_unacked` | 1 loader | **Violated**: what a failed load leaves pending is never retried. |
| `checkout` | 1 browser, 2 carts, 2 workers, both gateways, 2 units, 2 orders, symmetric in carts and workers | No oversell, no swept sale, no forgotten payment, no order paid without one, exact reservation; a cart is lost only to an order or to overlapping first requests. |
| `sessions` | 2 accounts, 2 session ids, 2 requests, 2 roles | Nobody is served on a session started before the last change; no owner without a second factor; signed-out cookies find nothing; every step is one of `Access`. |
| `jobs` | 3 months, 1 in advance, 1 kept, 2 dbt entries, with and without the right to create | Drift is reported unless maintenance is stalled, builds come round, partitions are there when needed and kept long enough, the metric needs a model that was built. |
| `drift_unreported` | 2 months, the grants of migration 001 | **Violated**: a lasting drift never reaches the gauge of a worker that stays up. |
| `catalogue` | 2 imports of 3 rows in opposite order, 2 variants, 1 order | Imports are atomic and serial (`PriceList`), and orders get the list's prices. |
| `cart_page` | 3 products, 2 requests of one cart | Positions hold; no request that begins after an archive adds the product, fallback list or not. |

**Bounds.** `MaxRequests`, `MaxOrders`, `MaxRows` and `MaxSends` cap behaviours
in the guards. Every hazard here needs two actors and at most three requests: a
request that overlaps, one that is overlapped, and one that brings the system
into the state where it matters (a re-print, a refund, a second order). Two units of the
component both items need and one of the other's, which adjustments take away, and two
units for two orders of up to two, make a refused reservation reachable, also one that
fails on the second item. Two items of one order are the least a roll-up can be wrong
about. A stream of three entries for four deliveries makes trimming happen,
and a batch of two can mix a good and a bad event. Four outbox rows and batches
of two leave a row behind the batch. Two requests, two ids and one change of the
second account are what a late write-back after a revocation needs (the first owner
is left unchanged to bound the run: `Changes`). Two files with three rows each,
in opposite order, contain a deadlock, a CHECK that fails after a row was written, a
typo and blank cells. Three months with one in advance and one kept let maintenance
miss a month and drop one. Three products and three line ids let a page be wrong
at the front, in the middle and at the end.

**Deadlock** checking is on in `fulfilment`, `sessions`, `jobs`, `drift_unreported` and
`catalogue`, which never stop. It is off elsewhere: those systems stop when the bounded
inputs are used up.

**Fairness.** `Production.FairSpec`: a transaction whose locks are free runs on,
and the database looks for cycles (`deadlock_timeout`). Starting a request is not
fair. `OutboxRelay.FairSpec`: the relay loop polls whatever happens to the
notifications (weak fairness of `Select`); a batch that can be written again and
again is written at last (strong fairness of `Publish`, since every crash disables
it for a while). Commits of writers are not fair, and the property starts from a
committed row. `EventPipeline.FairSpec`: the loader creates its group, reads, and
what it holds it either loads or fails to load; a success is not assumed. The group is
created by one call before the loop: if Redis is away just then, the loader thread ends,
and it is a restart of the worker (`restart: unless-stopped`) that creates it.
`Jobs.FairSpec`: the two loops run and time passes (weak fairness); a job of the
worker that is tried again and again, and that the grants allow, succeeds at last (strong
fairness: failures and restarts disable it in between, and PostgreSQL is not away for
ever); one they do not allow fails (weak fairness of `JobFails`: a statement returns).
Success of a dbt build is not assumed, but that dbt ends is: `run_dbt.py` waits for it
without a timeout. Checkout has no liveness property: that Stripe keeps the event until it
is settled is checked as an invariant instead, `ChargeIsNotForgotten`.

## Abstract specifications

* `StockSpec` (in `Stock`): what the ledger and its trigger promise. Implemented by
  `Fulfilment`: checked by `fulfilment` (`StoreDiscipline`) and proved.
* `Access`: who may be served, and what it takes. After a change nobody is admitted on
  a session started before it. A password accepted before the change is worth no
  session after it, but a second factor proved after it is (`Prove`): the code lets a
  sign-in or an enrolment that was half done finish, so the promise of `Access` is no
  stronger. Implemented by `Sessions` under the mapping `epoch <- changes`, `begun` and
  `halfway <-` the users somebody is signing in as, with a row that has the present
  version or with any, `entitled <-` those for whom some copy of a full session has the
  present version, `serving <-` the user of each request; checked by `sessions`
  (`RevocationIsInstant`) and proved.
* `PriceList`: the list changes by whole files. Implemented by `Catalogue`; checked
  by `catalogue` (`PricesChangeAtOnce`) and proved. Its import takes, for each cell, the
  last line that sets it, and not a fold over the lines, so that the proof can relate it
  to the line-by-line import without an induction over files.

## Proofs

Every invariant, action property and refinement that a passing run checks is also a
theorem, for every value of the constants; `TypeOK` of `Sessions` and `Jobs`
is left to the proof and not repeated in a run. The arguments, component by component:

* **The store** (`FulfilmentProofs`, first part). `StoreNeverDrifts`: `StockSpec =>
  []NoDrift`. A column's sum is a recursive function over the ledger (`SumTo`), so the
  inductive invariant `StockInv` says that *some* function satisfies the recurrence and
  ends in the cached balance; appending a posting extends that function by one place.
  `SameRecurrence` shows by a minimal counterexample that two such functions agree.
  `StoreNeverOversold` follows from the checks.
* **Fulfilment implements the store** (`FulfilmentKeepsStorePromise`): each action
  is an insert of a well-typed posting or leaves the store alone. `NoDrift` follows
  for `Fulfilment` without looking at its actions again.
* **Payments** (`PaidOrdersAreReserved`, `SettlementReservesOnce`,
  `RefundStatusIsHonest`). None of the three is inductive alone: the status decides
  whether a settlement may reserve, and it changes with refunds. `PaymentInv`
  relates status, refunded amount and the set of reserve rows of each item.
* **Analytics** (`AnalyticsAgreesWithTheBooks`). `EventsMatchBooks` is inductive once
  types are known, but each of its halves speaks of a growing sequence: the cardinalities
  of the `order.paid` rows and of the reserve rows, two finite sets that each settlement
  extends by one place, and the sum of the refunds in the outbox (`SumTo` again), to which
  a new row adds its amount.
* **The shelf** (`ConsumedTwiceOnlyByARace`, `ReturnedTwiceOnlyByARace`), for any number
  of workers. Both properties count ledger rows of an item, and both except the items two
  workers were consuming, or putting back, at the same time (`raced`). `ShelfInv` adds
  what makes them inductive: two workers with the same thing pending are on record
  (`RacesRecorded`), only a restock brings anything back (`RestocksBringBack`), only a
  consumption takes anything off (`ConsumedIsOut`), and what a worker read is still true
  when it writes, unless the item was raced for (`SeenIsTrue`).
* **Board** (`CommittedMovesAreLegal`). `LockInv`: an item has one writer, and what
  it will commit is legal from the committed status. The row lock makes the second
  part stable; `cancel_order` is covered because every station may be cancelled.
* **Roll-up** (`RollupExactWhenAlone`). `AloneInv`: at most one transaction is
  open, it writes only items of its order, and in its last step it has counted
  exactly what the order will look like; `LeastAdvancedIsLeast` shows that what is
  counted is what the column's comment asks for. `rollup_race` shows that the hypothesis
  (no overlap) is needed.
* **Pipeline** (`AcknowledgedIsStored`). What a loader holds was delivered to it, and is
  stored once its transaction committed (`InHand`). Trimming and failures weaken nothing
  because the invariant speaks of delivered entries only.
* **Outbox** (`MarkedExactlyWhenCopied`, `RowsAreHeldOnce`, `CopiesKeepCausalOrder`).
  `IInv`: a relay holds committed, unpublished rows that nobody else holds; what was
  visible when a row was written has a smaller id. Until two relays overlap, a held row's
  predecessors are copied or held with it, because a batch takes the smallest ids;
  so they come first in the copy.
* **Checkout** (`SalesStaySales`, `OnlyPaymentsPay`, `MoneyIsRemembered`, `CartsAreKept`).
  `IInv` says what a worker holds in each phase of a request: its cart is its
  browser's, its order is placed from that cart, only one request charges an order, and
  Stripe knows only placed orders. `CartsAreKept` needs more: until two first requests of
  a browser overlap, one that creates a cart is alone (`Alone`) and the browser has no
  cart yet (`Cartless`), so no answer replaces a cart that reached it. `Room` relates the
  orders placed and the requests about to place one to the bound, with the cardinality of
  a set of workers.
* **Reservations** (`ReservationsAddUp`, `CheckoutTyped`). `ReservedForPaid` adds up over
  the orders. `Sold` says that some function satisfies that recurrence and ends in
  `reserved`; a new order extends it, a payment raises it from its order on (`IsDue`).
* **Sessions** (`SecondFactorIsMandatory`, `SessionsImplementAccess`, `SignedOutIsForGood`).
  `SessOK`: no copy of a session, in Redis or in a request, is ahead of its user's
  `session_version`, and a copy with the current version of a role that requires TOTP
  started with a second factor. A role change bumps the version with the row, so promotion
  cannot break it. The refinement needs the same fact: after a change no copy has the
  version, and the row a sign-in read before it is behind (`RowOK`), so the session it
  starts is worth nothing. `StageOK` ties the rest to the stages of a request: who finishes
  an enrolment or a second factor has signed in half-way or is served (`LoginRefines`,
  `SignInRefines`). A signed-out id stays out because no request runs under it and only
  the request that runs under an id writes it (`SidOK`).
* **Periodic work** (`PartitionsAreInPlace`, `MetricHasAModel`).
  `Provided`: since the last maintenance its month and the `Ahead` after it have
  partitions; expiry reaches only months older than the retained ones. `Honest`: neither
  the results file nor the table tells of a success when no model was ever built.
* **Catalogue** (`CatalogueTyped`, `OrdersHaveListPrices`, `ImportsAreWhole`). An import is
  a loop over the lines of a file, and its steps overlap other imports, edits and orders.
  The invariant describes it by what its commit will be: what it has written for a
  variant is what the lines done so far make of the row as it is *now*. That is stable
  because a variant it wrote is locked, and nobody else's commit, edit or archiving
  touches it; one more line moves the last line that sets a cell. At the commit all lines
  are done, which is `ImportWhole`.
* **Cart page** (`CartPageTyped`, `CartPositionsHold`, `NothingArchivedIsAdded`). `CartInv`:
  an id is drawn once and never exceeds `drawn`; one line or pending insert for a product
  (`OneOfEach`); an insert under way will come after every line a fresh page shows
  (`ComesAfter`), so the set of lines up to a shown one does not change; a request that
  began after an archive still sees it (`ArchivedForGood`).

Assumptions are the named `ASSUME`s on the constants. They are true of any finite
catalogue: sets of workers and variants are finite (`FinitenessAssumption`), files are
sequences of rows (`FileAssumption`), the openings, totals and needs are natural numbers.
TLC evaluates all of them.

**Only model-checked**:

* liveness (`RequestsEnd`, `EveryFactArrives`, `EntriesAreDelivered`, `DriftIsReported`,
  `BuildsComeRound`): fairness and ENABLED are beyond the prover;
* the three properties the code violates (`rollup_race`, `pipeline_unacked`,
  `drift_unreported`).

## Findings

Three runs refute something the repository says of itself; `PROJECT.json` quotes the
lines.

1. `roll_up_production` counts on a snapshot older than the lock it waits for: two
   overlapping advances of one order leave a roll-up that matches neither (`rollup_race`).
2. The loader never reads an entry a second time: what failed stays pending until the
   stream drops it (`pipeline_unacked`).
3. The worker does not check the drift hourly: the role `etl` has no right to create tables
   in `raw` (migration 001 grants it `create` in `stg`, `mart` and `meta` only), so
   partition maintenance fails in every pass once a month has to be made, and the drift
   check, which follows in the same try block, has no turn (`drift_unreported`). What
   holds is `DriftIsReported`, which excepts a worker `Stalled` in this way.

### Other observations

What the models contain and no run states as a property, because the
repository promises nothing to the contrary, says so less clearly, or because the
run would ask what another one asks already. First, behaviour that a sentence of the
repository does contradict:

* A settlement replayed after a refund passes `payment_status <> 'paid'` and reserves the
  items again (`web/orders.py:150`; the docstring at `:144` and `docs/RUNBOOK.md:42` call
  it idempotent). `ReservedOnceUnlessRefunded` is what holds.
* Two overlapping requests can both pass the `not exists` of `consume_for_item` and consume
  an item twice (`web/orders.py:192`; `db/repo/admin.py:257` says exactly once).
  `ConsumedOnceUnlessRaced` is what holds.
* A reset or a change of role does not end a sign-in or an enrolment that was half done:
  whoever finishes it afterwards, with a valid code, gets a session of the new version,
  because `_start_session` takes the row as it is then (`admin/auth.py:346-373`; `:178`
  and `scripts/create_admin_user.py:33` say such a session cannot be the one that enrols).
  `Access` says `Prove` there. An enrolment that replaces a factor bumps nothing either.
* One model that was built is enough for `fo_mart_last_build_timestamp`, also in a build
  that failed, and a results file recorded again moves it on (`worker/main.py:59`, "last
  successful dbt build"). `MetricHasModel` is what holds.
* `place_order` commits before the reservation, in a transaction of its own
  (`web/orders.py:136`; the module's docstring, `:3`, has them together). A worker that dies
  in between leaves an unreserved, unpaid order.
* An order charged and oversold has no `stripe_payment_intent`: it is rolled back with
  the settlement, so the query of `docs/RUNBOOK.md:43` does not find it.
* `carts.reprice` is "called before checkout" (`web/carts.py:115`) by nobody, and the price
  stored with a line is not "re-derived from the catalog on read" (migration 005:44). The
  order is priced from the live list (`OrderIsPriced`), which may differ from what was shown.

Orders and stock:

* A blocked item may go to any station, also past printing (`Allowed`), and an item of
  an unpaid order can be advanced, which consumes what others have reserved.
* `mark_paid` does not look at `cancelled_at`: a late payment settles a cancelled order.
* A settlement replayed after a full refund leaves the status 'paid' with everything
  refunded (`RefundStatusHonest` speaks of the refunded statuses only).
* A return of part of a line puts back the whole line's components, and nothing bounds the
  sum of refunds by the total.
* Orders that need several components lock their rows in the order of a join; two
  settlements can meet crosswise, and PostgreSQL aborts one of them.
* A worker killed between `advance_item` and `consume_for_item` leaves an item in
  `printing` that consumed nothing (`Fulfilment`: `AdvanceItem`, then `Crash`).
* Two overlapping cancellations or returns restock an item twice; `ledger_drift()`
  cannot see it, because the ledger itself is wrong (`RestockRead` twice, then
  `RestockWrite` twice).
* `set_fulfilment` and `add_shipment` look at neither payment nor cancellation; the action
  board asks for `payment_status = 'paid'`, so a partially refunded order leaves it unshipped.
* A setting `ops.stuck_order_hours` that is not an integer makes the dashboard raise
  (`admin/views.py:64`).

Carts and checkout:

* A browser without a cart that sends two requests at once, a first add and another first
  add or page view, may lose what it added: two carts are created or the session is opened
  twice, and the later `Set-Cookie` wins. A crash after the first add and before its answer
  leaves a cart nobody has (`overlapped` and `given`; `CartIsNotLost` excepts both).
* A cart changed between the read of its items and the order's lock is ordered as
  it was read (`Submit`, `CartUpdate`, `PlaceOrder`).
* A checkout submitted again places a second order, with a second idempotency key
  and Stripe session, for the same cart (`Submit` after a failed `ChargeStripe`).
* A repeated Stripe event leaves several outbox rows: nothing in `raw.outbox` is
  unique, so `on conflict do nothing` never applies (`recorded` is a set, and keeps one).
* The cart page leaves out lines whose product is not listed, so the positions after
  them shift (`page.fresh` is FALSE then), while the total and the order include them.
* An insert that overlaps a rendered page may commit behind it with a smaller id.
* A product archived between the look-up and the insert of a line is still ordered:
  `place_order` does not look at `archived_at`. The `status` of a variant has no reader.

* A product whose form says 'archived' has no `archived_at`: the listing leaves it out and a
  line of it can still be added from an old page (only `archived_at` counts in
  `web/carts.py:61`).

Catalogue:

* A row whose price cannot be parsed is skipped in silence; an unparsable sale price
  removes the sale; a sale price of 0 is no sale.
* The lines of one order may lie on both sides of an import (one snapshot per line).
* Product and variant forms write every field they show and so undo what others
  changed meanwhile, archiving excepted.

Sign-in, events, schedules:

* A session that waits for its second factor or for enrolment has neither uid nor
  version, so neither `revoke_all_for` nor `session_version` ends it; it serves nothing.
* An id is not replaced at sign-in. A request that overlaps the sign-out of its cookie and
  has changed its copy writes it back, which revives the session until it expires
  (`SignedOutStaysOut` speaks of cookies signed out alone).
* An event with a wrong clock that is delivered twice is stored twice, and so is one with a
  right clock when one delivery comes within a day and another later: its time is then
  replaced by that of the delivery (`Clean`).
* When dbt dies early, the results file of the last run is recorded again with a new time.

## Not modelled

Left out because they decide nothing between actors: presentation, reports, dbt
models, deployment, the permission table except `USER_MANAGE`, signature and token
checks, totals and formatting of prices, the audit trigger, schema detail that no
operation reads. Within the modelled parts: the lockout counters and session ages
(passwords, attempts and time are abstract), password reset tokens (no caller), discounts
and the customer record of an order, shipments and fulfilment status (single unguarded
writes), the freeze trigger (no code path updates what it protects), the
visitor's salt and the bot filter, pools and statement timeouts.
