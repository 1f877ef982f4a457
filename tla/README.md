# Festival: TLA+ models, checks and proofs

Festival is a multi-tenant registration system for music festivals: a Hono
backend over PostgreSQL, a SolidJS frontend, and Shopify for carts, payment and
webhooks. Its README promises "Asynchronous by Default: Shopify webhooks drive
state changes; all integrations are idempotent and replayable". This directory
models the part of the backend that has to keep that promise, from the checkout
of a family or a teacher, over the paid order's webhook, to the entitlement and
what later happens to it, and three parts beside it with the same kind of
hazards: the billing ledger, customer sessions, and access to organizations.
Paths below are relative to `packages/backend/src/`
unless they start with another directory of the repository.

## 1. The system

### Components, their state and how they interact

| Component | State it keeps | Operations | Hard part |
|---|---|---|---|
| Webhook queue `commerce/webhook-worker-queue.ts` | in memory: backlog, set of active ids, retained recoveries, waiting drains | enqueue, dispatch, return of a worker, reclaim, drain | limits, duplicate ids, waking of drains |
| Webhook intake `commerce/shopify-webhook-service.ts`, `routes/private-runtime.routes.ts` | rows `shopify_webhook_deliveries` | receive, schedule, scheduled reconciliation, reclaim | duplicates, stale reads around awaits, leases, restarts |
| Order projection `commerce/shopify-order-projection-service.ts`, `commerce/postgres-membership-commerce-repository.ts` | rows of decisions, entitlements, membership grants, audits, the status of the checkout intent and of the delivery | process a delivery, finalize, approve or decline by hand | races of workers, replays, partial failure |
| Checkout `checkout/*-checkout-service.ts`, `checkout/postgres-checkout-repository.ts` | rows `checkout_intents`, `checkout_carts`; carts at Shopify | start, resume, compensate | a saga over a remote service with concurrent retries |
| Recovery links `checkout/checkout-recovery-service.ts`, `checkout/postgres-checkout-recovery-repository.ts` | rows `checkout_recovery_requests` | create, follow, consume, cancel, expire; invalidate an intent | one link followed twice, an order paid meanwhile |
| Drop and transfer `registration/drop-transfer-service.ts`, `commerce/class-entitlement-repository.ts` | class entitlements, refund events, an in-process lock | drop, transfer, promote, refund | capacity, queries that interleave, errors under a lock |
| Waitlist `waitlist/*` | waitlist entries and events | join, rejoin, withdraw, roster | decision on stale reads |
| Billing `billing/*`, `routes/admin-billing.routes.ts` | adjustments, ledger, balances | apply an adjustment, report mismatches | retries and concurrent requests, row locks and a unique index |
| Customer sessions `customer/customer-account-service.ts`, `customer/postgres-customer-account-repository.ts` | the integration and its version, sign-in states, session rows; in memory: refreshes in flight | save credentials, sign in, admit a request, refresh, revoke | credentials that change under a request, refreshes that requests share |
| Cache `customer/bounded-async-cache.ts` | LRU entries, loads in flight | get, set, load, invalidate | invalidation against a load in flight |
| Organizations and claims `services/organization-service.ts`, `auth/custom-claims.ts`, `auth/firebase-claims-reconciliation.ts` | rows of users, memberships, invitations, volunteers; custom claims at Firebase | found, invite, accept, remove, enrol; update claims after an answer, rebuild them from the database | two stores without a common transaction, half-done acceptances, a rebuild against updates |
| Catalogue, repertoire, rooms, communication, profiles | tables of their own | CRUD | little |
| Frontend, confirmation extension, scripts, containers | none that is durable | | |

A purchase runs through four of them. *Checkout* creates an intent and a cart
and hands out a Shopify URL. The customer pays at Shopify, which calls the
*intake*; the intake records a delivery, answers, and enqueues the id. A worker
of the *queue* runs the *projection*, which validates the order against the
intent and, in one transaction, issues entitlements, decides the order, sets the
intent's status and closes the delivery. A scheduler calls reconciliation, which
works on what was interrupted, records orders whose webhooks never came, and
refills the queue. *Drop and transfer* change the entitlements afterwards, and a
replay of the order must respect that.

The other three stand apart. *Sessions* admit the requests of customers that
checkout and drops begin with. The *ledger* is written by administrators, about
decisions and orders of the projection. *Organizations* decide who such an
administrator is: the rows say so, and the claims in a person's token repeat it.

### What makes each component correct

* Queue: limits hold, slots are used, an id is in one book at a time, ids are
  served in the order they came, every accepted id is handled, every drain ends.
* Intake: one invocation at a time works on a delivery; a processed delivery
  stays processed; every recorded delivery is processed in the end.
* Projection: approved means issued, all lines or none; an intent belongs to
  one order; a decision changes only on the record; a closed delivery leaves a decision; replays
  keep later changes; every paid order is decided.
* Checkout: one live intent per customer, one cart per intent, intent and cart
  agree, failures are compensated, what is over stays over, a recovery link is
  spent once.
* Drop and transfer: the lock excludes, every request gets through it, classes
  are not overbooked, nobody is refunded twice.
* Ledger: the entries of a customer run to the balance, a reference is applied
  once, a request applies one adjustment or changes nothing, and it ends.
* Sessions: a sign-in state makes one session, a refresh token is sent once,
  an admitted request has a session of the current credentials, every request
  ends.
* Organizations: an invitation that is spent has made a member, no update of
  the claims is overwritten, no role is claimed that no membership gave, and the
  claims agree with the rows in the end.

`PROJECT.json` lists the hazards line by line, with the properties that would
catch each or the reason why none does yet.

## 2. Modules

| Module | Models | Runs |
|---|---|---|
| `WebhookQueue` | the queue, for any source of ids | `MCWebhookQueue` |
| `WebhookIntake` | rows, requests, workers, reconciliation; instantiates `WebhookQueue` on its own variables | `MCWebhookIntake` |
| `OrderProjection` | deliveries, decisions, intents, entitlements, workers, administrator | `MCOrderProjection`, `MCOrderLiveness`, `MCOrderRejection`, `MCOrderProfile` |
| `PurchaseDecision` | abstract: an order is decided in one step, with everything or nothing handed over; `OrderProjection` implements it | `MCOrderProjection` |
| `DeliveryRow` | abstract: the life of a row of deliveries; `WebhookIntake` and `OrderProjection` both implement it | `MCWebhookIntake`, `MCOrderProjection` |
| `Checkout` | intents, carts, links, requests of one customer | `MCCheckout` |
| `DropTransfer` | entitlements of several classes, requests, `AsyncLock` | `MCDropTransfer`, `MCDropCapacity` |
| `BillingLedger` | requests and their transactions, ledger, balances | `MCBillingLedger` |
| `CreditAccounts` | abstract: an adjustment is applied in one step and once, or not at all; `BillingLedger` implements it | `MCBillingLedger` |
| `CustomerSession` | integration, sign-ins, sessions, requests, refreshes | `MCCustomerSession` |
| `OrganizationAccess` | memberships, invitations, volunteers, claims, their updates and rebuilds | `MCOrganizationAccess` |

Each detailed module `M` has its theorems in `M_proofs` and its instances in
`MCM` (`MCOrderProjection` and `MCDropTransfer` serve several runs).

### How state and actions correspond to the code

The grain is one database transaction, one call of a remote service, or one
synchronous stretch of JavaScript between two awaits; anything may happen
between two of them. A transaction that takes advisory or row locks is one step.

**WebhookQueue.** The variables are the fields of the class; `running[d]` counts
invocations of the handler for `d`, since the set of active ids cannot. `Enqueue`
and `Complete` contain the dispatch (with the promotion of retained ids)
that the code calls at their end; `Dispatch` is therefore an operator and never
a step of its own. `ReclaimLoop` is the loop after the await of
`reclaimPending`, `Restart` the loss of all of it. `FetchedLists` are the lists
of ids a query can return.

**WebhookIntake.** `Receive` is `handle()` up to its await on `recordDelivery`
and remembers in `responding` what the code after the await will act on;
`Schedule` is that code. `Claim`, `Finish` and `Return` are the first write, the
last write and the `finally` of a worker. `StartRound`, `RoundClaim` and
`RoundFinish` are the first half of `reconcile()`, `Discover`, `RoundRecord` and
again `RoundClaim` and `RoundFinish` its second half, `EndRound`,
`ReclaimFetch` and `ReclaimEnqueue` the reclaim the route calls after it. Time
is `expired`: the set of rows whose lease has run out.

**OrderProjection.** A worker goes through `Claim`, `RecordPending`, one of
`FindNothing`, `FindApproved` and `Validate`, one of `FinalizeExisting`,
`FinalizeConflict` and `FinalizeDecision`, then perhaps `ProjectProfile`.
`Acknowledge` and `Fail` close the delivery, `Throw` is an awaited call that
fails at any of these points, and `Crash` ends all workers. `Decline` and
`Approve` are the administrator's, `ChangeEntitlement` is a drop or a transfer
as the replay check sees it.

**Checkout.** A request goes `check -> create -> cart -> attach -> start ->
url`, or enters at `start` when a retry finds a cart, or comes from a link
through `verify -> retire -> create` and ends with `consume`. `Throw` leads to
`failing`, where `Compensate` calls `markFailed`.

**DropTransfer.** A request asks for locks (`Acquire`, the whole synchronous
part of `AsyncLock.acquire`), enters when the queues it found are done, reads
again, then writes query by query. `Finish` is the `finally` block, on every
path out. A manual promotion takes no lock, as in the code.

**BillingLedger.** A request goes `check -> lock -> lookup -> insert -> commit`;
the last three are inside the transaction and hold the row lock of the
customer's balance (`holder`). `Check` is the lookup before the transaction,
`Lookup` the same under the lock. `Insert` waits while another transaction is
about to commit the same key, which is what PostgreSQL does in a unique index.
Every way out (`Refuse`, a taken key, an amount beyond the column, `Throw`)
releases. The caller's retry is another `Submit` of the same input.

**CustomerSession.** `Save` and `Verify` are the two halves of
`saveAndVerify()`, the first of which revokes the sessions. A sign-in is
`StartSignIn`, `Callback` (the state is deleted and returned), `ReadIntegration`
and `CreateSession`. A request is `ReadSession`, `ReadVersion`, `Access`,
perhaps `ReadOrders`, and `Touch`, whose guarded update admits it. `flight[s]`
is the entry of the map of refreshes: `ReadLatest`, `SendRefresh`, `Answered`,
`Store`, or `RevokeAfterFailure`; `Settle` resolves the promise for all who
wait. Tokens are numbered as Shopify issues them.

**OrganizationAccess.** A request of a person is `Found`, `FindInvite` with
`FindMembership`, `Join` and `Mark`, or `Enroll`; then `Announce` answers and
leaves a job behind. A job (an update, or the round's rebuild) is `Begin` (a
connection of the pool and a transaction), `Lock` (the advisory lock of the
person), for the rebuild `Load` (another connection), `Get`, `Set`; the claims
are read and written in two calls. `Fail` ends an attempt, `GiveUp` the last
one. `StartRound` and `RebuildNext` are the scheduled reconciliation.

**PurchaseDecision** is reached by a mapping: a decision that is not one of the
three verdicts is "pending", and what an order holds is counted by the
entitlements issued to it, changed later or not. A worker's `FinalizeDecision`
and an administrator's `Decline` or `Approve` are the abstract step, everything
else stutters. **CreditAccounts** sees the balances and, for each customer, the
set of inputs in the ledger; `Commit` is the abstract step. **DeliveryRow** is
what `WebhookIntake` and `OrderProjection` have in common: the first models who
works on a delivery and when, the second what the work decides, and each sees
the rows move in the same four ways. An intake row is the abstract row; a row of
the projection is, once "absent" is read as "none".

### Abstractions

* Names, amounts, tokens and payloads are model values. Signature checks,
  parsing and authorization come before any state change and are left out.
* `WebhookIntake`: the caches of organizations and secrets are left out; the
  row's `attempts` counter and diagnostics are, too.
* `OrderProjection`: what `validate()` and `validateClassPurchase()` read is free
  to change between two reads, so every verdict is possible for every order that
  has an intent (more behaviours than the code has, which is sound for safety).
  The demotion of a membership approval to `needs_review` inside the
  transaction is a choice. A membership grant is the row of its intent's one
  line. A legacy order with one line behaves as an order with one line.
  Transactions that share a lock are serialised; those that do not are single
  steps as well, since the unique indexes that would refuse the loser are guards.
* `Checkout`: `approved`, `rejected` and `needs_review` of an intent are
  `resolved`; cancelled and expired links are `closed`. There is one customer, since
  locks and rules are per customer. Validation before the intent exists may
  fail at any time.
* `DropTransfer`: a request slot is used once, which bounds the run by the
  number of requests and not by time. One process, since `AsyncLock` lives in
  one. Whether a refund is requested and accepted is a choice. The change log
  is left out.
* `BillingLedger`: an adjustment and its ledger entry are one record, as one
  transaction writes both. Currencies, which a balance does not keep apart, and
  the kinds of entries are left out. The report of mismatches only reads. Which
  answer a request gets makes no difference to the state.
* `CustomerSession`: one organization, one process (the map of refreshes lives
  in one). Cryptography, cookies, CSRF and redirects can only make a request
  fail, which `Throw` allows at any await.
* `OrganizationAccess`: the administrators who invite and remove are not
  followed, nor is `users.disassociated`, which nothing reads. The claims of
  other consumers, which both writers copy, are left out. The upsert of the
  person's row and the lookup of the membership are one step.

## 3. Runs

All runs finish within four minutes. `CHECK_DEADLOCK FALSE` is set where the
system may stop: when all orders are decided (`MCOrder*`), all keys are used
(`MCCheckout`) or all requests have ended (`MCDrop*`). In `DropTransfer` the
question of a deadlock is asked by `LockServes` and `EveryChangeEnds` instead. The other systems never stop and are checked for deadlock. `TypeOK` is
proved for every detailed module and so is no invariant of a run.

| Run | Bounds | What it shows |
|---|---|---|
| `MCWebhookQueue` | 4 ids, 2 slots, backlog 1, 2 retained, 2 copies of an id, 1 drain | limits, use of slots, books of ids, drains; first come, first served; every accepted id is handled |
| `MCWebhookIntake` | 2 deliveries, the second also found by reconciliation; 1 slot; 2 leases outlived, 2 duplicate requests, 1 failure per delivery, 1 restart | exclusive claims; the queue is driven only through its methods; refinement of `DeliveryRow`, so a processed delivery stays so; every recorded one is processed |
| `MCOrderProjection` | 2 workers; 2 deliveries of one order, 1 of a second order of the same intent; 2 lines; 1 fault | agreement of decision, intent, entitlement, delivery; replays; refinement of `PurchaseDecision` and `DeliveryRow` |
| `MCOrderLiveness` | 2 workers, a class and a membership order, 2 faults | every paid order is decided, and what may change its decision afterwards |
| `MCCheckout` | a first checkout, 2 followings of 1 link, 2 requests at a time, 1 expiry, 1 fault | all of the checkout's invariants |
| `MCDropTransfer` | 3 requests; a class of 1 seat with 3 registrations, a class of 1 free seat; 1 failing query | the lock, seats of each kind of change and of all together, refunds; every request ends |
| `MCBillingLedger` | 2 customers, 3 requests, 7 inputs sharing one reference, columns up to 3 cents, 2 entries per customer | running balance, idempotence, refinement of `CreditAccounts`; every request ends |
| `MCCustomerSession` | 2 callbacks of 1 state, 2 requests, 2 versions, 2 tokens per session, restarts | one session per state, one use per refresh token, refreshes and their waiters, current admissions; every request ends |
| `MCOrganizationAccess` | 1 person, 1 organization, 1 festival, 1 invitation, 2 requests, 2 attempts, 1 fault, 5 connections | invitations, updates against rebuilds, claims that were given, jobs that wait; the claims converge |

Why these are enough to be interesting: each contains the collision it is about.
With one slot and a backlog of one, two ids already make the queue refuse, and a
third makes it retain. A third delivery that only reconciliation records lets
discovery meet both the queue and a webhook. Three deliveries over two orders of
one intent are the smallest system with a replay and a rival at the same time,
and two lines the smallest with a partial issue. In the checkout, three keys and
two concurrent requests give a first request against its retry, against a
recovery, and two followings of one link; a third request would only repeat the
role of one of them, because every rule compares one pair of rows. Three
requests are needed for a drop, a transfer and a promotion at once, and for
three that queue on overlapping sets of locks. In the ledger they are a holder
of a lock, one that waits for it and one of the other customer with the same
key; amounts of 1 and 2 under a limit of 3 reach both ends. In the
session, two requests share a refresh or follow one another's, and two versions
let a save overtake either. In the access run one person is enough, since locks,
claims and loads are per person; two requests and a round are the two updates
and the rebuild that can meet. Its pool has five connections, so that three jobs
never wait for each other's; with two or three, TLC reports a deadlock (see
below). What the bounds cannot answer is what
the theorems are for. Each property of these runs has a mutant of the modelled
code, next to the definition it changes, that the run refutes.

### Fairness

`WebhookQueue!FairSpec` and `WebhookIntake!FairSpec` assume that a started
handler returns (every call in it has a timeout or is a database query), that a
continuation after an await is run by the event loop, that the lease's fifteen
minutes pass, and that the scheduler goes on calling reconciliation, as the
deployment does. They assume nothing of requests, restarts or failures.
`OrderProjection!FairSpec` assumes that a live worker takes its next step, that
a delivery that is still to be processed is claimed again, which
is what reconciliation does, and that leases expire. Faults are bounded
(`MaxFaults`, `MaxFailures`, `MaxRestarts`): without a bound, a delivery that
always fails is never decided, and none of these properties could hold.
`DropTransfer!FairSpec` assumes that a request whose query is answered goes on;
nothing makes requests begin or queries fail.
`CustomerSession!FairSpec` assumes the same of requests and of refreshes: the
HTTP transport and the pool have timeouts. `BillingLedger!FairSpec` is strong
fairness per request, since a lock may be free and taken again many times before
a request has it: PostgreSQL hands row locks and keys to those that wait in
their turn. `OrganizationAccess!FairSpec` is strong for the same reason (the
advisory lock and the pool), per request and for the round, which the deployment
schedules. `Checkout` claims safety only: its requests wait for nothing but
queries.

### Where code and documentation part

Three runs show a promise of a document or a test that the code does not keep.
Each quotes its source in `PROJECT.json`.

* `MCOrderRejection`: a worker that validated a class order before it was
  rejected approves it afterwards. Class orders only: a membership finalization
  stops at any existing decision. `DecisionsStand`, checked and proved, says
  that this is the only way past a decision but the administrator's.
* `MCOrderProfile`: a consented profile whose projection fails after the
  approval is not projected later, since the delivery is closed already.
* `MCDropCapacity`: a drop and a transfer together overbook a class. This and
  the resurrection noted under hazards share a cause: the promotion of a drop
  takes no capacity lock and expects no status.

Met on the way, and allowed by the properties as they are stated:

* An id that is scheduled twice takes one place in the set of active ids, so
  more handlers run than the limit allows (`webhook-worker-queue.ts:185`). The
  claim keeps this harmless for the data.
* The second paid order of an intent stays `pending_validation`, and its
  delivery is closed (`postgres-membership-commerce-repository.ts:541`), while
  the goals document calls that state transient
  (`goals/issue-78-shopify-order-projection-entitlement/establish-goals.v2.md:36`).
  `ClosedMeansDecided` names the exception.
* `listUids()` reads `users` only (`auth/firebase-claims-reconciliation.ts:41`),
  although its comment speaks of every uid with a membership or a volunteer
  record: who enrolled and never signed in to an organization is never rebuilt.
  `ClaimsConverge` speaks of those with a row.
* A rebuild loads from a second connection while its transaction holds the
  first (`auth/firebase-claims-reconciliation.ts:49`): if updates of the same
  person that wait for its lock hold all others, everybody waits. `JobsGoOn`
  says that nothing else can stop the jobs, in a pool of any size.

## 4. Proofs

The theorems hold for every value of the constants that satisfies the named
assumption of the module (`ASSUME`, evaluated by TLC in every run). They are
about the same modules the runs check.

* `WebhookQueue_proofs`. Every entry point ends in `Dispatch`, so the lemmas say
  what a dispatch leaves behind, once, for any backlog, and each action's case
  cites them. `WithinLimits`, `WorkConserving`, `RetainedIsNowhereElse`,
  `SlotsAreRunning` and `NoForgottenDrain` follow, and `BooksAgree` puts the
  others together. `FirstComeFirstServed` is about steps: queue and retained ids
  are one sequence (`Line`), of which a turn starts a prefix. Its proof needs
  the limits, since an id is added to the queue only while nobody is retained.
* `WebhookIntake_proofs`. `ClaimIsExclusive` needs `LeasesAccountForHolders`: a
  row that is in process under its lease allows one holder, any further one was
  let in by a lease that ran out. `RoundIsSound` says that the reconciliation
  holds the first of its list, and only while it works on a list.
  `IntakeDrivesTheQueue` is a refinement: every step is a step of `WebhookQueue`
  or leaves the queue alone, so the theorems about the queue carry over.
  `IntakeKeepsTheRow` is another, of `DeliveryRow`: `markDeliveryProcessed` does
  not look at the row, so it rests on a handler having claimed what it closes.
* `OrderProjection_proofs`. `IInv` is `TypeOK`, `ApprovedIffIssued` and
  `IntentFollowsItsOrder` with two additions without which no step can be
  argued: `WorkersKnowTheirOrder` (the intent a worker carries is that of its
  order, or none, and an approval always has one) and `BoundWhenDecided` (an
  order that holds an intent holds its own and is decided). The first says that a
  worker's memory, however old, can only lead to a decision on its own intent;
  the second that an intent is only ever held by an order of its own, and by one
  that is decided.
  `ApprovalIsFinal` and `DecisionsStand` follow from the same invariant: a worker
  goes past a decision only if it approves classes and finds a line that was not
  issued, which an approved order does not have, and an administrator only past
  a review (`DecidedStep`).
  `ClosedMeansDecided` needs in addition that a worker about to close its
  delivery has a decided order, and that no step undoes that
  (`WorkersAreRight`). `ProjectionKeepsItsPromise` is the refinement of
  `PurchaseDecision`: each step is shown to decide nothing or to be an abstract
  decision (`MayDecide`), with a lemma for what an order holds before and after.
  `ProjectionKeepsTheRow` is the refinement of `DeliveryRow`; `WorkersClaimed`
  says that a worker's row was claimed, and `StaysOnDelivery` why that lasts
  while others step.
* `Checkout_proofs`. `IInv` is the conjunction of the run's invariants with
  `RequestsKnowTheirKey` (a request at a step has the key that step needs) and
  `OneCartCreator` (at most one request is between creating an intent and
  attaching its cart, and before it creates the cart Shopify has none). The
  second is the reason a retry cannot make another cart, and it is what the
  advisory lock of `createIntent()` buys. A step brings no intent to life
  (`NoneComesAlive`) or makes a new one while none is live (`MakesIntent`):
  `OneLiveIntent` and `NothingIsRevived` both follow from that.
* `DropTransfer_proofs`. The lock is proved first. Its invariant `LockInv` is a
  numbering of the requests that hold or await the lock, in the order in which
  they came to it: each awaits earlier ones only (`AwaitsEarlier`), of two with a
  key in common the later awaits the earlier or one between them that has the
  key (`AwaitsPredecessors`), and the tail of a key is the last of those that
  have it (`TailIsLast`). `LockExcludes` and `NobodyWaitsInVain`, together
  `LockServes`, follow, as the first of the order awaits nobody. Three invariants stand beside it.
  `RefundInv`: while nobody promotes a registration, it is cancelled by one
  request, which alone refunds it. `DropInv`: confirmed registrations and the
  requests that have left a class and not yet promoted together never exceed the
  seats. `TransferInv`: with the capacities locked, what a transfer has counted
  stays true until it moves. `OverbookedByPromotionOnly` is for all kinds of
  requests at once: a registration joins a class by a promotion, which picks it
  first, or by a transfer, whose count of the class can only fall while it holds
  the lock, promotions left aside.
* `BillingLedger_proofs`. Under the row lock, what a transaction has read and
  looked for stays true (`ReadsHold`), and a transaction about to commit has its
  key for itself (`KeysHold`), which the lock alone does not give, as the other
  customer has another. With these a commit appends to a running balance and
  repeats nothing, and `LedgerKeepsItsPromise` shows the refinement of
  `CreditAccounts`: a commit is `Apply`, any other step changes nothing.
  `HoldersAreInside`, that a lock belongs to a transaction that is not over, gives
  `WaitsEnd`: who waits for a lock or a key never waits in a circle, and some
  request can go on while any is at work, which is what `EveryAdjustmentEnds`
  rests on besides fairness.
* `CustomerSession_proofs`. `ComparisonsHold`: once a request has compared
  versions, a session that still stands has the current one, because the save
  that changes it revokes in the same transaction. `TokensAreKnown`: the row of
  a standing session has the tokens its refresh will send or has sent, and they
  are unspent until then. `RefreshesAreAwaited`: an entry of the map of refreshes has a
  waiter and a waiter an entry, which is the safe half of `EveryRequestEnds`
  (what keeps a waiter waiting is a refresh that goes on). `LoginsAreApart`: two callbacks never have one state.
* `OrganizationAccess_proofs`. `JobsKnow`: from reading the claims to writing
  them a job holds the lock of its person, so what it read is still there.
  `RebuildsHold`: what a rebuild has not loaded, because it is younger, is
  announced by a request that has still to update. These give
  `UpdatesAreNotLost`; `MembersWereGranted` and `InvitesKnow` give
  `AcceptedInviteWasHonoured`. `GainsAreEarned` follows a role from the
  membership that gave it, through a request, a job and what the job read of the
  claims, to the claims: `ClaimsAreEarned`. `HoldersWork`, that a lock belongs
  to a job that works under it, gives `JobsGoOn`, and `AmplePoolsNeverBlock`
  the number of connections with which no job is blocked: two more than the
  requests that update claims at one time.

Left to TLC: every liveness property (`EveryAcceptedIdIsHandled`,
`EveryRecordedDeliveryIsProcessed`, `EveryPaidOrderIsDecided`,
`EveryChangeEnds`, `EveryAdjustmentEnds`, `EveryRequestEnds`,
`ClaimsConverge`), as proofs of fairness and `ENABLED` are beyond the prover.
Every safety and action property of a passing run is a theorem as well.

## 5. Not modelled

* Dates of memberships, renewals and their exclusion constraint; the waitlist;
  the cache: planned below.
* Festivals, divisions, catalogue, repertoire, rooms, communication and
  profiles: statements on single rows, with little that interleaves.
* Shopify administration, HTTP routing, signatures, the frontend, scripts and
  migrations: remote calls, cryptography, presentation and input checks.
* Several backend processes: the advisory locks and row updates are modelled as
  the database grants them, whoever asks; the queue and `AsyncLock` are per
  process and modelled for one, as is the map of refreshes in the sessions. The lock therefore promises less in a deployment
  with several replicas than `DropTransfer` shows.

## 6. Plan

Done: `WebhookQueue`, `WebhookIntake`, `OrderProjection` with
`PurchaseDecision`, `Checkout`, `DropTransfer`, `BillingLedger` with
`CreditAccounts`, `CustomerSession` and `OrganizationAccess`, each with its
theorems. What would come next, in the order of importance:

1. `Waitlist`: join (reads of enrolment, capacity and consent, then a
   transaction under the partial unique index of active entries), rejoin and
   withdraw, against drops and checkouts; then the promises on freed seats.
2. `MembershipGrants`: ranges of days, renewal, demotion, the exclusion
   constraint; date arithmetic checked against a reference definition.
3. `OrderProjection` and `WebhookIntake` composed, with the fairness of the
   reconciliation derived and not assumed, and a delivery that always fails.
4. `CustomerSession` for several processes, where the refresh of one meets that
   of another.
5. `AsyncCache`: invalidation against a load in flight.

## 7. Running

`tlc -config MCCheckout.cfg MCCheckout` checks a run; the module of each run is
in `PROJECT.json`. `tlapm Checkout_proofs.tla` checks the proofs of a module.
