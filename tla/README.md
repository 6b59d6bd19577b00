# Verification of the Temporal Cloud offering

TLA+ models, TLC runs and TLAPS proofs for the control plane of the repository: the programs
that create organizations and namespaces, measure their usage, change their plans and invoice
them every month through Stripe.  Temporal itself, Stripe, PostgreSQL and Prometheus are not
part of the repository; they appear only as far as its code relies on them.

## 1. The system and its components

| Component | Source | State it keeps | Operations |
|---|---|---|---|
| Price list and bill arithmetic | `billing-service/pricing.go`, `calculateCost` in `service.go` | none | `CalculateMonthlyBill`'s arithmetic, the dashboard estimate |
| Monthly billing job | `billing-service/cmd/billingcron` | rows of `invoices`; items and invoices at Stripe | `RunMonthlyBilling`, `CalculateMonthlyBill`, `GenerateStripeInvoice` |
| Organizations and subscriptions API | `service.go` | rows of `organizations`, `subscriptions`; customers, subscriptions and sessions at Stripe | `CreateOrganization`, `UpdateSubscription`, `CreateCheckoutSession`, GET handlers |
| Webhook | `service.go` | status columns of `invoices`, `subscriptions` | `handleInvoicePaid`, `handlePaymentFailed`, `handleSubscriptionUpdated` |
| Namespace provisioning | `service.go` | rows of `namespaces`; namespaces at Temporal | `CreateNamespace`, the goroutine `provisionNamespace` |
| Usage collector | `usage-collector/main.go` | rows of `usage_records`, `usage_aggregates` | `Collect`, `aggregateHourly` |
| Schema bootstrap | `internal/bootstrap/migrations.go`, `ensureUsageSchema`, `deploy/init-db.sql` | the tables themselves | a script and three programs that create the same tables |
| Magic links of the billing service | `service.go` | rows of `magic_links` | `SendMagicLink`, `VerifyMagicLink` |
| API keys | `auth.go`, `api_keys.go` | rows of `api_keys` | create, list, delete, `Authenticate` with its detached `last_used_at` update |
| Identities, audit log, statistics | `settings.go` | rows of `identities` | CRUD; `CreateAuditLog` does nothing |
| Marketing site sign-up and login | `marketing-site/src/routes/api/auth`, `lib/stores/auth.ts` and the pages that use it | KV entries for users, pending users, tokens; `localStorage`, the cookie and the tabs of a browser | signup, verify, set-password, magic-link; login, Google callback, the start of the store, logout |
| API proxy and routing | `api-proxy`, `marketing-site/functions` | none | request forwarding |
| Portal and marketing pages | svelte pages | none | rendering |
| Deployment | `production/k8s`, `deploy` | none | schedules, replica counts, restart policies |

How they interact:

- The **API** (two replicas, `production/k8s/billing.yaml:7`) writes `subscriptions` and
  `namespaces`; each handler is a sequence of separate calls to PostgreSQL, Stripe and Temporal
  without a transaction, and nothing is undone when a later call fails.
- The **collector** (a CronJob every half hour, no `concurrencyPolicy`) reads `namespaces`,
  measures each active one at Prometheus, and turns the records of the previous hour into
  aggregates.
- The **monthly job** (a CronJob on the first of the month, `restartPolicy: OnFailure`) reads
  `subscriptions` and `usage_aggregates`, creates invoice items and an invoice at Stripe for each
  paying organization, and stores the invoice.
- Every API route runs behind the **middleware** that looks its key up in `api_keys`, when
  `ENABLE_AUTH` is on, as it is in production; that includes the routes of the service's own
  **sign-in links**.
- The **site** keeps accounts of its own in a KV store and remembers who is signed in only in the
  browser; it reaches the service through the stateless **proxy**.
- **Stripe** collects the invoices, changes the status of subscriptions and calls the
  **webhook**, which updates the rows: late, repeatedly, in any order, or never.

What is hard to get right, and what makes each component correct:

| Component | Hard behaviour | Correct when |
|---|---|---|
| Monthly job | a crash, a failing call or the ten-minute deadline between any two calls to Stripe and the database; items that wait at Stripe for a subscription invoice, together with those of other starts and months; plan changes under the loop | no start charges an item twice, an item is on one invoice at most, a stored row tells of exactly the items its start made, a failure costs no other organization its invoice, the loop ends |
| Webhook | events before the row, repeated, or in the wrong order | a stored status is one Stripe reported of that invoice or of a subscription of that organization, if not always the last |
| Subscriptions | interleaved requests of one organization, lost answers, partial sign-ups | plan, limits and Stripe subscription of a row stem from one request and change in one step, a replaced one never returns; only failed sign-ups lack a subscription |
| Provisioning | a background call with a context that ends with the request; crashes; a silent Temporal | a status settles once, no namespace is taken over, the goroutine ends |
| Collector | overlapping, failing and killed runs; clocks read before the statement they are used in | only past hours are aggregated, a run counts a namespace once, a later sum of an hour never loses records |
| Site sign-up | handlers that share KV entries without transactions, each cut off anywhere; entries that expire | who is told to sign in has an account, late sign-ups and used tokens leave nothing, a record copied and written back does not claim a verification that never was |
| Magic links | an INSERT that is late or repeated, visits that overlap, a DELETE that names only the address | a link that was used or replaced signs nobody in any more; the handlers are one-time links |
| API keys | the detached update after the answer, organizations made on the side, the last key | a deleted key admits nobody, a stored key has an organization |
| Browser session | two copies that are never compared, tabs that load and log out at once, answers that set the cookie late | all copies are of one sign-in; with no copy left only a sign-in makes one |
| Bill arithmetic | usage at a boundary; unknown plan strings; two roundings, of which only the bill's knows the included actions | the overage is the least cover; the estimate is below the metered bill by at most one block, and only on plans that include less than a million actions, and above it by at most the whole blocks the plan includes (ten on enterprise) |

`PROJECT.json` lists every hazard at its line, with the properties that would catch it.

## 2. Modules

| Module | Models | Extends / instantiates |
|---|---|---|
| `Pricing` | the plan table and `CalculateMonthlyBill`'s arithmetic as operators | |
| `BillArithmetic` | the arithmetic compared with reference definitions, for every usage and plan string of a sample | `MonthlyBilling` |
| `InvoiceLedger` | abstract specification: what customers are promised of their invoices | |
| `MonthlyBilling` | the job, Stripe's items and invoices, the invoice webhook | `Pricing`, instance of `InvoiceLedger` |
| `NamespaceLifecycle` | abstract specification: what the namespaces API promises | |
| `NamespaceProvisioning` | handler, goroutine, context, Temporal | instance of `NamespaceLifecycle` |
| `SubscriptionBook` | abstract specification: a change of plan is one step | |
| `Subscriptions` | sign-up, plan changes, checkout, Stripe's subscriptions, the subscription webhook | instance of `SubscriptionBook` |
| `UsageCollector` | time, measuring, storing, aggregating | |
| `SiteAuth` | the site's sign-up, verify, set-password and magic-link handlers, the KV store | |
| `BrowserSession` | the site's auth store in the tabs of a browser, and the answers that set the cookie | |
| `OneTimeLinks` | abstract specification: what sign-in links promise | |
| `ServiceClock` | the time `MagicLinks` and `ApiKeys` read | |
| `MagicLinks` | `SendMagicLink`, `VerifyMagicLink`, the table `magic_links` | `ServiceClock`, instance of `OneTimeLinks` |
| `ApiKeys` | the middleware, creation and deletion of keys | `ServiceClock` |
| `ServiceAuth` | links behind the middleware | `MagicLinks`, `ApiKeys` |
| `SchemaBootstrap` | who makes the tables of the billing database | |
| `...Proofs` | theorems and proofs, one module for each model that stands on its own, but `SchemaBootstrap` | its model |
| `MC...` | small instances | its model |

Operators named `...Again`, `...Forgotten`, `...Everywhere` and the like, each marked *Variant*
in its comment, are not part of a specification.  They are plausible mistakes in the definition
that follows them; put in its place, each makes the property listed with it under `mutants` fail.

### Correspondence to the code

Every definition that models code is mapped to its lines in `PROJECT.json` (`map`).  In short:

**MonthlyBilling.**  `subscription` and `rows` are tables.  `phase`, `todo`, `org`, `bill` and `at`
are the program counter and locals of the loop in `RunMonthlyBilling`; `phase` names the call about
to be made; `owed` is a history of the running start: the selected organizations no call for which
has failed.  Each call has an action for success and one for failure.  An INSERT or Stripe call that
times out may have had its effect: `CreateItemFails` and `NewInvoiceFails` leave that open.
`EndLoop` is possible at any time because `rows.Next` returns false on an error too and `rows.Err`
is not looked at.  The usage a bill is computed from is any of the sums `usage_aggregates` may yield
(`UsageLevel`) at that moment: the collector may add to a month that is over, so two starts may
read different sums.

`items` and `invoices` are Stripe's, numbered for each customer.  The job creates its items pending
and asks for an invoice without setting `pending_invoice_items_behavior`.  `go.mod` pins stripe-go
v76.25.0, that is API version 2023-10-16, in which such an invoice takes up *none* of the pending
items (`exclude`); so `MakeInvoice` leaves them pending.  They go on the next invoice Stripe makes by
itself for the customer's subscription (`SubscriptionInvoice`), with whatever else is pending then:
items of other months, of failed attempts and of earlier starts.  The subscriptions are those
`UpdateSubscription` and checkout create (`service.go:267`); their invoices have no row, and
their events change none.  `DeclinePayment` is possible of the job's invoices, although they have no
items, because Stripe collects a customer's balance with them.

**Subscriptions.**  Each `CreateOrganization` request is a sign-up that moves through *customer*,
*organization* and *done*; each `UpdateSubscription` request through *stripe* and *store*.  A
Stripe subscription is numbered in the order of creation.  Limits are modelled by the plan they
belong to.  Clients know the id of an organization only from a successful `CreateOrganization`,
so updates name organizations whose sign-up is done.  `CreateCheckoutSession` looks its price up in
a table of its own (`Offered`, beside `Priced` of `UpdateSubscription`) and takes any organization,
existing or not: the session then has no customer and only names the organization.

**NamespaceProvisioning.**  `context` is the request's context, which `provisionNamespace`
inherits (`service.go:505`) and which net/http cancels when the handler returns.  The final
UPDATEs use `context.Background()` and may fail unnoticed.  `call` is the RegisterNamespace call
on its way: Temporal may execute it after its caller gave up.

**UsageCollector.**  Time passes in half hours, the period of the CronJob.  `increase(...[1h])`
is what was performed in the last two slots, or less when queries fail.  The clock is read in
`StampRecord` and `BeginAggregation`; the statement that uses it is executed later.  The
`INSERT ... SELECT` is two steps, the snapshot it sums (`SumHour`) and its commit
(`InsertAggregates`), so that statements overlap and may commit in another order.  The four
counters and two gauges are one figure, since all are summed alike.

**SiteAuth.**  `users`, `pendingUsers` and `tokens` are the KV entries `user:`, `pending_user:`,
and `verification:` with `magic_link:`.  A request is `None` until it arrives; its `phase` names
the KV or mail call it makes next.  Nothing is undone on an error, so a request that fails, or
whose isolate is stopped, is one that takes no further step.  A token is named by the request
that generated it, and a visit may present it only once it was mailed.  `expiresAt` is computed
when the request arrives, `until` when the entry is put, as in the code; an entry may outlive
`until`.  `late` in a sign-up is history: it says what `user:` held at its arrival.

**BrowserSession.**  `local` is `auth_user` in `localStorage`, `cookie` the cookie `auth`; a tab's
`user` is the value of its store.  A load reads `localStorage` (`Load`), then the cookie
(`ReadCookie`), then copies it (`SyncLocal`); a logout removes the one, then the other.  Tabs are
processes of their own, so these steps interleave.  A session is named by its sign-in; which
sign-ins set which copy is as the handlers and pages have it.  `orderly` is history.

**MagicLinks, ApiKeys, ServiceAuth.**  Each row of `magic_links` and `api_keys` is a record; a
request is `None` until it arrives and its `phase` names the statement it executes next.  A
statement that fails may have been executed.  A token or key is named by the request that
generated it; a link can be opened once mailed, a key used once its answer returned it or when it
was there from the start.  `touches` are the goroutines that update `last_used_at`.  In
`ServiceAuth` a send or visit starts in the step in which the middleware hands its call over
(`Serve`).

**SchemaBootstrap.**  `made` is how far a program is in its list of CREATE statements; `tables`
says of each table whether its id has a default.

**Pricing, BillArithmetic.**  Amounts are integers: cents, and micro GB-hours for the
DECIMAL(20,6) columns; truncation is `\div`, as in the code's `IntPart`.  The price list is a
constant, so the comparisons are made once, on the states before the first start (`NeverRun`).

## 3. Runs

All constants are named in the `.cfg` files; counters are capped in guards by `Max...` constants.

| Run | Result | Question |
|---|---|---|
| `billing` | holds | Can anything be charged twice within a start, with two organizations, two months, two starts, any call failing, crashes anywhere, and plan and status changing under the job; can the failure of one organization cost the other its invoice; do rows tell of exactly the items of their start and their statuses stay justified; do customers see a behaviour of `InvoiceLedger`; does a start end?  And is the arithmetic right at, below and above every boundary, for every plan string? |
| `provisioning` | holds | Do handler, goroutine and Temporal together implement `NamespaceLifecycle`, and does every goroutine end? |
| `subscriptions` | holds | Can concurrent and failing requests mix in a row, can sign-ups for one name both succeed, who may lack a subscription, and does a change of plan look like one step (`SubscriptionBook`)? |
| `usage_collector` | holds | What do overlapping, failing and killed runs leave in the tables? |
| `site_auth` | holds | Do sign-ups, visits of mailed links and password changes of an address leave an account for everyone who was told to sign in, and nothing behind that should not be there? |
| `service_auth` | holds | Do late INSERTs, overlapping visits and detached updates ever bring a link or a key back, and do links behind the middleware implement `OneTimeLinks`? |
| `browser_session` | holds | Can loads, logouts, late answers and an expiring cookie in two tabs mix two sessions or bring one back? |
| `billed_once` | violated | "billingcron triggers monthly billing once" (`cmd/billingcron/main.go:14`): a crash after an item was made, then a restart, makes it again, and both reach an invoice |
| `invoice_for_bill` | violated | "creates a Stripe invoice for the monthly bill" (`meter.go:173`): with no call failing, the stored invoice has none of the items of its bill |
| `live_subscription` | violated | "Create/update Stripe subscription" (`service.go:253`): after two answered updates an old subscription is still live |
| `public_routes` | violated | "Auth endpoints (public)" (`main.go:119`): a request for a sign-in link without an API key is refused |
| `schema` | violated | "schema required for the billing service", "mirrors deploy/init-db.sql" (`migrations.go:10`): in a database without the script an INSERT is refused for want of an id |

The five runs that end in a violation are disagreements between the repository's own text and the
code, each listed under `findings`; section 5 names further ones.

### Bounds and why they are enough

- `billing`: two organizations, because items of one must not end up with the other, and because one
  must be able to fail alone: the second has no Stripe customer, so each of its turns ends
  at the look-up, before or after the first one's; two months and two starts, because items that wait
  and restarting need a second of each.  A third start repeats the second: `todo` is selected anew
  and Stripe's state only grows.  One subscription invoice (`MaxRenewals`), which may come at any
  time, between the items of one start or of two; two events (`MaxEvents`), the least that can be
  reordered; one change of plan or status.  The plans are one whose bill has two items and one whose
  bill is zero.  The theorems hold for any number of all of these.
- The arithmetic in `billing`: action sums at, one below and one above what each plan includes, with
  and without whole blocks of overage, and storage sums just under and over a whole cent, on the four
  listed plans and an unknown one.  The theorems on it hold for all usage.
- `billed_once`, `invoice_for_bill`: one organization and month; two starts.
- `provisioning`: three requests, two of them for one name, so that names collide and also do
  not; any name may be registered outside the service from the start; one crash.
- `subscriptions`: three sign-ups, two of them for one slug; two updates and two Stripe
  subscriptions, the least at which requests and subscriptions can be confused; the paid plan is
  one the service has a price for but does not list, so that plan and limits can drift apart.
- `usage_collector`: two namespaces, so that a run has a loop; two pods and runs, so that
  runs overlap; two full hours after the first, quiet one, so that records of one hour are
  aggregated in the next, twice.  Pods and namespaces are interchangeable, hence the symmetry; no liveness is
  checked there.
- `site_auth`: two addresses, so that a token can be presented with the wrong one; two sign-ups
  and two visits, the least at which a pending entry is overwritten and activated twice; at most
  four requests (`MaxRequests`), out of all kinds; one tick, at which sign-in links are expired
  and a pending user may be gone just as its token ends.  One password: no property compares
  passwords, and a wrong current one only refuses the request.

- `service_auth`: two addresses; two sends, so that a late one meets a newer row; two visits, so
  that one overlaps or follows the other; one key to create, one that may be there from the start
  and one deletion; links and keys that end after the one tick.  At most three calls
  (`MaxCalls`) pass the middleware, out of all kinds, since a property is broken by two sends and
  a visit, by a send and two visits, or by a creation, a deletion and a call; the theorems hold
  without the bound's help.  All keys share a prefix, the case in which a late update meets every
  row.
- `browser_session`: two tabs, the least that interleave; two logins by form, one by Google, one
  by mail, so that every copy can be set over every other; one password change.
- `schema`: the tables and programs as they are; no bound.

Deadlock is not checked where the bounds end the behaviour or the system may be at rest, which
is all runs but `schema`.

### Fairness

- `MonthlyBilling!FairSpec` has weak fairness of the process's steps: a process that is not
  killed makes its next call, and each call returns, because queries run under the job's
  ten-minute context and the Stripe client has a timeout.  Crashes, Stripe and other services
  are not fair.
- `NamespaceProvisioning!FairSpec` has weak fairness of the handler's return and of each
  goroutine's own steps.  Nothing is assumed of Temporal or of the connection: the wait for an
  answer ends because the context does.  The variant with a detached context shows that this is
  what the property rests on.

## 4. Proofs

Checked by TLAPS for every value of the constants that satisfies the named assumptions.

| Theorem | Says |
|---|---|
| `MonthlyBillingProofs!TypeCorrect` | `Spec => []TypeOK` |
| `...!StoredInvoicesAreCovered` | `Spec => []RowIsCovered` |
| `...!StartInvoicesOnce` | `Spec => []OneInvoicePerStart` |
| `...!ItemsAreChargedOnce` | `Spec => []ItemChargedOnce` |
| `...!StatusesAreJustified` | `Spec => []StatusJustified` |
| `...!OthersAreBilled` | `Spec => []UndisturbedAreBilled` |
| `...!KeepsLedger` | `Spec => ImplementsLedger`: the job and the webhooks implement `InvoiceLedger` |
| `...!StartsRunDown` | `Spec => StartDescends`: a start of the job takes at most nine steps for each organization and two |
| `BillArithmeticProofs!OverageAlwaysLeastCover` | `OverageIsLeastCover`, for every set of plan strings and usage |
| `...!EstimateAlwaysBoundsBill` | `EstimateBoundsBill`, likewise |
| `...!BillAlwaysGrows` | `BillGrowsWithUsage`, likewise |
| `NamespaceProvisioningProofs!ActiveNamespacesAreOwned` | `Spec => []ActiveIsOwned` |
| `...!ImplementsLifecycle` | `Spec => Lifecycle!Spec` |
| `SubscriptionsProofs!RowsAreConsistent` | `Spec => []RowIsOneRequests` |
| `...!StatusesAreReported` | `Spec => []StatusReported` |
| `...!MissingSubscriptionsAreFailures` | `Spec => []SubscriptionMissingOnlyAfterFailure` |
| `...!KeepsBook` | `Spec => ImplementsBook`: the requests implement `SubscriptionBook` |
| `UsageCollectorProofs!OnlyPastHoursAreAggregated` | `Spec => []AggregatesArePast` |
| `...!RowsOfARunAreUnique` | `Spec => []OneRowPerRun` |
| `...!AggregatesStayCovered` | `Spec => []AggregatesAreCovered` |
| `...!RepeatedAggregatesNeverShrink` | `Spec => AggregatesNeverShrink` |
| `SiteAuthProofs!VerifiedUsersHaveAccounts` | `Spec => []AccountAfterVerification` |
| `...!AccountsAreVerifiedByOwners` | `Spec => []VerifiedByItsOwner` |
| `...!LateSignUpsLeaveNoTrace` | `Spec => []LateSignUpLeavesNoTrace` |
| `...!TokensAreUsedUp` | `Spec => []UsedTokensAreGone` |
| `MonthlyBillingProofs!IInvAlways`, and `Invariance` in `NamespaceProvisioningProofs`, `SubscriptionsProofs`, `UsageCollectorProofs`, `SiteAuthProofs`, `BrowserSessionProofs` | `Spec => []IInv` |
| `ServiceAuthProofs!LinksInvariance`, `KeysInvariance` | `LinksSpec => []LinksInv`, `KeysSpec => []KeysInv` |
| `...!GoneLinksStayGone` | `LinksSpec => []GoneLinksAreRejected` |
| `...!DeletedKeysAdmitNobody` | `KeysSpec => []DeletedKeyAdmitsNobody` |
| `...!LinksAreOneTime`, `ServiceLinksAreOneTime` | `LinksSpec => ImplementsOneTimeLinks`, `Spec => ImplementsOneTimeLinks` |
| `...!ImplementsParts` | `Spec => LinksSpec /\ KeysSpec`: what holds of each part holds of the service |
| `BrowserSessionProofs!SignedOutForGood` | `Spec => StaysSignedOut` |
| `...!OneSessionAlways` | `Spec => []OneSession` |

**Argument.**  Each model but the arithmetic has an inductive invariant (`IInv`, `LinksInv`,
`KeysInv`), checked by a TLC run before it was proved.  The properties are not inductive by themselves:

- *MonthlyBilling*: that an item is charged once needs to know which items the running start has
  already made.  `NumberedByStart` says that no item or invoice carries a start or a number to come,
  `FreshWork` that nothing of the running start belongs to an organization still in `todo`, and
  `ItemProgress` that the items of the running start are exactly the ones before `at`, or those of
  the whole bill when the row is about to be stored.  None of this says where the items are: a
  subscription invoice may take them up at any moment (`TakeUpCharges`: it changes no item but for
  the invoice it is on).  `OwedProgress` says that every organization still in `owed` that the start
  is through with has its invoice and row.  For the refinement of `InvoiceLedger`, `ItemIsCharged`,
  `InvoiceIsIssued` and `RenewalTakesUp` map Stripe's steps, and `HandlerReflects` says that an event
  changes the one row of its invoice or nothing.  The descent of `StartsRunDown` needs only
  `ItemProgress` (`at` stays below five) and that the organizations are finitely many.
- *NamespaceProvisioning*: `RowAwaitsGoroutine` (the row of a running goroutine is still as
  inserted), `AnswerIsTrue` (an accepted call owns its name), `UnusedIsUntouched`.  With these
  each step is a step of `NamespaceLifecycle` or a stutter.
- *Subscriptions*: `UpdateHoldsItsSubscription` ties the subscription a request is about to store
  to that request, `SignUpProgress` ties the rows to how far a sign-up has come.  For the
  refinement the numbers running requests are about to store are `SubscriptionBook!waiting`;
  `HeldOnce` (no two requests hold one number) is why storing or giving up takes a number off
  for good, and `SessionsAreOffered` why a checkout is a sale like any other.
- *UsageCollector*: `RunsAreDistinct`, `WorkIsAhead` (what a pod has still to store is not
  stored), `SumsOfRuns` (what a statement has summed and not committed is of its run),
  `StampsArePast`.  What aggregates add up to rests on lemmas on sums over finite sets:
  the recursive sum of the community modules exists and is unique because a smallest set for which it
  were otherwise cannot be (`MinimalSubset`), it does not depend on the order (`SumRemove`), and
  it grows with its set (`SumMonotone`).  `CoverKept` then says that a stored record takes no
  sum out of cover, and `SumHourKeepsIInv` that a new sum is the total of all records its hour
  has, which earlier ones of that hour, committed or not, are totals of some of.
- *BillArithmetic*: no state, so no invariant: `LeastCover` makes the overage blocks grow with usage
  (`ItemsGrow`), `IncludedBlocks` compares what the two roundings drop, the other items are truncated
  products.
- *SiteAuth*: `AccountOrPending` (once its pending user was stored, an address has an account or
  a pending user that outlives the token), `VisitProgress`, `AcceptedAddress`, and the claims on
  copies of records that requests hold (`HeldVerification`, `OriginsAreTimely`).  All steps share
  the lemma that nothing goes back (`Advances`): accounts never vanish and requests only advance.

- *MagicLinks*: that a gone link stays gone needs to know that its token is never stored again:
  `VisitsAfterMail` (a link that is opened was mailed, and a mail leaves after the last INSERT)
  with `RowsOfSends`.  The refinement reads a visit's decision off its phase; `AcceptedVisits`
  makes an accepted visit one that was granted against the row of its address.
- *ApiKeys*: `KeysOfCalls` (a key is stored once, before its call is answered) keeps a deleted key
  from coming back, `KeysHaveOrganizations` is carried by the foreign key.
- *BrowserSession*: one lemma says that a step other than the answer to a sign-in holds no session
  that was not held before; all three theorems rest on it.

**Assumptions.**  `ArithmeticAssumption` (in `BillArithmetic`), `BillingAssumption`,
`ProvisioningAssumption`, `SubscriptionsAssumption`, `CollectorAssumption`,
`SiteAuthAssumption`, `MagicLinksAssumption`, `ApiKeysAssumption`, `ServiceAuthAssumption` and
`BrowserSessionAssumption` only type the constants and keep special values apart;
`BillingAssumption` also says that there are finitely many organizations, whose number
`StartsRunDown` counts with.  TLC evaluates each of them in a run.

**Only model-checked.**  Liveness (`ProcessEnds`, `ProvisioningEnds`), because weak fairness is
about ENABLED, which the prover does not know.  Of `ProcessEnds` the part that needs no fairness
is proved (`StartsRunDown`).  Every other property of a run that holds is stated by a theorem.

## 5. What is abstracted

- Database errors subsume the deadline of the monthly job: after it, every query fails.
- The two SELECTs of `CalculateMonthlyBill` are one step; their tables have independent writers.
- One billing pod runs at a time: the CronJob has one schedule a month, and a Job replaces its
  pod only when it is gone.
- A new Stripe subscription starts as active; its other starting states change nothing the
  service stores.
- A subscription bought in a checkout is counted to the organization the session names, with or
  without a customer of that organization.
- Sums cannot overflow 64 bits at any usage the tables can hold in a month.
- The organization `GenerateAPIKey` makes for demonstrations has no customer: `UpdateSubscription`
  answers 404 for it, as `UpdateFails`.
- The collector reads the half hour it runs in as a whole; actions within a half hour are not
  ordered.
- The KV store returns the last value written.  The handlers rely on it: they read once and act
  on what they read.  With reads that lag behind, a visit may miss the pending user and answer
  with success; `AccountAfterVerification` then holds only after the lag.
- Login accepts any credentials and, like the Google callback, writes a cookie and no entry; these
  and the cookie that set-password sets again are in `BrowserSession`.
- The site has its KV binding.  Without one the handlers store nothing, and verify answers success
  for any token and address, of which `AccountAfterVerification` does not hold.
- A link carries the `type` of its token; with another one the look-up finds nothing.

- The JSON in `localStorage` and in the cookie is what this code wrote, so the branches that
  drop broken JSON are not taken.  `hasPassword` is read nowhere.
- `RunMigrations` has made `magic_links` before the service serves, so the CREATE TABLE after a
  failed INSERT changes nothing in `MagicLinks`.
- The process may die between any two statements: in `MagicLinks` and `ApiKeys` its requests then
  take no further step.
- The two halves of a key are one name; that two keys have one prefix is left to `PrefixOf`.

Disagreements seen while modelling that no run shows:

- The items of a bill wait for an invoice of the customer's subscription (`invoice_for_bill`).  The
  invoice the row names is then of no amount and Stripe settles it at once, so the row says paid
  while its charges are open; a later failure to collect them is reported of an invoice without a
  row.  A customer without a subscription at Stripe, such as one who is back on the free plan or
  whose subscription was canceled, is never charged what is pending.
- The subscription is sold at a recurring price (`price_essential_monthly`, `service.go:644`) and the
  job makes an item of the plan's base price as well (`meter.go:189`), so if the price is the one the
  plan names, the base price is charged twice.
- `provisionNamespace` "calls the Temporal cluster to register a namespace and updates status in
  DB" (`service.go:577`), but its context ends with the request, so the row may say failed of a
  namespace Temporal registers.
- "Hourly rollups per organization" (`docs/SELF_HOSTING.md:64`): every run in an hour inserts the
  previous hour again, and `ON CONFLICT DO NOTHING` (`usage-collector/main.go:292`) has no unique
  key to act on; `OneRowPerRun` is what holds.
- With `ENABLE_AUTH` on, as in `production/k8s/billing.yaml:63`, keys are made only with a key and
  nothing seeds one; with the sign-in routes behind the middleware too (`public_routes`), a service
  without keys lets nobody begin anything.
- `VerifyMagicLink` "logs the user in" (`service.go:964`), but the cookie it sets is not the JSON
  object it is given: `http.SetCookie` drops the quotes from a value.  The link it mails leads to
  the site, whose own verify handler looks elsewhere, or to a proxy whose fetch follows the
  redirect and drops the cookie.  An address with a plus sign is not escaped in the link and
  comes back changed, so its link never signs in.
- A sign-in over a session leaves the page with the old user (`stores/auth.ts:31`), and the form's
  page shows nobody until it is loaded again.

Others: "RunMonthlyBilling runs billing for all
organizations" (`meter.go:262`), but `rows.Err` is not checked after the loop and failed
organizations are only counted, so a loop that is cut off ends as a success (`EndLoop`); the webhook ignores
`checkout.session.completed` and `customer.subscription.deleted`, which
`PRODUCTION-SETUP.md:114` subscribes it to; storage is charged from the first GB-hour
(`pricing.go:141`) although `docs-site/docs/billing/pricing.md:23` charges it beyond the plan's
included usage; an organization that moves to the free plan between the selection and its turn is
invoiced on the free plan; two runs of the collector in an hour measure overlapping last hours,
whose sum is billed.

## 6. Not modelled, and why

- *Generated and built code*: some 21 600 of the 24 000 lines of JavaScript and TypeScript are the
  output of SvelteKit and its adapters (`marketing-site/.svelte-kit`, `marketing-site/build`):
  the framework's server and bundles of the sources that are modelled here.  Of the sources
  written for this repository the control that keeps state is modelled; what is left is markup,
  styles and mail texts.
- *API proxy and routing* (`api-proxy`, `marketing-site/functions`): each request is forwarded
  once and nothing is kept.  A call that is executed although the proxy answers 502 is a
  statement whose answer is lost, which the models of the handlers have.
- *Portal, marketing pages, most of the deployment*: no state of their own, or configuration.
- *Identities, audit log, statistics* (`settings.go`): single-row statements that do not depend on
  each other, and sample data on errors; `CreateAuditLog` stores nothing.

## 7. Plan

Done, in this order: `Pricing`, `BillArithmetic`, `MonthlyBilling` (the most important behaviour:
what customers are charged), `NamespaceLifecycle` with `NamespaceProvisioning`, `Subscriptions`,
`UsageCollector`, `SiteAuth`, `OneTimeLinks` with `MagicLinks`, `ApiKeys`, their composition
`ServiceAuth`, `BrowserSession`, `SchemaBootstrap`, and the proofs of all but the last.

Left:

1. Composition: the collector's aggregates as the source of the monthly job's usage, in place of
   any sum out of `UsageLevel`; a ledger of hours (each charged at most once) as the specification
   of both, beside `InvoiceLedger`, which knows items only.
2. Proofs: an abstract specification of the site's accounts, and its refinement by `SiteAuth`.
