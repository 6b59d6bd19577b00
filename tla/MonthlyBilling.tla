--------------------------- MODULE MonthlyBilling ---------------------------
(***************************************************************************)
(* The monthly invoicing job: billing-service/cmd/billingcron, started by  *)
(* the CronJob billing-monthly, against the billing database and Stripe,   *)
(* and the webhook handlers of billing-service/service.go that later       *)
(* update the invoices the job stored.                                     *)
(*                                                                         *)
(* A process start selects the paying organizations once and then handles  *)
(* them one at a time: compute the bill, look the Stripe customer up,      *)
(* create up to four invoice items, create the invoice, store a row.  Each *)
(* of these is a call to another system and a step here.  Any database     *)
(* call may fail: the connection breaks, or the ten-minute deadline of the *)
(* job's context has passed.  A Stripe call may fail with or without its   *)
(* effect (Stripe calls do not carry that context; the client's own        *)
(* retries are idempotent).  The pod may die between any two steps, and    *)
(* the Job restarts it.                                                    *)
(*                                                                         *)
(* Stripe is external.  An invoice item is created pending.  The invoice   *)
(* the job asks for takes up none of the customer's pending items: that is *)
(* the default of the API version stripe-go v76 pins, and the job does not *)
(* set pending_invoice_items_behavior.  They go on the next invoice Stripe *)
(* makes of the customer's subscription.  Stripe collects the job's        *)
(* invoices too, together with what balance the customer has, and sends    *)
(* events that arrive late, repeatedly, in any order or never.             *)
(***************************************************************************)
EXTENDS Pricing, FiniteSets

CONSTANTS
  Orgs,         \* organizations
  HasCustomer,  \* those with a non-empty stripe_customer_id
  PlanName,     \* plan strings a subscriptions row may hold
  UsageLevel,   \* sums of usage_aggregates a query may return
  MaxMonth,     \* bound on billed months
  MaxStarts,    \* bound on process starts over all months
  MaxEvents,    \* bound on the events Stripe sends of the job's invoices
  MaxRenewals,  \* bound on subscription invoices that take items up
  MaxChanges    \* bound on subscription changes by other services

ASSUME BillingAssumption ==
  /\ IsFiniteSet(Orgs)
  /\ HasCustomer \subseteq Orgs
  /\ UsageLevel \subseteq Usage
  /\ MaxMonth \in Nat
  /\ MaxStarts \in Nat
  /\ MaxEvents \in Nat
  /\ MaxRenewals \in Nat
  /\ MaxChanges \in Nat

VARIABLES
  \* the billing database
  subscription, \* subscriptions: plan and status of each organization
  rows,         \* the invoices table
  \* the job
  month,        \* the month the current Job bills
  starts,       \* process starts so far; numbers the running process
  phase,        \* where the process is, or how the Job stands
  todo,         \* selected organizations the loop has not reached
  org,          \* the organization being handled
  bill,         \* its MonthlyBill
  at,           \* index of the next invoice item
  inv,          \* number of the invoice just created
  \* history of the running start
  owed,         \* selected, billed above zero if reached, and no call for it failed
  \* Stripe
  items,        \* invoice items
  invoices,     \* the invoices the job asked for
  objects,      \* items and invoices made for each customer; numbers them
  events,       \* webhook events sent
  \* bookkeeping of the bound
  changes

process == <<month, starts, todo, org, bill, at, inv, owed>>
stripe == <<items, invoices, objects, events>>
vars == <<subscription, rows, process, phase, stripe, changes>>

-----------------------------------------------------------------------------
(* Types.                                                                  *)

SubscriptionStatus == {"active", "past_due", "canceled"}

\* Where the loop is, one value per call the process is about to make.
Running == {"select", "loop", "calculate", "customer", "items", "invoice", "store"}

Phase == Running \cup {"due", "failed", "done"}

InvoiceId == [org : Orgs, number : Nat]

\* An item names the invoice it is on, or 0 while it is pending.  Start and
\* month are history: which process start asked for it and what it billed.
InvoiceItem ==
  [org : Orgs, number : Nat, start : Nat, month : Nat, kind : LineItem,
   cents : Nat, invoice : Nat]

StripeInvoice == [id : InvoiceId, start : Nat, month : Nat]

MonthlyBill == [plan : ListedPlan, charge : [LineItem -> Nat]]

RowStatus == {"pending", "paid", "payment_failed"}

InvoiceRow ==
  [id : InvoiceId, month : Nat, bill : MonthlyBill, status : RowStatus]

EventType == {"invoice.paid", "invoice.payment_failed"}

Event == [type : EventType, id : InvoiceId]

\* Column types, the process's registers and Stripe's objects are well formed.
TypeOK ==
  /\ subscription \in [Orgs -> [plan : PlanName, status : SubscriptionStatus]]
  /\ rows \subseteq InvoiceRow
  /\ month \in Nat
  /\ starts \in Nat
  /\ phase \in Phase
  /\ todo \subseteq Orgs
  /\ org \in Orgs
  /\ bill \in MonthlyBill
  /\ at \in 1..5
  /\ inv \in Nat
  /\ owed \subseteq Orgs
  /\ items \subseteq InvoiceItem
  /\ invoices \subseteq StripeInvoice
  /\ objects \in [Orgs -> Nat]
  /\ events \subseteq Event
  /\ changes \in Nat

-----------------------------------------------------------------------------
(* Initial states: organizations exist, no Job has run.                    *)

BillFor(o, usage) ==
  [plan   |-> EffectivePlan(subscription[o].plan),
   charge |-> Bill(subscription[o].plan, usage)]

Init ==
  /\ subscription \in [Orgs -> [plan : PlanName, status : {"active"}]]
  /\ rows = {}
  /\ month = 1
  /\ starts = 0
  /\ phase = "due"
  /\ todo = {}
  /\ org \in Orgs
  \* the registers are set before they are read
  /\ bill = [plan |-> "free", charge |-> [i \in LineItem |-> 0]]
  /\ at = 1
  /\ inv = 0
  /\ owed = {}
  /\ items = {}
  /\ invoices = {}
  /\ objects = [o \in Orgs |-> 0]
  /\ events = {}
  /\ changes = 0

-----------------------------------------------------------------------------
(* The Job.                                                                *)

\* The CronJob creates the Job's pod, or OnFailure restarts its container.
StartProcess ==
  /\ phase \in {"due", "failed"}
  /\ starts < MaxStarts
  /\ starts' = starts + 1
  /\ owed' = {}
  /\ phase' = "select"
  /\ UNCHANGED <<subscription, rows, month, todo, org, bill, at, inv, stripe, changes>>

\* The pod is killed, or the process calls log.Fatalf before the loop.
Crash ==
  /\ phase \in Running
  /\ phase' = "failed"
  /\ UNCHANGED <<subscription, rows, process, stripe, changes>>

\* The next month's Job: the previous one succeeded or was given up.
NextMonth ==
  /\ phase \in {"done", "failed"}
  /\ month < MaxMonth
  /\ month' = month + 1
  /\ phase' = "due"
  /\ UNCHANGED <<subscription, rows, starts, todo, org, bill, at, inv, owed, stripe, changes>>

Paying(o) ==
  /\ subscription[o].status = "active"
  /\ subscription[o].plan # "free"

\* The only read of the set of organizations to bill.
SelectOrgs ==
  /\ phase = "select"
  /\ todo' = {o \in Orgs : Paying(o)}
  /\ owed' = todo'
  /\ phase' = "loop"
  /\ UNCHANGED <<subscription, rows, month, starts, org, bill, at, inv, stripe, changes>>

\* Variant: the handled organization is not dropped from the list.
NextOrgAgain ==
  /\ phase = "loop"
  /\ org' \in todo
  /\ phase' = "calculate"
  /\ UNCHANGED <<subscription, rows, month, starts, todo, bill, at, inv, owed, stripe, changes>>

NextOrg ==
  /\ phase = "loop"
  /\ \E o \in todo :
       /\ org' = o
       /\ todo' = todo \ {o}
  /\ phase' = "calculate"
  /\ UNCHANGED <<subscription, rows, month, starts, bill, at, inv, owed, stripe, changes>>

\* rows.Next returned false: the rows are exhausted, or the query was cut off
\* by the deadline or a lost connection.  rows.Err is not looked at, so the
\* process reports success in both cases.
EndLoop ==
  /\ phase = "loop"
  /\ owed' = owed \ todo
  /\ phase' = "done"
  /\ UNCHANGED <<subscription, rows, month, starts, todo, org, bill, at, inv, stripe, changes>>

\* Variant: the failure of one organization ends the run.
GiveUpOnAll ==
  /\ owed' = owed \ {org}
  /\ phase' = "done"
  /\ UNCHANGED <<month, starts, todo, org, bill, at, inv>>

\* A failed call is logged, and the loop moves on to the next organization.
GiveUpOnOrg ==
  /\ owed' = owed \ {org}
  /\ phase' = "loop"
  /\ UNCHANGED <<month, starts, todo, org, bill, at, inv>>

\* CalculateMonthlyBill re-reads the plan and sums the usage of the month, to
\* which the collector may still add when the month is over: any sum may be
\* returned, at the first start or at a later one.
CalculateMonthlyBill ==
  /\ phase = "calculate"
  /\ \E usage \in UsageLevel : bill' = BillFor(org, usage)
  /\ \/ /\ TotalCents(bill'.charge) > 0
        /\ phase' = "customer"
        /\ UNCHANGED owed
     \/ /\ TotalCents(bill'.charge) = 0
        /\ phase' = "loop"
        /\ owed' = owed \ {org}
  /\ UNCHANGED <<subscription, rows, month, starts, todo, org, at, inv, stripe, changes>>

CalculateFails ==
  /\ phase = "calculate"
  /\ GiveUpOnOrg
  /\ UNCHANGED <<subscription, rows, stripe, changes>>

LookUpCustomer ==
  /\ phase = "customer"
  /\ org \in HasCustomer
  /\ at' = 1
  /\ phase' = "items"
  /\ UNCHANGED <<subscription, rows, month, starts, todo, org, bill, inv, owed, stripe, changes>>

\* The query failed, or the column is NULL or empty.
NoCustomer ==
  /\ phase = "customer"
  /\ GiveUpOnOrg
  /\ UNCHANGED <<subscription, rows, stripe, changes>>

-----------------------------------------------------------------------------
(* Invoice items and the invoice.                                          *)

ItemOrder == <<"base", "overage", "active", "retained">>

Advance ==
  /\ at' = at + 1
  /\ phase' = IF at = 4 THEN "invoice" ELSE "items"
  /\ UNCHANGED <<month, starts, todo, org, bill, inv, owed>>

\* Stripe's next object of a customer, an item or an invoice.
NextObject(o) == objects[o] + 1

Count(o) == objects' = [objects EXCEPT ![o] = @ + 1]

\* invoiceitem.New as Stripe executes it.
MakeItem(k) ==
  /\ items' = items \cup
       {[org |-> org, number |-> NextObject(org), start |-> starts, month |-> month,
         kind |-> k, cents |-> bill.charge[k], invoice |-> 0]}
  /\ Count(org)
  /\ UNCHANGED <<invoices, events>>

\* Charges of zero get no item.
SkipItem ==
  /\ phase = "items"
  /\ bill.charge[ItemOrder[at]] = 0
  /\ Advance
  /\ UNCHANGED <<subscription, rows, stripe, changes>>

CreateItem ==
  /\ phase = "items"
  /\ bill.charge[ItemOrder[at]] > 0
  /\ MakeItem(ItemOrder[at])
  /\ Advance
  /\ UNCHANGED <<subscription, rows, changes>>

\* Variant: a failed item is logged and the next one created.
CreateItemFailsLogged ==
  /\ phase = "items"
  /\ bill.charge[ItemOrder[at]] > 0
  /\ MakeItem(ItemOrder[at]) \/ UNCHANGED stripe
  /\ Advance
  /\ UNCHANGED <<subscription, rows, changes>>

\* The earlier items stay pending at Stripe; the failed one may be there too.
CreateItemFails ==
  /\ phase = "items"
  /\ bill.charge[ItemOrder[at]] > 0
  /\ MakeItem(ItemOrder[at]) \/ UNCHANGED stripe
  /\ GiveUpOnOrg
  /\ UNCHANGED <<subscription, rows, changes>>

\* invoice.New as Stripe executes it: pending items stay pending.
MakeInvoice ==
  /\ invoices' = invoices \cup
       {[id |-> [org |-> org, number |-> NextObject(org)], start |-> starts, month |-> month]}
  /\ Count(org)
  /\ UNCHANGED <<items, events>>

\* Variant: after a lost answer everything is tried again.
NewInvoiceRetries ==
  /\ phase = "invoice"
  /\ MakeInvoice \/ UNCHANGED stripe
  /\ at' = 1
  /\ phase' = "items"
  /\ UNCHANGED <<subscription, rows, month, starts, todo, org, bill, inv, owed, changes>>

NewInvoice ==
  /\ phase = "invoice"
  /\ MakeInvoice
  /\ inv' = NextObject(org)
  /\ phase' = "store"
  /\ UNCHANGED <<subscription, rows, month, starts, todo, org, bill, at, owed, changes>>

\* Without a response the process stores nothing, whether Stripe made it or not.
NewInvoiceFails ==
  /\ phase = "invoice"
  /\ MakeInvoice \/ UNCHANGED stripe
  /\ GiveUpOnOrg
  /\ UNCHANGED <<subscription, rows, changes>>

\* The invoice the row names by stripe_invoice_id.
ThisInvoice == [org |-> org, number |-> inv]

StoreInvoice ==
  /\ phase = "store"
  /\ rows' = rows \cup
       {[id |-> ThisInvoice, month |-> month, bill |-> bill, status |-> "pending"]}
  /\ phase' = "loop"
  /\ UNCHANGED <<subscription, process, stripe, changes>>

\* A failed INSERT is only logged: the organization even counts as processed.
StoreInvoiceFails ==
  /\ phase = "store"
  /\ GiveUpOnOrg
  /\ UNCHANGED <<subscription, rows, stripe, changes>>

-----------------------------------------------------------------------------
(* Stripe collects, and its events reach the webhook handlers.             *)

Pending(o) == {i \in items : i.org = o /\ i.invoice = 0}

\* The invoices that took items up.
Renewals == {<<i.org, i.invoice>> : i \in {j \in items : j.invoice # 0}}

\* Stripe makes the next invoice of the customer's subscription, which takes up
\* everything pending.  No row has its number, so its events change nothing.
SubscriptionInvoice(o) ==
  /\ Pending(o) # {}
  /\ Cardinality(Renewals) < MaxRenewals
  /\ items' = (items \ Pending(o)) \cup
                {[i EXCEPT !.invoice = NextObject(o)] : i \in Pending(o)}
  /\ Count(o)
  /\ UNCHANGED <<subscription, rows, process, phase, invoices, events, changes>>

Sent(type, id) == [type |-> type, id |-> id] \in events

Send(type, id) ==
  /\ Cardinality(events) < MaxEvents
  /\ events' = events \cup {[type |-> type, id |-> id]}

CollectInvoice ==
  /\ \E v \in invoices :
       /\ ~Sent("invoice.paid", v.id)
       /\ Send("invoice.paid", v.id)
  /\ UNCHANGED <<subscription, rows, process, phase, items, invoices, objects, changes>>

DeclinePayment ==
  /\ \E v \in invoices :
       /\ ~Sent("invoice.paid", v.id)
       /\ Send("invoice.payment_failed", v.id)
  /\ UNCHANGED <<subscription, rows, process, phase, items, invoices, objects, changes>>

\* Variant: the UPDATE selects by organization.
SetStatusOfOrg(id, s) ==
  rows' = {IF r.id.org = id.org THEN [r EXCEPT !.status = s] ELSE r : r \in rows}

SetStatus(id, s) ==
  rows' = {IF r.id = id THEN [r EXCEPT !.status = s] ELSE r : r \in rows}

\* An event for an invoice with no row updates nothing and is acknowledged.
HandleInvoicePaid ==
  /\ \E e \in events : e.type = "invoice.paid" /\ SetStatus(e.id, "paid")
  /\ UNCHANGED <<subscription, process, phase, stripe, changes>>

HandlePaymentFailed ==
  /\ \E e \in events :
       e.type = "invoice.payment_failed" /\ SetStatus(e.id, "payment_failed")
  /\ UNCHANGED <<subscription, process, phase, stripe, changes>>

-----------------------------------------------------------------------------
(* Other services write the table the job selects from.                    *)

\* UpdateSubscription stores another plan.
ChangePlan ==
  /\ changes < MaxChanges
  /\ changes' = changes + 1
  /\ \E o \in Orgs, p \in PlanName :
       /\ subscription[o].plan # p
       /\ subscription' = [subscription EXCEPT ![o].plan = p]
  /\ UNCHANGED <<rows, process, phase, stripe>>

\* handleSubscriptionUpdated stores the status Stripe sent.
ChangeStatus ==
  /\ changes < MaxChanges
  /\ changes' = changes + 1
  /\ \E o \in Orgs, s \in SubscriptionStatus :
       /\ subscription[o].status # s
       /\ subscription' = [subscription EXCEPT ![o].status = s]
  /\ UNCHANGED <<rows, process, phase, stripe>>

-----------------------------------------------------------------------------
(* The specification.                                                      *)

ProcessStep ==
  \/ SelectOrgs \/ NextOrg \/ EndLoop
  \/ CalculateMonthlyBill \/ CalculateFails
  \/ LookUpCustomer \/ NoCustomer
  \/ SkipItem \/ CreateItem \/ CreateItemFails
  \/ NewInvoice \/ NewInvoiceFails
  \/ StoreInvoice \/ StoreInvoiceFails

Next ==
  \/ StartProcess \/ Crash \/ NextMonth
  \/ ProcessStep
  \/ \E o \in Orgs : SubscriptionInvoice(o)
  \/ CollectInvoice \/ DeclinePayment
  \/ HandleInvoicePaid \/ HandlePaymentFailed
  \/ ChangePlan \/ ChangeStatus

Spec == Init /\ [][Next]_vars

\* A process that is not killed keeps making calls, each of which returns.
FairSpec == Spec /\ WF_vars(ProcessStep)
-----------------------------------------------------------------------------
(* What the job guarantees.                                                *)

\* Seen from its customers the job keeps the ledger InvoiceLedger describes:
\* whatever fails, is restarted, repeated or reordered, nothing is charged or
\* invoiced again by the same start, what is on an invoice stays there, a row
\* tells of its start's items, and one report changes one row.
Ledger == INSTANCE InvoiceLedger

ImplementsLedger == Ledger!Spec

\* Every stored invoice is one Stripe made for the organization and month, and
\* the items of the start that asked for it are exactly the positive charges of
\* the stored line_items, wherever they are by now: the row shows no charge the
\* customer is spared, and that start made none the row does not show.
RowIsCovered ==
  \A r \in rows : \E v \in invoices :
    /\ v.id = r.id
    /\ v.month = r.month
    /\ Ledger!Charged(v.id.org, v.start) = Ledger!Told(r.month, r.bill.charge)

\* One process start makes at most one invoice for an organization.
OneInvoicePerStart ==
  \A v, w \in invoices : v.id.org = w.id.org /\ v.start = w.start => v = w

\* No charge is doubled within a start: whichever calls fail or lose their
\* answers, and whenever Stripe takes items up, a process start makes at most
\* one item of a kind for an organization, which is pending or on one invoice.
ItemChargedOnce ==
  \A i, j \in items :
    i.org = j.org /\ i.start = j.start /\ i.kind = j.kind => i = j

\* A row says paid or payment_failed only if Stripe said so of that invoice,
\* whatever the order, repetition or loss of the events, and no two rows share
\* a Stripe invoice, so an event updates at most one of them.
StatusJustified ==
  /\ \A r \in rows :
       /\ r.status = "paid" => Sent("invoice.paid", r.id)
       /\ r.status = "payment_failed" => Sent("invoice.payment_failed", r.id)
  /\ \A r, q \in rows : r.id = q.id => r = q

Settled(o) ==
  \E r \in rows, v \in invoices : r.id = v.id /\ v.id.org = o /\ v.start = starts

\* The failure of one organization costs no other its invoice: when a start
\* reports success, every organization it selected and reached, whose bill was
\* not zero and none of whose own calls failed, has a stored invoice of this
\* start.
UndisturbedAreBilled == phase = "done" => \A o \in owed : Settled(o)

\* A process that is not killed finishes: no organization is handled for ever
\* and none is taken up twice.
ProcessEnds == phase \in Running ~> phase \notin Running

\* The steps a running start has still to take, at most: nine for each
\* organization the loop has not reached, and what is left for the current one.
StepsLeft ==
  CASE phase = "select"    -> 9 * Cardinality(Orgs) + 2
    [] phase = "loop"      -> 9 * Cardinality(todo) + 1
    [] phase = "calculate" -> 9 * Cardinality(todo) + 9
    [] phase = "customer"  -> 9 * Cardinality(todo) + 8
    [] phase = "items"     -> 9 * Cardinality(todo) + 8 - at
    [] phase = "invoice"   -> 9 * Cardinality(todo) + 3
    [] phase = "store"     -> 9 * Cardinality(todo) + 2
    [] OTHER               -> 0

\* The loop never goes back: a step of a running start, or its death, brings it
\* nearer to its end, and no step of Stripe, of a webhook handler or of another
\* service sets it back.
Descends ==
  phase \in Running => UNCHANGED <<process, phase>> \/ StepsLeft' < StepsLeft

StartDescends == [][Descends]_vars

-----------------------------------------------------------------------------
(* The inductive invariant behind these properties.                        *)

\* Nothing at Stripe belongs to a start to come or has a number to come.
NumberedByStart ==
  /\ \A i \in items : i.start <= starts /\ i.invoice <= objects[i.org]
  /\ \A v \in invoices : v.start <= starts /\ v.id.number <= objects[v.id.org]

Invoiced(o) == \E v \in invoices : v.id.org = o /\ v.start = starts

\* The running start has made nothing yet for an organization it did not reach.
Untouched(o) ==
  /\ ~Invoiced(o)
  /\ \A i \in items : i.org = o => i.start # starts

FreshWork ==
  /\ phase = "select" => \A o \in Orgs : Untouched(o)
  /\ phase \in Running => \A o \in todo \ {org} : Untouched(o)
  /\ phase \in {"calculate", "customer", "items", "invoice", "store"} => org \notin todo
  /\ phase = "loop" /\ org \in todo => Untouched(org)
  /\ phase \in {"calculate", "customer"} => Untouched(org)

\* The positive charges among the first n - 1 in the order of creation.
ChargesBefore(n) ==
  {<<month, ItemOrder[i], bill.charge[ItemOrder[i]]>> :
     i \in {j \in 1..4 : j < n /\ bill.charge[ItemOrder[j]] > 0}}

\* Before item n of the running start is created its items are the ones before
\* it, and there is no invoice.
ItemsUpTo(n) ==
  /\ ~Invoiced(org)
  /\ Ledger!Charged(org, starts) = ChargesBefore(n)

ItemProgress ==
  /\ phase = "items" => at <= 4 /\ ItemsUpTo(at)
  /\ phase = "invoice" => ItemsUpTo(5)
  /\ phase = "store" =>
       /\ \A r \in rows : r.id # ThisInvoice
       /\ \E v \in invoices : v.id = ThisInvoice /\ v.start = starts /\ v.month = month
       /\ Ledger!Charged(org, starts) = Ledger!Told(month, bill.charge)

\* The organizations of owed the start is through with are settled.
OwedProgress ==
  /\ phase \in {"loop", "done"} => \A o \in owed \ todo : Settled(o)
  /\ phase \in {"calculate", "customer", "items", "invoice", "store"} =>
       \A o \in owed \ (todo \cup {org}) : Settled(o)
  /\ phase = "done" => owed \cap todo = {}

\* The inductive invariant: how far the running start has come with each
\* organization, beside the properties that follow from it.
IInv ==
  /\ TypeOK
  /\ NumberedByStart
  /\ FreshWork
  /\ ItemProgress
  /\ OwedProgress
  /\ RowIsCovered
  /\ OneInvoicePerStart
  /\ ItemChargedOnce
  /\ StatusJustified

-----------------------------------------------------------------------------
(* What the repository says of the job and the code does not do.           *)

\* cmd/billingcron/main.go:14, "billingcron triggers monthly billing once": no
\* organization is charged for the same thing twice in a month.
BilledOncePerMonth ==
  \A i, j \in items :
    /\ i.org = j.org /\ i.month = j.month /\ i.kind = j.kind
    /\ i.invoice # 0 /\ j.invoice # 0
    => i = j

\* meter.go:173, "GenerateStripeInvoice creates a Stripe invoice for the monthly
\* bill": the items on a stored invoice are the charges of its bill.
InvoiceIsForItsBill ==
  \A r \in rows :
    {<<i.month, i.kind, i.cents>> :
       i \in {j \in items : j.org = r.id.org /\ j.invoice = r.id.number}}
      = Ledger!Told(r.month, r.bill.charge)

=============================================================================
