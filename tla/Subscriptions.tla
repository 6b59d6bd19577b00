--------------------------- MODULE Subscriptions ---------------------------
(***************************************************************************)
(* How organizations get a subscription and change it: CreateOrganization, *)
(* UpdateSubscription, CreateCheckoutSession and the webhook handler of    *)
(* billing-service/service.go, run by the service's replicas at the same   *)
(* time for any number of requests.                                        *)
(*                                                                         *)
(* No handler uses a transaction or undoes what it did.  Each call to the  *)
(* database or to Stripe is a step, and each may fail, with or without its *)
(* effect; the handler then answers an error and leaves the rest as it is. *)
(*                                                                         *)
(* Stripe is external: it numbers its subscriptions, changes their status  *)
(* by itself and tells so in events that arrive late, repeatedly, in any   *)
(* order or never.                                                         *)
(***************************************************************************)
EXTENDS Sequences, Naturals, FiniteSets

CONSTANTS
  SignUp,    \* CreateOrganization requests; each makes an organization id
  Slug,      \* values of organizations.slug
  SlugOf,    \* slug of the name each request gives
  Update,    \* UpdateSubscription requests
  Plan,      \* plan strings requests may name
  Priced,    \* those with a price for UpdateSubscription (getPlanPriceID)
  Offered,   \* those with a price for CreateCheckoutSession
  MaxStripe  \* bound on subscriptions created, sessions opened and events sent

ASSUME SubscriptionsAssumption ==
  /\ SlugOf \in [SignUp -> Slug]
  /\ "free" \in Plan
  /\ Priced \subseteq Plan \ {"free"}
  /\ Offered \subseteq Plan
  /\ MaxStripe \in Nat

VARIABLES
  \* the billing database
  organization,  \* the sign-ups whose organizations row exists
  subscription,  \* subscriptions: at most one row per organization
  \* the handlers
  signUp,        \* where each CreateOrganization request is
  update,        \* where each UpdateSubscription request is, and its data
  \* Stripe
  sessions,      \* open checkout sessions
  stripe,        \* the subscriptions, numbered from 1
  events         \* webhook events sent

db == <<organization, subscription>>
handlers == <<signUp, update>>
external == <<sessions, stripe, events>>
vars == <<db, handlers, external>>

-----------------------------------------------------------------------------
(* Types and initial states.                                               *)

StripeStatus == {"active", "past_due", "canceled"}

\* The id of a row without a Stripe subscription: NULL or the empty string.
NoId == 0

ListedPlan == {"free", "essential", "business", "enterprise"}

LimitsOfUnchecked(p) == p  \* variant: the map lookup's ok is ignored

\* getPlanLimits: the plan whose limits are stored for a plan string.
LimitsOf(p) == IF p \in ListedPlan THEN p ELSE "free"

Row == [plan : Plan, id : Nat, limits : ListedPlan, status : StripeStatus]

\* Between INSERT INTO organizations and INSERT INTO subscriptions, or after
\* the second one failed.
NoRow == [plan |-> "free", id |-> NoId, limits |-> "free", status |-> "missing"]

DefaultRow == [plan |-> "free", id |-> NoId, limits |-> "free", status |-> "active"]

UpdatePhase == {"new", "stripe", "store", "updated", "failed"}

UpdateState == [phase : UpdatePhase, org : SignUp, plan : Plan, id : Nat]

StripeSubscription == [org : SignUp, plan : Plan, status : StripeStatus]

EventType == {"customer.subscription.updated", "customer.subscription.deleted",
              "checkout.session.completed"}

Event == [type : EventType, id : Nat, status : StripeStatus]

\* Tables, requests and Stripe's objects are well formed.
TypeOK ==
  /\ organization \subseteq SignUp
  /\ subscription \in [SignUp -> Row \cup {NoRow}]
  /\ signUp \in [SignUp -> {"new", "customer", "organization", "done", "failed"}]
  /\ update \in [Update -> UpdateState]
  /\ sessions \subseteq [org : SignUp, plan : Plan]
  /\ stripe \in Seq(StripeSubscription)
  /\ events \subseteq Event

\* No organization yet; the requests to come name any organization and plan.
Init ==
  /\ organization = {}
  /\ subscription = [s \in SignUp |-> NoRow]
  /\ signUp = [s \in SignUp |-> "new"]
  /\ update \in [Update -> [phase : {"new"}, org : SignUp, plan : Plan, id : {NoId}]]
  /\ sessions = {}
  /\ stripe = <<>>
  /\ events = {}

-----------------------------------------------------------------------------
(* CreateOrganization.                                                     *)

SignUpStep(s, from, to) ==
  /\ signUp[s] = from
  /\ signUp' = [signUp EXCEPT ![s] = to]
  /\ UNCHANGED <<update, external>>

CreateCustomer(s) ==
  /\ SignUpStep(s, "new", "customer")
  /\ UNCHANGED db

\* Variant: slugs are not unique.
InsertOrganizationAgain(s) ==
  /\ SignUpStep(s, "customer", "organization")
  /\ organization' = organization \cup {s}
  /\ UNCHANGED subscription

\* The slug is unique.
InsertOrganization(s) ==
  /\ SignUpStep(s, "customer", "organization")
  /\ \A t \in organization : SlugOf[t] # SlugOf[s]
  /\ organization' = organization \cup {s}
  /\ UNCHANGED subscription

InsertSubscription(s) ==
  /\ SignUpStep(s, "organization", "done")
  /\ subscription' = [subscription EXCEPT ![s] = DefaultRow]
  /\ UNCHANGED organization

\* A call failed or the replica was killed: earlier effects stay, and the
\* organizations row keeps its slug.  An INSERT that took effect although its
\* answer is lost is the INSERT followed by this step, or by nothing.
SignUpFails(s) ==
  /\ \E from \in {"new", "customer", "organization"} : SignUpStep(s, from, "failed")
  /\ UNCHANGED db

-----------------------------------------------------------------------------
(* UpdateSubscription.                                                     *)

UpdateStep(u, from, to) ==
  /\ update[u].phase = from
  /\ update' = [update EXCEPT ![u].phase = to]

\* The organization's Stripe customer is looked up.  A client knows the id of an
\* organization only from the answer of CreateOrganization.
BeginUpdate(u) ==
  /\ signUp[update[u].org] = "done"
  /\ \/ update[u].plan = "free" /\ UpdateStep(u, "new", "store")
     \/ update[u].plan \in Priced /\ UpdateStep(u, "new", "stripe")
  /\ UNCHANGED <<db, signUp, external>>

\* No such organization, no price for the plan, or a call failed before it had
\* an effect.
UpdateFails(u) ==
  /\ \E from \in {"new", "stripe", "store"} : UpdateStep(u, from, "failed")
  /\ UNCHANGED <<db, signUp, external>>

NewStripeSubscription(o, p) ==
  /\ Len(stripe) < MaxStripe
  /\ stripe' = Append(stripe, [org |-> o, plan |-> p, status |-> "active"])

\* A new Stripe subscription every time; the one the row holds is not read.
CreateStripeSubscription(u) ==
  /\ update[u].phase = "stripe"
  /\ NewStripeSubscription(update[u].org, update[u].plan)
  /\ update' = [update EXCEPT ![u].phase = "store", ![u].id = Len(stripe) + 1]
  /\ UNCHANGED <<db, signUp, sessions, events>>

\* Stripe created it, but the answer is lost.
StripeAnswerLost(u) ==
  /\ NewStripeSubscription(update[u].org, update[u].plan)
  /\ UpdateStep(u, "stripe", "failed")
  /\ UNCHANGED <<db, signUp, sessions, events>>

\* Variant: the id is only written when there is one.
StoredRowKeepsId(row, u) ==
  [row EXCEPT !.plan = update[u].plan,
              !.id = IF update[u].id = NoId THEN @ ELSE update[u].id,
              !.limits = LimitsOf(update[u].plan)]

\* The columns the UPDATE sets; the status is not one of them.
StoredRow(row, u) ==
  [row EXCEPT !.plan = update[u].plan,
              !.id = update[u].id,
              !.limits = LimitsOf(update[u].plan)]

\* Variant: an UPDATE whose answer is lost is sent again.
StoreSubscriptionRetries(u) ==
  /\ \E to \in {"updated", "store"} : UpdateStep(u, "store", to)
  /\ subscription' = [subscription EXCEPT ![update[u].org] = StoredRow(@, u)]
  /\ UNCHANGED <<organization, signUp, external>>

\* The outcome of the UPDATE reaches the handler, or is lost.
StoreSubscription(u) ==
  /\ \E to \in {"updated", "failed"} : UpdateStep(u, "store", to)
  /\ subscription' = [subscription EXCEPT ![update[u].org] = StoredRow(@, u)]
  /\ UNCHANGED <<organization, signUp, external>>

-----------------------------------------------------------------------------
(* Checkout, Stripe and the webhook.                                       *)

\* CreateCheckoutSession looks the price up in a table of its own and asks Stripe
\* for a session.  An organization that does not exist, or not yet, is no error:
\* the session has no customer then and names the organization in its metadata.
CreateCheckoutSession(o, p) ==
  /\ p \in Offered
  /\ Cardinality(sessions) + Len(stripe) < MaxStripe
  /\ sessions' = sessions \cup {[org |-> o, plan |-> p]}
  /\ UNCHANGED <<db, handlers, stripe, events>>

Send(type, id, s) == events' = events \cup {[type |-> type, id |-> id, status |-> s]}

CompleteCheckout(c) ==
  /\ c \in sessions
  /\ sessions' = sessions \ {c}
  /\ NewStripeSubscription(c.org, c.plan)
  /\ Send("checkout.session.completed", Len(stripe) + 1, "active")
  /\ UNCHANGED <<db, handlers>>

\* A payment fails, or a late one succeeds.
StripeUpdates(i, s) ==
  /\ stripe[i].status # "canceled"
  /\ s \in {"active", "past_due"} \ {stripe[i].status}
  /\ Cardinality(events) < MaxStripe
  /\ stripe' = [stripe EXCEPT ![i].status = s]
  /\ Send("customer.subscription.updated", i, s)
  /\ UNCHANGED <<db, handlers, sessions>>

\* Stripe or an operator of the Stripe account ends the subscription.
StripeCancels(i) ==
  /\ stripe[i].status # "canceled"
  /\ Cardinality(events) < MaxStripe
  /\ stripe' = [stripe EXCEPT ![i].status = "canceled"]
  /\ Send("customer.subscription.deleted", i, "canceled")
  /\ UNCHANGED <<db, handlers, sessions>>

\* Variant: the UPDATE has no WHERE clause.
SetStatusEverywhere(id, s) ==
  subscription' = [o \in SignUp |->
    IF subscription[o] # NoRow
    THEN [subscription[o] EXCEPT !.status = s]
    ELSE subscription[o]]

SetStatus(id, s) ==
  subscription' = [o \in SignUp |->
    IF subscription[o].id = id
    THEN [subscription[o] EXCEPT !.status = s]
    ELSE subscription[o]]

\* handleSubscriptionUpdated; all other types are logged and acknowledged.
HandleEvent(e) ==
  /\ e \in events
  /\ IF e.type = "customer.subscription.updated"
     THEN SetStatus(e.id, e.status)
     ELSE UNCHANGED subscription
  /\ UNCHANGED <<organization, handlers, external>>

-----------------------------------------------------------------------------
(* The specification.                                                      *)

Next ==
  \/ \E s \in SignUp :
       \/ CreateCustomer(s) \/ InsertOrganization(s)
       \/ InsertSubscription(s) \/ SignUpFails(s)
  \/ \E u \in Update :
       \/ BeginUpdate(u) \/ UpdateFails(u)
       \/ CreateStripeSubscription(u) \/ StripeAnswerLost(u)
       \/ StoreSubscription(u)
  \/ \E o \in SignUp, p \in Plan : CreateCheckoutSession(o, p)
  \/ \E c \in sessions : CompleteCheckout(c)
  \/ \E i \in DOMAIN stripe :
       \/ \E s \in StripeStatus : StripeUpdates(i, s)
       \/ StripeCancels(i)
  \/ \E e \in events : HandleEvent(e)

Spec == Init /\ [][Next]_vars

-----------------------------------------------------------------------------
(* What the handlers guarantee.                                            *)

\* However requests and events interleave and fail, a row stems from one
\* request: its plan, its limits and its Stripe subscription belong together,
\* and the subscription is one of the organization's own customer.
RowIsOneRequests ==
  \A o \in SignUp : LET row == subscription[o] IN
    /\ row.limits = LimitsOf(row.plan)
    /\ row.id = NoId <=> row.plan = "free"
    /\ row.id # NoId =>
         /\ row.id \in DOMAIN stripe
         /\ stripe[row.id].org = o
         /\ stripe[row.id].plan = row.plan

\* A row is past_due only if Stripe said so of a subscription of the same
\* organization, not necessarily of the one the row holds now.
StatusReported ==
  \A o \in SignUp : subscription[o].status = "past_due" =>
    \E e \in events :
      /\ e.type = "customer.subscription.updated"
      /\ e.status = "past_due"
      /\ stripe[e.id].org = o

\* An organizations row without a subscriptions row is a sign-up that is still
\* running or that failed, and its slug is taken for good.
SubscriptionMissingOnlyAfterFailure ==
  /\ \A o \in organization : subscription[o] = NoRow =>
       signUp[o] \in {"organization", "failed"}
  /\ \A o, t \in organization : SlugOf[o] = SlugOf[t] => o = t

\* The Stripe subscriptions running requests are about to put into a row.
Waiting == {update[u].id : u \in {w \in Update : update[w].phase = "store"}} \ {NoId}

\* Seen from the tables a change of plan is one step: whatever calls fail and
\* however requests interleave, plan, limits and Stripe subscription change
\* together, a report changes one row, and a subscription that was replaced is
\* never put back.
Book == INSTANCE SubscriptionBook WITH waiting <- Waiting, Sold <- Priced \cup Offered

ImplementsBook == Book!Spec

-----------------------------------------------------------------------------
(* The inductive invariant behind these properties.                        *)

\* The subscription a request holds is of its own organization and plan; one
\* about to store holds one, or none for the free plan.
UpdateHoldsItsSubscription ==
  \A u \in Update : LET q == update[u] IN
    /\ q.phase = "new" => q.id = NoId
    /\ q.phase = "stripe" => q.plan \in Priced
    /\ q.phase \in {"stripe", "store"} => signUp[q.org] = "done"
    /\ q.phase = "store" => (q.id = NoId <=> q.plan = "free")
    /\ q.id # NoId =>
         /\ q.id \in DOMAIN stripe
         /\ stripe[q.id].org = q.org
         /\ stripe[q.id].plan = q.plan

\* No two requests hold one Stripe subscription.
HeldOnce ==
  \A u, w \in Update : update[u].id = update[w].id /\ u # w => update[u].id = NoId

\* Checkouts are for plans that are offered.
SessionsAreOffered == \A c \in sessions : c.plan \in Offered

EventsAreOfSubscriptions == \A e \in events : e.id \in DOMAIN stripe

\* How far a sign-up is tells which of its rows exist.
SignUpProgress ==
  \A s \in SignUp :
    /\ signUp[s] \in {"new", "customer"} => s \notin organization
    /\ signUp[s] \in {"organization", "done"} => s \in organization
    /\ signUp[s] = "done" <=> subscription[s] # NoRow

\* The inductive invariant: what the running requests and the events hold of
\* Stripe's subscriptions, beside the properties.
IInv ==
  /\ TypeOK
  /\ UpdateHoldsItsSubscription
  /\ HeldOnce
  /\ SessionsAreOffered
  /\ EventsAreOfSubscriptions
  /\ SignUpProgress
  /\ RowIsOneRequests
  /\ StatusReported
  /\ SubscriptionMissingOnlyAfterFailure

-----------------------------------------------------------------------------
(* What the repository says and the code does not do.                      *)

Live(i) == stripe[i].status # "canceled"

\* service.go: "Create/update Stripe subscription if not free".  When every
\* request of an organization was answered as updated, the only live Stripe
\* subscription of the organization is the one its row holds.
OnlyTheRowsSubscriptionIsLive ==
  \A o \in organization :
    (\A u \in Update : update[u].org = o => update[u].phase = "updated") =>
      \A i \in DOMAIN stripe :
        stripe[i].org = o /\ Live(i) => subscription[o].id = i
=============================================================================
