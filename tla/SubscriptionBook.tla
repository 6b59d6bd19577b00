--------------------------- MODULE SubscriptionBook ---------------------------
(***************************************************************************)
(* What the subscriptions API promises of its tables, without the requests *)
(* behind it: an organization gets one row, a change of plan replaces plan,*)
(* limits and Stripe subscription in one step and keeps the status, and a  *)
(* Stripe subscription is put into the row of its own organization, at     *)
(* most once, so that one that was replaced never returns.  Subscriptions, *)
(* which implements it, assumes what the constants must satisfy.           *)
(***************************************************************************)
EXTENDS Sequences, Naturals

CONSTANTS
  SignUp,     \* organizations to come
  SlugOf,     \* the slug of each
  Sold,       \* plan strings with a Stripe price
  ListedPlan  \* plans with limits of their own

VARIABLES
  organization,  \* those that exist
  subscription,  \* the row of each
  stripe,        \* the subscriptions sold, numbered from 1
  events,        \* what was reported of them
  waiting        \* numbers that may still be put into a row

NoRow == [plan |-> "free", id |-> 0, limits |-> "free", status |-> "missing"]

Init ==
  /\ organization = {}
  /\ subscription = [s \in SignUp |-> NoRow]
  /\ stripe = <<>>
  /\ events = {}
  /\ waiting = {}

Found(s) ==
  /\ \A t \in organization : t # s /\ SlugOf[t] # SlugOf[s]
  /\ organization' = organization \cup {s}
  /\ UNCHANGED <<subscription, stripe, events, waiting>>

SetRow(o, row) ==
  /\ subscription' = [subscription EXCEPT ![o] = row]
  /\ UNCHANGED <<organization, stripe, events>>

Enroll(s) ==
  /\ s \in organization
  /\ subscription[s] = NoRow
  /\ SetRow(s, [NoRow EXCEPT !.status = "active"])
  /\ UNCHANGED waiting

\* A request of an organization with a row may put the new subscription into it;
\* a checkout, or a request that lost Stripe's answer, never does.
Sell(o, p) == LET n == Len(stripe) + 1 IN
  /\ stripe' = Append(stripe, [org |-> o, plan |-> p, status |-> "active"])
  /\ \/ /\ subscription[o] # NoRow
        /\ waiting' \in {waiting, waiting \cup {n}}
        /\ UNCHANGED events
     \/ /\ events' = events \cup
             {[type |-> "checkout.session.completed", id |-> n, status |-> "active"]}
        /\ UNCHANGED waiting
  /\ UNCHANGED <<organization, subscription>>

\* The row changes to a subscription that was waiting for it, or to none.
Switch(id) == LET o == stripe[id].org  p == stripe[id].plan IN
  /\ SetRow(o, [subscription[o] EXCEPT
       !.plan = p, !.id = id, !.limits = IF p \in ListedPlan THEN p ELSE "free"])
  /\ waiting' = waiting \ {id}

SwitchToFree(o) ==
  /\ subscription[o] # NoRow
  /\ SetRow(o, [subscription[o] EXCEPT !.plan = "free", !.id = 0, !.limits = "free"])
  /\ UNCHANGED waiting

GiveUp(id) ==
  /\ waiting' = waiting \ {id}
  /\ UNCHANGED <<organization, subscription, stripe, events>>

\* The status of a subscription changes, until it is canceled, and is reported.
Turn(i, s) ==
  /\ stripe[i].status \notin {s, "canceled"}
  /\ stripe' = [stripe EXCEPT ![i].status = s]
  /\ events' = events \cup
       {[type |-> IF s = "canceled" THEN "customer.subscription.deleted"
                                    ELSE "customer.subscription.updated",
         id |-> i, status |-> s]}
  /\ UNCHANGED <<organization, subscription, waiting>>

\* A report changes one row: of the organization the subscription is of, while
\* that row holds the subscription.
Reflect(e) == LET o == stripe[e.id].org IN
  /\ e.type = "customer.subscription.updated"
  /\ subscription[o].id = e.id
  /\ SetRow(o, [subscription[o] EXCEPT !.status = e.status])
  /\ UNCHANGED waiting

Next ==
  \/ \E s \in SignUp : Found(s) \/ Enroll(s) \/ SwitchToFree(s)
  \/ \E s \in SignUp, p \in Sold : Sell(s, p)
  \/ \E id \in waiting : Switch(id) \/ GiveUp(id)
  \/ \E i \in DOMAIN stripe, s \in {"active", "past_due", "canceled"} : Turn(i, s)
  \/ \E e \in events : Reflect(e)

Spec == Init /\ [][Next]_<<organization, subscription, stripe, events, waiting>>
=============================================================================
