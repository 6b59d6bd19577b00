------------------------- MODULE SubscriptionsProofs -------------------------
(***************************************************************************)
(* Subscriptions keeps its inductive invariant for any number of sign-ups, *)
(* requests, plans and Stripe subscriptions: a subscriptions row stems     *)
(* from one request, its status was reported by Stripe, and it is missing  *)
(* only where a sign-up failed.                                            *)
(***************************************************************************)
EXTENDS Subscriptions, TLAPS

\* Numbered subscriptions stay when another one is appended.
LEMMA AppendedSubscription ==
  ASSUME NEW o \in SignUp, NEW p \in Plan, stripe \in Seq(StripeSubscription),
         NewStripeSubscription(o, p)
  PROVE  /\ stripe' \in Seq(StripeSubscription)
         /\ DOMAIN stripe' = 1..(Len(stripe) + 1)
         /\ DOMAIN stripe = 1..Len(stripe)
         /\ Len(stripe) \in Nat
         /\ stripe'[Len(stripe) + 1] = [org |-> o, plan |-> p, status |-> "active"]
         /\ \A i \in DOMAIN stripe : i \in DOMAIN stripe' /\ stripe'[i] = stripe[i]
<1> DEFINE new == [org |-> o, plan |-> p, status |-> "active"]
<1>1. new \in StripeSubscription
  BY DEF StripeSubscription, StripeStatus
<1>2. stripe' = Append(stripe, new)
  BY DEF NewStripeSubscription
<1> HIDE DEF new
<1>3. stripe' \in Seq(StripeSubscription) /\ Len(stripe') = Len(stripe) + 1
  BY <1>1, <1>2
<1>4. DOMAIN stripe' = 1..(Len(stripe) + 1) /\ DOMAIN stripe = 1..Len(stripe)
  BY <1>3
<1>5. \A i \in 1..Len(stripe) : stripe'[i] = stripe[i]
  BY <1>1, <1>2
<1>6. stripe'[Len(stripe) + 1] = new
  BY <1>1, <1>2
<1> QED
  BY <1>3, <1>4, <1>5, <1>6 DEF new

LEMMA InitHolds == SubscriptionsAssumption /\ Init => IInv
<1> SUFFICES ASSUME SubscriptionsAssumption, Init PROVE IInv
  OBVIOUS
<1> USE DEF Init
<1>1. TypeOK
  <2>1. stripe \in Seq(StripeSubscription)
    OBVIOUS
  <2>2. update \in [Update -> UpdateState]
    BY DEF UpdateState, UpdatePhase, NoId
  <2> QED
    BY <2>1, <2>2 DEF TypeOK
<1>2. /\ UpdateHoldsItsSubscription /\ HeldOnce
      /\ SessionsAreOffered /\ EventsAreOfSubscriptions
  BY DEF UpdateHoldsItsSubscription, HeldOnce, SessionsAreOffered, EventsAreOfSubscriptions
<1>3. SignUpProgress
  BY DEF SignUpProgress
<1>4. RowIsOneRequests
  BY DEF RowIsOneRequests, NoRow, LimitsOf, NoId, ListedPlan
<1>5. StatusReported /\ SubscriptionMissingOnlyAfterFailure
  BY DEF StatusReported, SubscriptionMissingOnlyAfterFailure, NoRow
<1> QED
  BY <1>1, <1>2, <1>3, <1>4, <1>5 DEF IInv

\* The steps of CreateOrganization.
LEMMA SignUpKeepsIInv ==
  ASSUME SubscriptionsAssumption, IInv, NEW s \in SignUp,
         \/ CreateCustomer(s) \/ InsertOrganization(s)
         \/ InsertSubscription(s) \/ SignUpFails(s)
  PROVE  IInv'
<1> USE DEF IInv
<1>1. UNCHANGED <<update, external>>
  BY DEF CreateCustomer, InsertOrganization, InsertSubscription, SignUpFails, SignUpStep
<1>2. PICK from \in {"new", "customer", "organization"},
           to \in {"customer", "organization", "done", "failed"} :
        /\ signUp[s] = from
        /\ signUp' = [signUp EXCEPT ![s] = to]
        /\ <<from, to>> \in {<<"new", "customer">>, <<"customer", "organization">>,
             <<"organization", "done">>} \/ to = "failed"
  BY DEF CreateCustomer, InsertOrganization, InsertSubscription, SignUpFails, SignUpStep
<1>3. \/ UNCHANGED subscription /\ to # "done"
      \/ subscription' = [subscription EXCEPT ![s] = DefaultRow] /\ to = "done"
  BY <1>2 DEF CreateCustomer, InsertOrganization, InsertSubscription, SignUpFails,
              SignUpStep, db, TypeOK
<1>4. \/ UNCHANGED organization /\ to # "organization"
      \/ /\ organization' = organization \cup {s}
         /\ to = "organization"
         /\ \A t \in organization : SlugOf[t] # SlugOf[s]
  BY <1>2 DEF CreateCustomer, InsertOrganization, InsertSubscription, SignUpFails,
              SignUpStep, db, TypeOK
<1>5. DefaultRow \in Row /\ DefaultRow # NoRow
  BY DEF DefaultRow, Row, NoRow, NoId, ListedPlan, StripeStatus, SubscriptionsAssumption
<1>6. TypeOK'
  BY <1>1, <1>2, <1>3, <1>4, <1>5 DEF TypeOK, external
<1>7. UpdateHoldsItsSubscription' /\ HeldOnce' /\ SessionsAreOffered'
  BY <1>1, <1>2 DEF UpdateHoldsItsSubscription, HeldOnce, SessionsAreOffered, external,
                    TypeOK, UpdateState
<1>8. EventsAreOfSubscriptions'
  BY <1>1 DEF EventsAreOfSubscriptions, external
<1>9. SignUpProgress'
  BY <1>2, <1>3, <1>4, <1>5 DEF SignUpProgress, TypeOK
<1>10. RowIsOneRequests'
  BY <1>1, <1>3 DEF RowIsOneRequests, external, TypeOK, DefaultRow, LimitsOf, NoId, ListedPlan
<1>11. StatusReported'
  BY <1>1, <1>3 DEF StatusReported, external, TypeOK, DefaultRow
<1>12. SubscriptionMissingOnlyAfterFailure'
  BY <1>2, <1>3, <1>4, <1>5 DEF SubscriptionMissingOnlyAfterFailure, SignUpProgress, TypeOK
<1> QED
  BY <1>6, <1>7, <1>8, <1>9, <1>10, <1>11, <1>12

\* The steps of UpdateSubscription that leave the tables and Stripe alone.
LEMMA UpdatePhaseKeepsIInv ==
  ASSUME SubscriptionsAssumption, IInv, NEW u \in Update,
         BeginUpdate(u) \/ UpdateFails(u)
  PROVE  IInv'
<1> USE DEF IInv
<1>1. UNCHANGED <<db, signUp, external>>
  BY DEF BeginUpdate, UpdateFails
<1>2. PICK to \in UpdatePhase :
        /\ update' = [update EXCEPT ![u].phase = to]
        /\ to = "stripe" => update[u].plan \in Priced /\ signUp[update[u].org] = "done"
        /\ to = "store" => /\ update[u].plan = "free"
                           /\ update[u].phase = "new"
                           /\ signUp[update[u].org] = "done"
  BY DEF BeginUpdate, UpdateFails, UpdateStep, UpdatePhase, SubscriptionsAssumption
<1>3. TypeOK'
  BY <1>1, <1>2 DEF TypeOK, UpdateState, db, external
<1>4. update[u].phase = "new" => update[u].id = NoId
  BY DEF UpdateHoldsItsSubscription
<1>5. UpdateHoldsItsSubscription' /\ HeldOnce' /\ SessionsAreOffered'
  <2>1. /\ update'[u].phase = to
        /\ update'[u].org = update[u].org
        /\ update'[u].plan = update[u].plan
        /\ update'[u].id = update[u].id
        /\ \A v \in Update \ {u} : update'[v] = update[v]
    BY <1>2 DEF TypeOK, UpdateState
  <2>2. to # "new"
    BY <1>2 DEF BeginUpdate, UpdateFails, UpdateStep, TypeOK, UpdateState
  <2>3. UpdateHoldsItsSubscription'
    BY <1>1, <1>2, <1>4, <2>1, <2>2 DEF UpdateHoldsItsSubscription, external
  <2> QED
    BY <1>1, <2>1, <2>3 DEF HeldOnce, SessionsAreOffered, external
<1>6. /\ EventsAreOfSubscriptions' /\ SignUpProgress' /\ RowIsOneRequests'
      /\ StatusReported' /\ SubscriptionMissingOnlyAfterFailure'
  BY <1>1 DEF EventsAreOfSubscriptions, SignUpProgress, RowIsOneRequests,
              StatusReported, SubscriptionMissingOnlyAfterFailure, db, external
<1> QED
  BY <1>3, <1>5, <1>6

\* A request that gets the number of a new subscription stays well formed.
LEMMA HeldIdIsTyped ==
  ASSUME update \in [Update -> UpdateState], NEW u \in Update, NEW n \in Nat,
         update' = [update EXCEPT ![u].phase = "store", ![u].id = n]
  PROVE  update' \in [Update -> UpdateState]
BY DEF UpdateState, UpdatePhase

\* Stripe gets a new subscription: on behalf of a request, which then holds it
\* or has failed, or by a checkout.
LEMMA NewSubscriptionKeepsIInv ==
  ASSUME SubscriptionsAssumption, IInv, NEW o \in SignUp, NEW p \in Plan,
         NewStripeSubscription(o, p), UNCHANGED <<db, signUp>>,
         sessions' \subseteq sessions,
         \/ UNCHANGED <<update, events>>
         \/ /\ \E u \in Update : update' = [update EXCEPT ![u].phase = "failed"]
            /\ UNCHANGED events
         \/ /\ \E u \in Update :
                 /\ update[u].phase = "stripe"
                 /\ o = update[u].org /\ p = update[u].plan
                 /\ update' = [update EXCEPT ![u].phase = "store",
                                            ![u].id = Len(stripe) + 1]
            /\ UNCHANGED events
         \/ /\ UNCHANGED update
            /\ \E e \in Event :
                 /\ events' = events \cup {e}
                 /\ e.id = Len(stripe) + 1
  PROVE  IInv'
<1> USE DEF IInv
<1>1. stripe \in Seq(StripeSubscription)
  BY DEF TypeOK
<1> DEFINE n == Len(stripe) + 1
<1>2. /\ stripe' \in Seq(StripeSubscription)
      /\ n \in DOMAIN stripe'
      /\ n # NoId /\ n \in Nat
      /\ stripe'[n].org = o /\ stripe'[n].plan = p
      /\ \A i \in DOMAIN stripe : i \in DOMAIN stripe' /\ stripe'[i] = stripe[i]
  <2>1. /\ stripe' \in Seq(StripeSubscription)
        /\ DOMAIN stripe' = 1..n
        /\ Len(stripe) \in Nat
        /\ stripe'[n] = [org |-> o, plan |-> p, status |-> "active"]
        /\ \A i \in DOMAIN stripe : i \in DOMAIN stripe' /\ stripe'[i] = stripe[i]
    BY <1>1, AppendedSubscription
  <2>2. n \in Nat /\ n # NoId /\ n \in 1..n
    BY <2>1 DEF NoId
  <2> HIDE DEF n
  <2> QED
    BY <2>1, <2>2
<1> HIDE DEF n
<1>3. TypeOK'
  <2>1. update' \in [Update -> UpdateState]
    <3>1. update \in [Update -> UpdateState]
      BY DEF TypeOK
    <3>2. {"store", "failed"} \subseteq UpdatePhase
      BY DEF UpdatePhase
    <3>3. CASE \E u \in Update : update' = [update EXCEPT ![u].phase = "failed"]
      BY <3>1, <3>2, <3>3 DEF UpdateState
    <3>4. CASE \E u \in Update :
                 update' = [update EXCEPT ![u].phase = "store", ![u].id = n]
      BY <1>2, <3>1, <3>4, HeldIdIsTyped
    <3>5. CASE UNCHANGED update
      BY <3>1, <3>5
    <3> QED
      BY <3>3, <3>4, <3>5 DEF n
  <2>2. events' \subseteq Event
    BY DEF TypeOK
  <2> QED
    BY <1>2, <2>1, <2>2 DEF TypeOK, db
<1>4. UpdateHoldsItsSubscription' /\ HeldOnce'
  <2>1. CASE UNCHANGED update
    BY <2>1, <1>2 DEF UpdateHoldsItsSubscription, HeldOnce
  <2>2. CASE \E u \in Update : update' = [update EXCEPT ![u].phase = "failed"]
    <3>1. PICK u \in Update : update' = [update EXCEPT ![u].phase = "failed"]
      BY <2>2
    <3>2. /\ update'[u].phase = "failed" /\ update'[u].id = update[u].id
          /\ update'[u].org = update[u].org /\ update'[u].plan = update[u].plan
          /\ \A v \in Update \ {u} : update'[v] = update[v]
      BY <3>1 DEF TypeOK, UpdateState
    <3> QED
      BY <3>2, <1>2 DEF UpdateHoldsItsSubscription, HeldOnce
  <2>3. CASE \E u \in Update :
                 /\ update[u].phase = "stripe"
                 /\ o = update[u].org /\ p = update[u].plan
                 /\ update' = [update EXCEPT ![u].phase = "store", ![u].id = n]
    <3>1. PICK u \in Update :
                 /\ update[u].phase = "stripe"
                 /\ o = update[u].org /\ p = update[u].plan
                 /\ update' = [update EXCEPT ![u].phase = "store", ![u].id = n]
      BY <2>3
    <3>2. update[u].plan # "free" /\ signUp[update[u].org] = "done"
      BY <3>1 DEF UpdateHoldsItsSubscription, SubscriptionsAssumption
    <3>3. /\ update'[u].phase = "store" /\ update'[u].id = n
          /\ update'[u].org = o /\ update'[u].plan = p
          /\ \A v \in Update \ {u} : update'[v] = update[v]
      BY <3>1 DEF TypeOK, UpdateState
    <3>4. UpdateHoldsItsSubscription'
      <4> SUFFICES ASSUME NEW v \in Update
                   PROVE  LET q == update'[v] IN
                     /\ q.phase = "new" => q.id = NoId
                     /\ q.phase = "stripe" => q.plan \in Priced
                     /\ q.phase \in {"stripe", "store"} => signUp[q.org] = "done"
                     /\ q.phase = "store" => (q.id = NoId <=> q.plan = "free")
                     /\ q.id # NoId =>
                          /\ q.id \in DOMAIN stripe'
                          /\ stripe'[q.id].org = q.org
                          /\ stripe'[q.id].plan = q.plan
        BY DEF UpdateHoldsItsSubscription
      <4>1. CASE v = u
        BY <3>1, <3>2, <3>3, <4>1, <1>2
      <4>2. CASE v # u
        BY <3>3, <4>2, <1>2 DEF UpdateHoldsItsSubscription
      <4> QED
        BY <4>1, <4>2
    <3>5. n \notin DOMAIN stripe
      BY <1>1 DEF n
    <3>6. \A v \in Update \ {u} : update'[v].id # n
      BY <3>3, <3>5, <1>2 DEF UpdateHoldsItsSubscription
    <3>7. HeldOnce'
      BY <3>3, <3>6 DEF HeldOnce
    <3> QED
      BY <3>4, <3>7
  <2> QED
    BY <2>1, <2>2, <2>3 DEF n
<1>5. EventsAreOfSubscriptions'
  BY <1>2 DEF n, EventsAreOfSubscriptions
<1>6. SignUpProgress' /\ SubscriptionMissingOnlyAfterFailure'
  BY DEF SignUpProgress, SubscriptionMissingOnlyAfterFailure, db
<1>9. SessionsAreOffered'
  BY DEF SessionsAreOffered
<1>7. RowIsOneRequests'
  BY <1>2 DEF RowIsOneRequests, db
<1>8. StatusReported'
  BY <1>2 DEF StatusReported, EventsAreOfSubscriptions, db
<1> QED
  BY <1>3, <1>4, <1>5, <1>6, <1>7, <1>8, <1>9

\* The UPDATE of the subscriptions row.
LEMMA StoreKeepsIInv ==
  ASSUME SubscriptionsAssumption, IInv, NEW u \in Update, StoreSubscription(u)
  PROVE  IInv'
<1> USE DEF IInv
<1> DEFINE o == update[u].org
           row == subscription[o]
<1>1. /\ update[u].phase = "store"
      /\ UNCHANGED <<organization, signUp, external>>
      /\ subscription' = [subscription EXCEPT ![o] = StoredRow(row, u)]
      /\ \E to \in {"updated", "failed"} : update' = [update EXCEPT ![u].phase = to]
  BY DEF StoreSubscription, UpdateStep
<1>2. update[u] \in UpdateState
  BY DEF TypeOK
<1>3. o \in SignUp /\ signUp[o] = "done"
  BY <1>1, <1>2 DEF UpdateHoldsItsSubscription, UpdateState
<1>4. row \in Row
  BY <1>3 DEF SignUpProgress, TypeOK
<1>5. LimitsOf(update[u].plan) \in ListedPlan
  BY DEF LimitsOf, ListedPlan
<1> DEFINE new == StoredRow(row, u)
<1>6. /\ new \in Row
      /\ new.plan = update[u].plan
      /\ new.id = update[u].id
      /\ new.limits = LimitsOf(update[u].plan)
      /\ new.status = row.status
  BY <1>2, <1>4, <1>5 DEF StoredRow, Row, UpdateState
<1>7. new \in Row /\ new # NoRow
  BY <1>6 DEF Row, NoRow, StripeStatus
<1> HIDE DEF new
<1>8. TypeOK'
  BY <1>1, <1>7 DEF TypeOK, UpdateState, UpdatePhase, external, new
<1>9. UpdateHoldsItsSubscription' /\ HeldOnce' /\ SessionsAreOffered'
  BY <1>1 DEF UpdateHoldsItsSubscription, HeldOnce, SessionsAreOffered, TypeOK,
              UpdateState, external
<1>10. EventsAreOfSubscriptions'
  BY <1>1 DEF EventsAreOfSubscriptions, external
<1>11. SignUpProgress'
  BY <1>1, <1>3, <1>7 DEF SignUpProgress, TypeOK, new
<1>12. RowIsOneRequests'
  <2>1. /\ update[u].id = NoId <=> update[u].plan = "free"
        /\ update[u].id # NoId =>
             /\ update[u].id \in DOMAIN stripe
             /\ stripe[update[u].id].org = o
             /\ stripe[update[u].id].plan = update[u].plan
    BY <1>1 DEF UpdateHoldsItsSubscription
  <2> QED
    BY <1>1, <1>3, <1>6, <2>1 DEF RowIsOneRequests, TypeOK, external, new
<1>13. StatusReported'
  <2>1. \A q \in SignUp : subscription'[q].status = subscription[q].status
    BY <1>1, <1>3, <1>6 DEF TypeOK, new
  <2> QED
    BY <1>1, <2>1 DEF StatusReported, external
<1>14. SubscriptionMissingOnlyAfterFailure'
  BY <1>1, <1>3, <1>7 DEF SubscriptionMissingOnlyAfterFailure, TypeOK, new
<1> QED
  BY <1>8, <1>9, <1>10, <1>11, <1>12, <1>13, <1>14

\* Stripe changes the status of a subscription and tells so.
LEMMA StripeStatusKeepsIInv ==
  ASSUME SubscriptionsAssumption, IInv, NEW i \in DOMAIN stripe,
         StripeCancels(i) \/ \E s \in StripeStatus : StripeUpdates(i, s)
  PROVE  IInv'
<1> USE DEF IInv
<1>1. PICK s \in StripeStatus, t \in EventType :
        /\ stripe' = [stripe EXCEPT ![i].status = s]
        /\ Send(t, i, s)
        /\ UNCHANGED <<db, handlers, sessions>>
  BY DEF StripeCancels, StripeUpdates, StripeStatus, EventType
<1>2. stripe \in Seq(StripeSubscription)
  BY DEF TypeOK
<1>3. stripe[i] \in StripeSubscription /\ i \in Nat
  BY <1>2
<1>4. /\ stripe' \in Seq(StripeSubscription)
      /\ DOMAIN stripe' = DOMAIN stripe
      /\ \A j \in DOMAIN stripe :
           stripe'[j].org = stripe[j].org /\ stripe'[j].plan = stripe[j].plan
  <2>1. [stripe[i] EXCEPT !.status = s] \in StripeSubscription
    BY <1>3 DEF StripeSubscription
  <2>2. stripe' = [stripe EXCEPT ![i] = [stripe[i] EXCEPT !.status = s]]
    BY <1>1
  <2>3. \A j \in DOMAIN stripe : stripe[j] \in StripeSubscription
    BY <1>2
  <2>4. stripe' \in Seq(StripeSubscription) /\ DOMAIN stripe' = DOMAIN stripe
    BY <1>2, <2>1, <2>2
  <2>5. \A j \in DOMAIN stripe :
           stripe'[j].org = stripe[j].org /\ stripe'[j].plan = stripe[j].plan
    BY <2>2, <2>3 DEF StripeSubscription
  <2> QED
    BY <2>4, <2>5
<1>5. events' = events \cup {[type |-> t, id |-> i, status |-> s]}
  BY <1>1 DEF Send
<1>6. TypeOK'
  BY <1>1, <1>3, <1>4, <1>5 DEF TypeOK, Event, db, handlers
<1>7. UpdateHoldsItsSubscription' /\ HeldOnce' /\ SessionsAreOffered'
  BY <1>1, <1>4 DEF UpdateHoldsItsSubscription, HeldOnce, SessionsAreOffered, handlers
<1>8. EventsAreOfSubscriptions'
  BY <1>4, <1>5 DEF EventsAreOfSubscriptions
<1>9. SignUpProgress' /\ SubscriptionMissingOnlyAfterFailure'
  BY <1>1 DEF SignUpProgress, SubscriptionMissingOnlyAfterFailure, db, handlers
<1>10. RowIsOneRequests'
  BY <1>1, <1>4 DEF RowIsOneRequests, db
<1>11. StatusReported'
  BY <1>1, <1>4, <1>5 DEF StatusReported, EventsAreOfSubscriptions, db
<1> QED
  BY <1>6, <1>7, <1>8, <1>9, <1>10, <1>11

\* An event reaches the webhook.
LEMMA EventKeepsIInv ==
  ASSUME SubscriptionsAssumption, IInv, NEW e \in events, HandleEvent(e)
  PROVE  IInv'
<1> USE DEF IInv
<1>1. UNCHANGED <<organization, handlers, external>>
  BY DEF HandleEvent
<1>2. e \in Event /\ e.id \in DOMAIN stripe
  BY DEF TypeOK, EventsAreOfSubscriptions
<1>3. CASE UNCHANGED subscription
  BY <1>1, <1>3 DEF TypeOK, UpdateHoldsItsSubscription,
       HeldOnce, SessionsAreOffered, EventsAreOfSubscriptions, SignUpProgress,
       RowIsOneRequests, StatusReported,
       SubscriptionMissingOnlyAfterFailure, handlers, external
<1>4. CASE e.type = "customer.subscription.updated" /\ SetStatus(e.id, e.status)
  <2>1. \A o \in SignUp :
          subscription'[o] = IF subscription[o].id = e.id
                             THEN [subscription[o] EXCEPT !.status = e.status]
                             ELSE subscription[o]
    BY <1>4 DEF SetStatus
  <2>2. e.id # NoId
    <3>1. stripe \in Seq(StripeSubscription)
      BY DEF TypeOK
    <3> QED
      BY <1>2, <3>1 DEF NoId
  <2>3. \A o \in SignUp : subscription[o].id = e.id => subscription[o] \in Row
    BY <2>2 DEF TypeOK, NoRow, NoId
  <2>4. \A o \in SignUp : subscription'[o] \in Row \cup {NoRow}
    BY <1>2, <2>1, <2>3 DEF TypeOK, Row, Event
  <2>5. subscription' \in [SignUp -> Row \cup {NoRow}]
    BY <1>4, <2>4 DEF SetStatus
  <2>6. \A o \in SignUp :
          /\ subscription'[o].plan = subscription[o].plan
          /\ subscription'[o].id = subscription[o].id
          /\ subscription'[o].limits = subscription[o].limits
          /\ subscription'[o].status = IF subscription[o].id = e.id
                                       THEN e.status ELSE subscription[o].status
    BY <2>1, <2>3 DEF Row
  <2>7. \A o \in SignUp : subscription'[o] = NoRow <=> subscription[o] = NoRow
    <3> SUFFICES ASSUME NEW o \in SignUp
                 PROVE  subscription'[o] = NoRow <=> subscription[o] = NoRow
      OBVIOUS
    <3>1. CASE subscription[o].id = e.id
      <4>1. NoRow \notin Row
        BY DEF NoRow, Row, StripeStatus
      <4>2. subscription[o] \in Row /\ subscription'[o] \in Row
        BY <1>2, <2>1, <2>3, <3>1 DEF Row, Event
      <4> QED
        BY <4>1, <4>2
    <3>2. CASE subscription[o].id # e.id
      BY <2>1, <3>2
    <3> QED
      BY <3>1, <3>2
  <2>8. TypeOK'
    BY <1>1, <2>5 DEF TypeOK, handlers, external
  <2>9. /\ UpdateHoldsItsSubscription' /\ HeldOnce'
        /\ SessionsAreOffered' /\ EventsAreOfSubscriptions'
    BY <1>1 DEF UpdateHoldsItsSubscription, HeldOnce, SessionsAreOffered,
                EventsAreOfSubscriptions, handlers, external
  <2>10. SignUpProgress'
    BY <1>1, <2>7 DEF SignUpProgress, handlers
  <2>11. SubscriptionMissingOnlyAfterFailure'
    BY <1>1, <2>7 DEF SubscriptionMissingOnlyAfterFailure, handlers, TypeOK
  <2>12. RowIsOneRequests'
    BY <1>1, <2>6 DEF RowIsOneRequests, external
  <2>13. StatusReported'
    <3> SUFFICES ASSUME NEW o \in SignUp, subscription'[o].status = "past_due"
                 PROVE  \E f \in events :
                          /\ f.type = "customer.subscription.updated"
                          /\ f.status = "past_due"
                          /\ stripe[f.id].org = o
      BY <1>1 DEF StatusReported, external
    <3>1. CASE subscription[o].id = e.id
      <4>1. stripe[e.id].org = o
        BY <2>2, <3>1 DEF RowIsOneRequests
      <4>2. e.status = "past_due"
        BY <2>6, <3>1
      <4> QED
        BY <1>4, <4>1, <4>2
    <3>2. CASE subscription[o].id # e.id
      BY <2>6, <3>2 DEF StatusReported
    <3> QED
      BY <3>1, <3>2
  <2> QED
    BY <2>8, <2>9, <2>10, <2>11, <2>12, <2>13
<1> QED
  BY <1>3, <1>4 DEF HandleEvent

\* The invariant is inductive.
LEMMA StepKeepsIInv ==
  ASSUME SubscriptionsAssumption, IInv, [Next]_vars
  PROVE  IInv'
<1> USE SubscriptionsAssumption
<1>1. CASE UNCHANGED vars
  BY <1>1 DEF IInv, TypeOK, UpdateHoldsItsSubscription,
       HeldOnce, SessionsAreOffered, EventsAreOfSubscriptions, SignUpProgress,
       RowIsOneRequests, StatusReported,
       SubscriptionMissingOnlyAfterFailure, vars, db, handlers, external
<1>2. ASSUME NEW s \in SignUp,
             \/ CreateCustomer(s) \/ InsertOrganization(s)
             \/ InsertSubscription(s) \/ SignUpFails(s)
      PROVE  IInv'
  BY <1>2, SignUpKeepsIInv
<1>3. ASSUME NEW u \in Update, BeginUpdate(u) \/ UpdateFails(u)
      PROVE  IInv'
  BY <1>3, UpdatePhaseKeepsIInv
<1>4. ASSUME NEW u \in Update, CreateStripeSubscription(u)
      PROVE  IInv'
  <2>1. update[u].org \in SignUp /\ update[u].plan \in Plan
    BY DEF IInv, TypeOK, UpdateState
  <2>2. /\ NewStripeSubscription(update[u].org, update[u].plan)
        /\ UNCHANGED <<db, signUp>>
        /\ sessions' = sessions
        /\ update[u].phase = "stripe"
        /\ update' = [update EXCEPT ![u].phase = "store", ![u].id = Len(stripe) + 1]
        /\ UNCHANGED events
    BY <1>4 DEF CreateStripeSubscription
  <2> QED
    BY <2>1, <2>2, NewSubscriptionKeepsIInv
<1>5. ASSUME NEW u \in Update, StripeAnswerLost(u)
      PROVE  IInv'
  <2>1. update[u].org \in SignUp /\ update[u].plan \in Plan
    BY DEF IInv, TypeOK, UpdateState
  <2>2. /\ NewStripeSubscription(update[u].org, update[u].plan)
        /\ UNCHANGED <<db, signUp>>
        /\ sessions' = sessions
        /\ update' = [update EXCEPT ![u].phase = "failed"]
        /\ UNCHANGED events
    BY <1>5 DEF StripeAnswerLost, UpdateStep
  <2> QED
    BY <2>1, <2>2, NewSubscriptionKeepsIInv
<1>6. ASSUME NEW u \in Update, StoreSubscription(u)
      PROVE  IInv'
  BY <1>6, StoreKeepsIInv
<1>7. ASSUME NEW o \in SignUp, NEW p \in Plan, CreateCheckoutSession(o, p)
      PROVE  IInv'
  BY <1>7 DEF CreateCheckoutSession, IInv, TypeOK, UpdateHoldsItsSubscription,
       HeldOnce, SessionsAreOffered,
       EventsAreOfSubscriptions, SignUpProgress, RowIsOneRequests, StatusReported,
       SubscriptionMissingOnlyAfterFailure, db, handlers
<1>8. ASSUME NEW c \in sessions, CompleteCheckout(c)
      PROVE  IInv'
  <2>1. c.org \in SignUp /\ c.plan \in Plan
    BY DEF IInv, TypeOK
  <2> DEFINE e == [type |-> "checkout.session.completed", id |-> Len(stripe) + 1,
                   status |-> "active"]
  <2>2. Len(stripe) \in Nat
    BY DEF IInv, TypeOK
  <2>3. e \in Event /\ e.id = Len(stripe) + 1
    BY <2>2 DEF Event, EventType, StripeStatus
  <2>4. /\ NewStripeSubscription(c.org, c.plan)
        /\ UNCHANGED <<db, signUp, update>>
        /\ sessions' \subseteq sessions
        /\ events' = events \cup {e}
    BY <1>8 DEF CompleteCheckout, Send, handlers
  <2> QED
    BY <2>1, <2>3, <2>4, NewSubscriptionKeepsIInv
<1>9. ASSUME NEW i \in DOMAIN stripe,
             StripeCancels(i) \/ \E s \in StripeStatus : StripeUpdates(i, s)
      PROVE  IInv'
  BY <1>9, StripeStatusKeepsIInv
<1>10. ASSUME NEW e \in events, HandleEvent(e)
       PROVE  IInv'
  BY <1>10, EventKeepsIInv
<1> QED
  BY <1>1, <1>2, <1>3, <1>4, <1>5, <1>6, <1>7, <1>8, <1>9, <1>10 DEF Next

-----------------------------------------------------------------------------
(* The tables keep the book.                                               *)

\* A request that neither holds a subscription nor is about to store one, before
\* and after its step, leaves what is waiting.
LEMMA WaitingStays ==
  ASSUME update \in [Update -> UpdateState], NEW u \in Update, NEW to,
         update' = [update EXCEPT ![u].phase = to],
         update[u].id = NoId \/ (update[u].phase # "store" /\ to # "store")
  PROVE  Waiting' = Waiting
<1>1. \A w \in Update : update'[w].id = update[w].id
  BY DEF UpdateState
<1>2. /\ update'[u].phase = to
      /\ \A w \in Update \ {u} : update'[w].phase = update[w].phase
  BY DEF UpdateState
<1> QED
  BY <1>1, <1>2 DEF Waiting

\* A request that stores its subscription, or gives up, takes it off.
LEMMA WaitingLeaves ==
  ASSUME update \in [Update -> UpdateState], HeldOnce, NEW u \in Update, NEW to,
         update[u].phase = "store", to # "store",
         update' = [update EXCEPT ![u].phase = to]
  PROVE  Waiting' = Waiting \ {update[u].id}
<1>1. \A w \in Update : update'[w].id = update[w].id
  BY DEF UpdateState
<1>2. /\ update'[u].phase = to
      /\ \A w \in Update \ {u} : update'[w].phase = update[w].phase
  BY DEF UpdateState
<1>3. \A w \in Update \ {u} : update[w].id = update[u].id => update[u].id = NoId
  BY DEF HeldOnce
<1> QED
  BY <1>1, <1>2, <1>3 DEF Waiting

\* A request that gets a subscription puts it on.
LEMMA WaitingJoins ==
  ASSUME update \in [Update -> UpdateState], NEW u \in Update, NEW n \in Nat \ {NoId},
         update[u].phase = "stripe",
         update' = [update EXCEPT ![u].phase = "store", ![u].id = n]
  PROVE  Waiting' = Waiting \cup {n}
<1>1. /\ update'[u].phase = "store" /\ update'[u].id = n
      /\ \A w \in Update \ {u} : update'[w] = update[w]
  BY DEF UpdateState
<1> QED
  BY <1>1 DEF Waiting

\* A sign-up founds the organization, enrolls it, or changes no table.
LEMMA SignUpKeepsBook ==
  ASSUME IInv, NEW s \in SignUp,
         \/ CreateCustomer(s) \/ InsertOrganization(s)
         \/ InsertSubscription(s) \/ SignUpFails(s)
  PROVE  \/ UNCHANGED <<organization, subscription, stripe, events, Waiting>>
         \/ Book!Next
<1>1. UNCHANGED <<stripe, events, Waiting>>
  BY DEF CreateCustomer, InsertOrganization, InsertSubscription, SignUpFails, SignUpStep,
         external, Waiting
<1>2. CASE CreateCustomer(s) \/ SignUpFails(s)
  BY <1>1, <1>2 DEF CreateCustomer, SignUpFails, db
<1>3. CASE InsertOrganization(s)
  <2>1. s \notin organization
    BY <1>3 DEF InsertOrganization, SignUpStep, IInv, SignUpProgress
  <2>2. Book!Found(s)
    BY <1>1, <1>3, <2>1 DEF InsertOrganization, Book!Found
  <2> QED
    BY <2>2 DEF Book!Next
<1>4. CASE InsertSubscription(s)
  <2>1. s \in organization /\ subscription[s] = NoRow
    BY <1>4 DEF InsertSubscription, SignUpStep, IInv, SignUpProgress
  <2>2. /\ NoRow = Book!NoRow
        /\ DefaultRow = [Book!NoRow EXCEPT !.status = "active"]
    BY DEF NoRow, Book!NoRow, DefaultRow, NoId
  <2>3. Book!Enroll(s)
    BY <1>1, <1>4, <2>1, <2>2 DEF InsertSubscription, Book!Enroll, Book!SetRow
  <2> QED
    BY <2>3 DEF Book!Next
<1> QED
  BY <1>2, <1>3, <1>4

\* A subscription is only ever sold to an organization with a row, at a price.
LEMMA SaleKeepsBook ==
  ASSUME IInv, NEW o \in SignUp, NEW p \in Priced \cup Offered,
         NewStripeSubscription(o, p), UNCHANGED db,
         \/ /\ signUp[o] = "done"
            /\ Waiting' \in {Waiting, Waiting \cup {Len(stripe) + 1}}
            /\ UNCHANGED events
         \/ /\ Send("checkout.session.completed", Len(stripe) + 1, "active")
            /\ UNCHANGED Waiting
  PROVE  Book!Next
<1>1. signUp[o] = "done" => subscription[o] # Book!NoRow
  BY DEF IInv, SignUpProgress, NoRow, Book!NoRow, NoId
<1>2. Book!Sell(o, p)
  BY <1>1 DEF NewStripeSubscription, Send, db, Book!Sell
<1> QED
  BY <1>2 DEF Book!Next

\* The UPDATE switches the row, to the subscription the request holds or to none.
LEMMA StoreKeepsBook ==
  ASSUME IInv, NEW u \in Update, StoreSubscription(u)
  PROVE  Book!Next
<1> DEFINE o == update[u].org
           id == update[u].id
           p == update[u].plan
<1>1. /\ update[u].phase = "store" /\ o \in SignUp /\ signUp[o] = "done"
      /\ id = NoId <=> p = "free"
      /\ id # NoId => id \in DOMAIN stripe /\ stripe[id].org = o /\ stripe[id].plan = p
      /\ update \in [Update -> UpdateState]
  BY DEF StoreSubscription, UpdateStep, IInv, UpdateHoldsItsSubscription, TypeOK, UpdateState
<1>2. PICK to \in {"updated", "failed"} : update' = [update EXCEPT ![u].phase = to]
  BY DEF StoreSubscription, UpdateStep
<1>3. /\ UNCHANGED <<organization, stripe, events>>
      /\ subscription' = [subscription EXCEPT ![o] = [subscription[o] EXCEPT
           !.plan = p, !.id = id, !.limits = LimitsOf(p)]]
  BY DEF StoreSubscription, StoredRow, external
<1>4. subscription[o] # Book!NoRow
  BY <1>1 DEF IInv, SignUpProgress, NoRow, Book!NoRow, NoId
<1>5. Waiting' = Waiting \ {id}
  BY <1>1, <1>2, WaitingLeaves DEF IInv
<1>6. CASE id = NoId
  <2>1. Waiting' = Waiting /\ p = "free" /\ LimitsOf(p) = "free" /\ id = 0
    BY <1>1, <1>5, <1>6 DEF Waiting, LimitsOf, ListedPlan, NoId
  <2>2. Book!SwitchToFree(o)
    BY <1>3, <1>4, <2>1 DEF Book!SwitchToFree, Book!SetRow
  <2> QED
    BY <1>1, <2>2 DEF Book!Next
<1>7. CASE id # NoId
  <2>1. id \in Waiting
    BY <1>1, <1>7 DEF Waiting
  <2>2. Book!Switch(id)
    BY <1>1, <1>3, <1>5, <1>7 DEF Book!Switch, Book!SetRow, LimitsOf
  <2> QED
    BY <2>1, <2>2 DEF Book!Next
<1> QED
  BY <1>6, <1>7

\* The other steps of UpdateSubscription.
LEMMA UpdateKeepsBook ==
  ASSUME SubscriptionsAssumption, IInv, NEW u \in Update,
         \/ BeginUpdate(u) \/ UpdateFails(u)
         \/ CreateStripeSubscription(u) \/ StripeAnswerLost(u)
  PROVE  \/ UNCHANGED <<organization, subscription, stripe, events, Waiting>>
         \/ Book!Next
<1>1. update \in [Update -> UpdateState]
  BY DEF IInv, TypeOK
<1>2. /\ update[u].phase = "new" => update[u].id = NoId
      /\ update[u].phase = "stripe" =>
           /\ update[u].plan \in Priced
           /\ update[u].org \in SignUp /\ signUp[update[u].org] = "done"
  BY <1>1 DEF IInv, UpdateHoldsItsSubscription, UpdateState
<1>3. CASE BeginUpdate(u)
  <2>1. PICK to : update' = [update EXCEPT ![u].phase = to] /\ update[u].phase = "new"
    BY <1>3 DEF BeginUpdate, UpdateStep
  <2>2. Waiting' = Waiting
    BY <1>1, <1>2, <2>1, WaitingStays
  <2> QED
    BY <1>3, <2>2 DEF BeginUpdate, db, external
<1>4. CASE UpdateFails(u)
  <2>1. /\ update' = [update EXCEPT ![u].phase = "failed"]
        /\ UNCHANGED <<organization, subscription, stripe, events>>
    BY <1>4 DEF UpdateFails, UpdateStep, db, external
  <2>2. CASE update[u].phase = "store" /\ update[u].id # NoId
    <3>1. Book!GiveUp(update[u].id)
      BY <1>1, <2>1, <2>2, WaitingLeaves DEF IInv, Book!GiveUp
    <3>2. update[u].id \in Waiting
      BY <2>2 DEF Waiting
    <3> QED
      BY <3>1, <3>2 DEF Book!Next
  <2>3. CASE ~(update[u].phase = "store" /\ update[u].id # NoId)
    <3>1. Waiting' = Waiting
      BY <1>1, <2>1, <2>3, WaitingStays
    <3> QED
      BY <2>1, <3>1
  <2> QED
    BY <2>2, <2>3
<1>5. CASE CreateStripeSubscription(u)
  <2>1. Len(stripe) + 1 \in Nat \ {NoId}
    BY DEF IInv, TypeOK, NoId
  <2>2. Waiting' = Waiting \cup {Len(stripe) + 1}
    BY <1>1, <1>5, <2>1, WaitingJoins DEF CreateStripeSubscription
  <2> QED
    BY <1>2, <1>5, <2>2, SaleKeepsBook DEF CreateStripeSubscription
<1>6. CASE StripeAnswerLost(u)
  <2>1. update[u].phase = "stripe" /\ update' = [update EXCEPT ![u].phase = "failed"]
    BY <1>6 DEF StripeAnswerLost, UpdateStep
  <2>2. Waiting' = Waiting
    BY <1>1, <2>1, WaitingStays
  <2> QED
    BY <1>2, <1>6, <2>1, <2>2, SaleKeepsBook DEF StripeAnswerLost
<1> QED
  BY <1>3, <1>4, <1>5, <1>6

\* An event changes at most the row that holds its subscription, and that is
\* the row of the organization the subscription is of.
LEMMA EventKeepsBook ==
  ASSUME IInv, NEW e \in events, HandleEvent(e)
  PROVE  \/ UNCHANGED <<organization, subscription, stripe, events, Waiting>>
         \/ Book!Next
<1>1. UNCHANGED <<organization, stripe, events, Waiting>>
  BY DEF HandleEvent, handlers, external, Waiting
<1>2. CASE e.type # "customer.subscription.updated"
  BY <1>1, <1>2 DEF HandleEvent
<1>3. CASE e.type = "customer.subscription.updated"
  <2> DEFINE o == stripe[e.id].org
  <2>1. /\ e.id \in DOMAIN stripe /\ o \in SignUp
        /\ e.id # NoId
    <3>1. stripe \in Seq(StripeSubscription) /\ e.id \in DOMAIN stripe
      BY DEF IInv, TypeOK, EventsAreOfSubscriptions
    <3>2. stripe[e.id] \in StripeSubscription
      BY <3>1
    <3> QED
      BY <3>1, <3>2 DEF StripeSubscription, NoId
  <2>2. \A q \in SignUp : subscription[q].id = e.id => q = o
    BY <2>1 DEF IInv, RowIsOneRequests
  <2>3. /\ subscription \in [SignUp -> Row \cup {NoRow}]
        /\ subscription' = [q \in SignUp |-> IF subscription[q].id = e.id
                                            THEN [subscription[q] EXCEPT !.status = e.status]
                                            ELSE subscription[q]]
    BY <1>3 DEF HandleEvent, SetStatus, IInv, TypeOK
  <2>4. CASE subscription[o].id = e.id
    <3>1. subscription' = [subscription EXCEPT
                             ![o] = [subscription[o] EXCEPT !.status = e.status]]
      BY <2>1, <2>2, <2>3, <2>4
    <3>2. Book!Reflect(e)
      BY <1>1, <1>3, <2>4, <3>1 DEF Book!Reflect, Book!SetRow
    <3> QED
      BY <3>2 DEF Book!Next
  <2>5. CASE subscription[o].id # e.id
    <3>1. subscription' = subscription
      BY <2>2, <2>3, <2>5
    <3> QED
      BY <1>1, <3>1
  <2> QED
    BY <2>4, <2>5
<1> QED
  BY <1>2, <1>3

\* Every step is one of the book's or leaves it as it is.
LEMMA StepKeepsBook ==
  ASSUME SubscriptionsAssumption, IInv, [Next]_vars
  PROVE  [Book!Next]_<<organization, subscription, stripe, events, Waiting>>
<1>1. CASE UNCHANGED vars
  BY <1>1 DEF vars, db, handlers, external, Waiting
<1>2. ASSUME NEW s \in SignUp,
             \/ CreateCustomer(s) \/ InsertOrganization(s)
             \/ InsertSubscription(s) \/ SignUpFails(s)
      PROVE  [Book!Next]_<<organization, subscription, stripe, events, Waiting>>
  BY <1>2, SignUpKeepsBook
<1>3. ASSUME NEW u \in Update,
             \/ BeginUpdate(u) \/ UpdateFails(u)
             \/ CreateStripeSubscription(u) \/ StripeAnswerLost(u)
             \/ StoreSubscription(u)
      PROVE  [Book!Next]_<<organization, subscription, stripe, events, Waiting>>
  BY <1>3, UpdateKeepsBook, StoreKeepsBook
<1>4. ASSUME NEW o \in SignUp, NEW p \in Plan, CreateCheckoutSession(o, p)
      PROVE  [Book!Next]_<<organization, subscription, stripe, events, Waiting>>
  BY <1>4 DEF CreateCheckoutSession, db, handlers, Waiting
<1>5. ASSUME NEW c \in sessions, CompleteCheckout(c)
      PROVE  [Book!Next]_<<organization, subscription, stripe, events, Waiting>>
  <2>1. c.org \in SignUp /\ c.plan \in Offered
    BY DEF IInv, TypeOK, SessionsAreOffered
  <2>2. UNCHANGED Waiting
    BY <1>5 DEF CompleteCheckout, handlers, Waiting
  <2>3. Book!Next
    BY <1>5, <2>1, <2>2, SaleKeepsBook DEF CompleteCheckout
  <2> QED
    BY <2>3
<1>6. ASSUME NEW i \in DOMAIN stripe,
             StripeCancels(i) \/ \E s \in StripeStatus : StripeUpdates(i, s)
      PROVE  [Book!Next]_<<organization, subscription, stripe, events, Waiting>>
  <2>1. PICK s \in {"active", "past_due", "canceled"} : Book!Turn(i, s)
    BY <1>6 DEF StripeCancels, StripeUpdates, Send, StripeStatus, Book!Turn, db, handlers,
                Waiting
  <2> QED
    BY <2>1 DEF Book!Next
<1>7. ASSUME NEW e \in events, HandleEvent(e)
      PROVE  [Book!Next]_<<organization, subscription, stripe, events, Waiting>>
  BY <1>7, EventKeepsBook
<1> QED
  BY <1>1, <1>2, <1>3, <1>4, <1>5, <1>6, <1>7 DEF Next

-----------------------------------------------------------------------------
(* The theorems.                                                           *)

\* The inductive invariant holds in every reachable state.
THEOREM Invariance == Spec => []IInv
<1>1. Init => IInv
  BY InitHolds, SubscriptionsAssumption
<1>2. IInv /\ [Next]_vars => IInv'
  BY StepKeepsIInv, SubscriptionsAssumption
<1> QED
  BY <1>1, <1>2, PTL DEF Spec

\* Plan, limits and Stripe subscription of a row come from one request.
THEOREM RowsAreConsistent == Spec => []RowIsOneRequests
<1>1. IInv => RowIsOneRequests
  BY DEF IInv
<1> QED
  BY Invariance, <1>1, PTL

\* A row is past_due only after Stripe reported it of the organization.
THEOREM StatusesAreReported == Spec => []StatusReported
<1>1. IInv => StatusReported
  BY DEF IInv
<1> QED
  BY Invariance, <1>1, PTL

\* A subscription is missing only where a sign-up runs or failed.
THEOREM MissingSubscriptionsAreFailures == Spec => []SubscriptionMissingOnlyAfterFailure
<1>1. IInv => SubscriptionMissingOnlyAfterFailure
  BY DEF IInv
<1> QED
  BY Invariance, <1>1, PTL

\* Requests that fail, lose answers and interleave show a behaviour of
\* SubscriptionBook: a change of plan is one step.
THEOREM KeepsBook == Spec => ImplementsBook
<1>1. Init => Book!Init
  BY DEF Init, Book!Init, NoRow, Book!NoRow, NoId, Waiting
<1>2. IInv /\ [Next]_vars =>
        [Book!Next]_<<organization, subscription, stripe, events, Waiting>>
  BY StepKeepsBook, SubscriptionsAssumption
<1> QED
  BY Invariance, <1>1, <1>2, PTL DEF Spec, ImplementsBook, Book!Spec
=============================================================================
