------------------------ MODULE MonthlyBillingProofs ------------------------
(***************************************************************************)
(* Proofs about the monthly billing job, for every set of organizations,   *)
(* plan names and usage levels and for every bound.                        *)
(***************************************************************************)
EXTENDS MonthlyBilling, FiniteSetTheorems, TLAPS

\* CalculateMonthlyBill never yields a negative charge, whatever the plan
\* string and the usage: the price list covers the fallback plan too.
LEMMA BillIsNatural ==
  ASSUME NEW p, NEW u \in Usage
  PROVE  /\ EffectivePlan(p) \in ListedPlan
         /\ Bill(p, u) \in [LineItem -> Nat]
<1>1. EffectivePlan(p) \in ListedPlan
  BY DEF EffectivePlan, ListedPlan
<1> DEFINE q == EffectivePlan(p)
<1>2. /\ BasePriceCents(q) \in Nat
      /\ ActionsIncluded(q) \in Nat
  BY <1>1 DEF BasePriceCents, ActionsIncluded, ListedPlan, Million
<1>3. /\ ActiveCents(u.active) \in Nat
      /\ RetainedCents(u.retained) \in Nat
  BY DEF ActiveCents, RetainedCents, Micro, Usage
<1>4. PricePerMillionActions * OverageMillions(u.actions, ActionsIncluded(q)) \in Nat
  <2> DEFINE over == u.actions - ActionsIncluded(q)
  <2>1. CASE u.actions > ActionsIncluded(q)
    <3>1. over \in Nat
      BY <1>2, <2>1 DEF Usage
    <3>2. over \div Million \in Nat
      BY <3>1 DEF Million
    <3>3. OverageMillions(u.actions, ActionsIncluded(q)) \in Nat
      BY <2>1, <3>2 DEF OverageMillions
    <3> QED
      BY <3>3 DEF PricePerMillionActions
  <2>2. CASE ~(u.actions > ActionsIncluded(q))
    BY <2>2 DEF OverageMillions, PricePerMillionActions
  <2> QED
    BY <2>1, <2>2
<1>5. \A i \in LineItem :
        (CASE i = "base"     -> BasePriceCents(q)
           [] i = "overage"  -> PricePerMillionActions
                                  * OverageMillions(u.actions, ActionsIncluded(q))
           [] i = "active"   -> ActiveCents(u.active)
           [] i = "retained" -> RetainedCents(u.retained)) \in Nat
  BY <1>2, <1>3, <1>4 DEF LineItem
<1> QED
  BY <1>1, <1>5 DEF Bill

\* Before the first Job everything is well formed.
LEMMA TypeInit == Init => TypeOK
BY DEF Init, TypeOK, SubscriptionStatus, Phase, MonthlyBill, ListedPlan

\* The item and the invoice a running start asks for.
LEMMA ObjectsAreTyped ==
  ASSUME TypeOK
  PROVE  /\ NextObject(org) \in Nat
         /\ Count(org) => objects' \in [Orgs -> Nat]
         /\ at \in 1..4 /\ MakeItem(ItemOrder[at]) => items' \subseteq InvoiceItem
         /\ MakeInvoice => invoices' \subseteq StripeInvoice
BY DEF TypeOK, NextObject, Count, MakeItem, MakeInvoice, ItemOrder, InvoiceItem,
       LineItem, MonthlyBill, StripeInvoice, InvoiceId

\* The job's registers, the invoices table and Stripe's objects stay well
\* formed through every step of the job, of Stripe and of the other services.
LEMMA TypeStep == TypeOK /\ ItemProgress /\ [Next]_vars => TypeOK'
<1> SUFFICES ASSUME TypeOK, ItemProgress, [Next]_vars
             PROVE  TypeOK'
  OBVIOUS
<1> USE DEF TypeOK, Phase, Running, process, stripe
<1>1. CASE StartProcess
  BY <1>1 DEF StartProcess
<1>2. CASE Crash
  BY <1>2 DEF Crash
<1>3. CASE NextMonth
  BY <1>3 DEF NextMonth
<1>4. CASE SelectOrgs
  BY <1>4 DEF SelectOrgs
<1>5. CASE NextOrg
  BY <1>5 DEF NextOrg
<1>6. CASE EndLoop
  BY <1>6 DEF EndLoop
<1>7. CASE CalculateMonthlyBill
  <2>1. bill' \in MonthlyBill
    BY <1>7, BillingAssumption, BillIsNatural
    DEF CalculateMonthlyBill, BillFor, MonthlyBill
  <2> QED
    BY <1>7, <2>1 DEF CalculateMonthlyBill
<1>8. CASE CalculateFails
  BY <1>8 DEF CalculateFails, GiveUpOnOrg
<1>9. CASE LookUpCustomer
  BY <1>9 DEF LookUpCustomer
<1>10. CASE NoCustomer
  BY <1>10 DEF NoCustomer, GiveUpOnOrg
<1>11. phase = "items" => at \in 1..4
  BY DEF ItemProgress
<1>12. CASE SkipItem
  BY <1>11, <1>12 DEF SkipItem, Advance
<1>13. ASSUME phase = "items", MakeItem(ItemOrder[at])
       PROVE  /\ items' \subseteq InvoiceItem
              /\ objects' \in [Orgs -> Nat]
              /\ UNCHANGED <<invoices, events>>
  <2>1. items' \subseteq InvoiceItem
    BY <1>11, <1>13, ObjectsAreTyped
  <2>2. objects' \in [Orgs -> Nat]
    BY <1>13, ObjectsAreTyped DEF MakeItem
  <2> QED
    BY <1>13, <2>1, <2>2 DEF MakeItem
<1>14. CASE CreateItem
  BY <1>11, <1>13, <1>14 DEF CreateItem, Advance
<1>15. CASE CreateItemFails
  BY <1>11, <1>13, <1>15 DEF CreateItemFails, GiveUpOnOrg
<1>16. ASSUME MakeInvoice
       PROVE  /\ invoices' \subseteq StripeInvoice
              /\ objects' \in [Orgs -> Nat]
              /\ UNCHANGED <<items, events>>
  <2>1. invoices' \subseteq StripeInvoice
    BY <1>16, ObjectsAreTyped
  <2>2. objects' \in [Orgs -> Nat]
    BY <1>16, ObjectsAreTyped DEF MakeInvoice
  <2> QED
    BY <1>16, <2>1, <2>2 DEF MakeInvoice
<1>17. CASE NewInvoice
  BY <1>16, <1>17, ObjectsAreTyped DEF NewInvoice
<1>18. CASE NewInvoiceFails
  BY <1>16, <1>18 DEF NewInvoiceFails, GiveUpOnOrg
<1>19. CASE StoreInvoice
  BY <1>19 DEF StoreInvoice, InvoiceRow, ThisInvoice, InvoiceId, RowStatus
<1>20. CASE StoreInvoiceFails
  BY <1>20 DEF StoreInvoiceFails, GiveUpOnOrg
<1>21. CASE CollectInvoice
  BY <1>21 DEF CollectInvoice, Send, Event, EventType, StripeInvoice
<1>22. CASE DeclinePayment
  BY <1>22 DEF DeclinePayment, Send, Event, EventType, StripeInvoice
<1>23. ASSUME NEW id, NEW s \in RowStatus, SetStatus(id, s)
       PROVE  rows' \subseteq InvoiceRow
  BY <1>23 DEF SetStatus, InvoiceRow
<1>24. CASE HandleInvoicePaid
  BY <1>23, <1>24 DEF HandleInvoicePaid, RowStatus
<1>25. CASE HandlePaymentFailed
  BY <1>23, <1>25 DEF HandlePaymentFailed, RowStatus
<1>26. CASE ChangePlan
  BY <1>26 DEF ChangePlan
<1>27. CASE ChangeStatus
  BY <1>27 DEF ChangeStatus
<1>28. CASE UNCHANGED vars
  BY <1>28 DEF vars
<1>29. CASE \E o \in Orgs : SubscriptionInvoice(o)
  <2>1. PICK o \in Orgs : SubscriptionInvoice(o)
    BY <1>29
  <2>2. items' \subseteq InvoiceItem
    BY <2>1 DEF SubscriptionInvoice, Pending, InvoiceItem, NextObject
  <2> QED
    BY <2>1, <2>2 DEF SubscriptionInvoice, Count
<1> QED
  BY <1>1, <1>2, <1>3, <1>4, <1>5, <1>6, <1>7, <1>8, <1>9, <1>10, <1>12, <1>14,
     <1>15, <1>17, <1>18, <1>19, <1>20, <1>21, <1>22, <1>24, <1>25, <1>26, <1>27,
     <1>28, <1>29
  DEF Next, ProcessStep

-----------------------------------------------------------------------------
(* The inductive invariant.                                                *)

\* The five conjuncts of IInv that speak only of the invoices table, of Stripe
\* and of the number of the running start.
Books ==
  /\ NumberedByStart
  /\ RowIsCovered
  /\ OneInvoicePerStart
  /\ ItemChargedOnce
  /\ StatusJustified

LEMMA IInvInit == Init => IInv
<1> SUFFICES ASSUME Init PROVE IInv
  OBVIOUS
<1>1. TypeOK
  BY TypeInit
<1>2. Books
  BY DEF Init, Books, NumberedByStart, RowIsCovered, OneInvoicePerStart,
         ItemChargedOnce, StatusJustified
<1>3. FreshWork /\ ItemProgress /\ OwedProgress
  BY DEF Init, FreshWork, ItemProgress, OwedProgress, Running
<1> QED
  BY <1>1, <1>2, <1>3 DEF IInv, Books

\* Steps that touch neither the table nor Stripe's items and invoices leave the
\* books in order; more events only justify more statuses.
LEMMA BooksFrame ==
  ASSUME TypeOK, Books, starts' \in Nat, starts' >= starts, events \subseteq events',
         UNCHANGED <<rows, items, invoices, objects>>
  PROVE  Books'
<1>1. NumberedByStart'
  BY DEF TypeOK, Books, NumberedByStart, StripeInvoice, InvoiceItem
<1>2. RowIsCovered' /\ OneInvoicePerStart' /\ ItemChargedOnce'
  BY DEF Books, RowIsCovered, OneInvoicePerStart, ItemChargedOnce, Ledger!Charged, Ledger!Told
<1>3. StatusJustified'
  BY DEF Books, StatusJustified, Sent
<1> QED
  BY <1>1, <1>2, <1>3 DEF Books

\* What the steps of Stripe do to the numbers of a customer.
LEMMA NumbersGrow ==
  ASSUME TypeOK, NEW c \in Orgs, Count(c)
  PROVE  /\ NextObject(c) \in Nat /\ NextObject(c) > 0 /\ NextObject(c) > objects[c]
         /\ objects'[c] = NextObject(c)
         /\ \A o \in Orgs : /\ objects[o] \in Nat /\ objects'[o] \in Nat
                            /\ objects'[o] >= objects[o]
BY DEF TypeOK, Count, NextObject

\* Nothing has the number of the next object of a customer.
LEMMA NextIsNew ==
  ASSUME TypeOK, NumberedByStart, NEW c \in Orgs
  PROVE  /\ \A i \in items : i.org = c => i.invoice # NextObject(c)
         /\ \A v \in invoices : v.id # [org |-> c, number |-> NextObject(c)]
BY DEF TypeOK, NumberedByStart, NextObject, InvoiceItem, StripeInvoice, InvoiceId

\* What was charged by the items of a start, after a new item and after Stripe
\* took items up.
LEMMA MakeItemCharges ==
  ASSUME NEW k, MakeItem(k)
  PROVE  \A o, s :
           Ledger!Charged(o, s)' =
             IF o = org /\ s = starts
             THEN Ledger!Charged(o, s) \cup {<<month, k, bill.charge[k]>>}
             ELSE Ledger!Charged(o, s)
<1> DEFINE new == [org |-> org, number |-> NextObject(org), start |-> starts, month |-> month,
                   kind |-> k, cents |-> bill.charge[k], invoice |-> 0]
<1>1. items' = items \cup {new}
  BY DEF MakeItem
<1>2. /\ new.org = org /\ new.start = starts /\ new.month = month
      /\ new.kind = k /\ new.cents = bill.charge[k]
  OBVIOUS
<1> HIDE DEF new
<1> SUFFICES ASSUME NEW o, NEW s
             PROVE  Ledger!Charged(o, s)' =
                      IF o = org /\ s = starts
                      THEN Ledger!Charged(o, s) \cup {<<month, k, bill.charge[k]>>}
                      ELSE Ledger!Charged(o, s)
  OBVIOUS
<1> DEFINE own == {j \in items : j.org = o /\ j.start = s}
<1>3. {j \in items' : j.org = o /\ j.start = s} =
        IF o = org /\ s = starts THEN own \cup {new} ELSE own
  BY <1>1, <1>2
<1>4. CASE o = org /\ s = starts
  BY <1>2, <1>3, <1>4 DEF Ledger!Charged
<1>5. CASE ~(o = org /\ s = starts)
  BY <1>3, <1>5 DEF Ledger!Charged
<1> QED
  BY <1>4, <1>5

\* An item after Stripe took items up is an item from before, but for its invoice.
LEMMA TakenUp ==
  ASSUME TypeOK, NEW c, SubscriptionInvoice(c), NEW j \in items'
  PROVE  \E i \in items :
           /\ i.org = j.org /\ i.number = j.number /\ i.start = j.start
           /\ i.month = j.month /\ i.kind = j.kind /\ i.cents = j.cents
           /\ \/ j = i
              \/ i \in Pending(c) /\ j = [i EXCEPT !.invoice = NextObject(c)]
BY DEF SubscriptionInvoice, Pending, TypeOK, InvoiceItem

\* No item is lost when Stripe takes items up.
LEMMA TakenUpStays ==
  ASSUME TypeOK, NEW c, SubscriptionInvoice(c), NEW i \in items
  PROVE  \E j \in items' :
           /\ i.org = j.org /\ i.number = j.number /\ i.start = j.start
           /\ i.month = j.month /\ i.kind = j.kind /\ i.cents = j.cents
<1>1. CASE i \in Pending(c)
  <2> DEFINE j == [i EXCEPT !.invoice = NextObject(c)]
  <2>1. j \in items'
    BY <1>1 DEF SubscriptionInvoice
  <2>2. /\ i.org = j.org /\ i.number = j.number /\ i.start = j.start
        /\ i.month = j.month /\ i.kind = j.kind /\ i.cents = j.cents
    BY DEF TypeOK, InvoiceItem
  <2> QED
    BY <2>1, <2>2
<1>2. CASE i \notin Pending(c)
  BY <1>2 DEF SubscriptionInvoice
<1> QED
  BY <1>1, <1>2

\* What a start charged does not change when its items go on an invoice.
LEMMA TakeUpCharges ==
  ASSUME TypeOK, NEW c, SubscriptionInvoice(c)
  PROVE  \A o, s : Ledger!Charged(o, s)' = Ledger!Charged(o, s)
<1> SUFFICES ASSUME NEW o, NEW s
             PROVE  Ledger!Charged(o, s)' = Ledger!Charged(o, s)
  OBVIOUS
<1>1. ASSUME NEW x \in Ledger!Charged(o, s)
      PROVE  x \in Ledger!Charged(o, s)'
  <2>1. PICK i \in items : i.org = o /\ i.start = s /\ x = <<i.month, i.kind, i.cents>>
    BY <1>1 DEF Ledger!Charged
  <2> QED
    BY <2>1, TakenUpStays DEF Ledger!Charged
<1>2. ASSUME NEW x \in Ledger!Charged(o, s)'
      PROVE  x \in Ledger!Charged(o, s)
  <2>1. PICK j \in items' : j.org = o /\ j.start = s /\ x = <<j.month, j.kind, j.cents>>
    BY <1>2 DEF Ledger!Charged
  <2> QED
    BY <2>1, TakenUp DEF Ledger!Charged
<1> QED
  BY <1>1, <1>2

\* A row stays covered while its invoice and the charges of its start stay.
LEMMA RowsStayCovered ==
  ASSUME RowIsCovered, rows' = rows, invoices \subseteq invoices',
         \A v \in invoices :
           Ledger!Charged(v.id.org, v.start)' = Ledger!Charged(v.id.org, v.start)
  PROVE  RowIsCovered'
<1> SUFFICES ASSUME NEW r \in rows
             PROVE  \E v \in invoices' :
                      /\ v.id = r.id
                      /\ v.month = r.month
                      /\ Ledger!Charged(v.id.org, v.start)' = Ledger!Told(r.month, r.bill.charge)
  BY DEF RowIsCovered, Ledger!Told
<1> QED
  BY DEF RowIsCovered

\* The next item of the running start: the new one is the only one of its kind.
LEMMA MakeItemKeepsBooks ==
  ASSUME TypeOK, Books, at \in 1..4, ItemsUpTo(at), MakeItem(ItemOrder[at]),
         UNCHANGED <<rows, starts>>
  PROVE  Books'
<1> DEFINE k == ItemOrder[at]
           new == [org |-> org, number |-> NextObject(org), start |-> starts, month |-> month,
                   kind |-> k, cents |-> bill.charge[k], invoice |-> 0]
<1>1. /\ items' = items \cup {new} /\ UNCHANGED <<invoices, events>> /\ Count(org)
      /\ org \in Orgs /\ starts \in Nat
  BY DEF MakeItem, TypeOK
<1>2. new.org = org /\ new.start = starts /\ new.kind = k /\ new.invoice = 0
  OBVIOUS
<1>3. \A o \in Orgs : objects[o] \in Nat /\ objects'[o] \in Nat /\ objects'[o] >= objects[o]
  BY <1>1, NumbersGrow
<1> HIDE DEF new
<1>4. NumberedByStart'
  <2>1. ASSUME NEW i \in items'
        PROVE  i.start <= starts /\ i.invoice <= objects'[i.org]
    <3>1. CASE i \in items
      <4>1. i.org \in Orgs /\ i.invoice \in Nat
        BY <3>1 DEF TypeOK, InvoiceItem
      <4> QED
        BY <1>3, <3>1, <4>1 DEF Books, NumberedByStart
    <3>2. CASE i = new
      BY <1>1, <1>2, <1>3, <3>2
    <3> QED
      BY <1>1, <3>1, <3>2
  <2>2. ASSUME NEW v \in invoices
        PROVE  v.start <= starts /\ v.id.number <= objects'[v.id.org]
    <3>1. v.id.org \in Orgs /\ v.id.number \in Nat
      BY DEF TypeOK, StripeInvoice, InvoiceId
    <3> QED
      BY <1>3, <3>1 DEF Books, NumberedByStart
  <2> QED
    BY <1>1, <2>1, <2>2 DEF NumberedByStart
<1>5. RowIsCovered'
  <2>1. \A v \in invoices :
          Ledger!Charged(v.id.org, v.start)' = Ledger!Charged(v.id.org, v.start)
    BY MakeItemCharges DEF ItemsUpTo, Invoiced
  <2> QED
    BY <1>1, <2>1, RowsStayCovered DEF Books
<1>6. ItemChargedOnce'
  <2>1. ASSUME NEW i \in items, i.org = org, i.start = starts
        PROVE  i.kind # k
    <3>1. <<i.month, i.kind, i.cents>> \in Ledger!Charged(org, starts)
      BY <2>1 DEF Ledger!Charged
    <3>2. PICK n \in 1..4 : n < at /\ i.kind = ItemOrder[n]
      BY <3>1 DEF ItemsUpTo, ChargesBefore
    <3> QED
      BY <3>2 DEF ItemOrder
  <2> QED
    BY <1>1, <1>2, <2>1 DEF Books, ItemChargedOnce
<1>7. OneInvoicePerStart' /\ StatusJustified'
  BY <1>1 DEF Books, OneInvoicePerStart, StatusJustified, Sent
<1> QED
  BY <1>4, <1>5, <1>6, <1>7 DEF Books

\* The first invoice of the running start for the organization.
LEMMA MakeInvoiceKeepsBooks ==
  ASSUME TypeOK, Books, ~Invoiced(org), MakeInvoice, UNCHANGED <<rows, starts>>
  PROVE  Books'
<1> DEFINE new == [id |-> [org |-> org, number |-> NextObject(org)], start |-> starts,
                   month |-> month]
<1>1. /\ invoices' = invoices \cup {new} /\ UNCHANGED <<items, events>> /\ Count(org)
      /\ org \in Orgs /\ starts \in Nat
  BY DEF MakeInvoice, TypeOK
<1>2. new.id.org = org /\ new.id.number = NextObject(org) /\ new.start = starts
  OBVIOUS
<1>3. /\ objects'[org] = NextObject(org)
      /\ NextObject(org) \in Nat
      /\ \A o \in Orgs : objects[o] \in Nat /\ objects'[o] \in Nat /\ objects'[o] >= objects[o]
  BY <1>1, NumbersGrow
<1> HIDE DEF new
<1>4. NumberedByStart'
  <2>1. ASSUME NEW i \in items
        PROVE  i.start <= starts /\ i.invoice <= objects'[i.org]
    <3>1. i.org \in Orgs /\ i.invoice \in Nat
      BY DEF TypeOK, InvoiceItem
    <3> QED
      BY <1>3, <3>1 DEF Books, NumberedByStart
  <2>2. ASSUME NEW v \in invoices'
        PROVE  v.start <= starts /\ v.id.number <= objects'[v.id.org]
    <3>1. CASE v \in invoices
      <4>1. v.id.org \in Orgs /\ v.id.number \in Nat
        BY <3>1 DEF TypeOK, StripeInvoice, InvoiceId
      <4> QED
        BY <1>3, <3>1, <4>1 DEF Books, NumberedByStart
    <3>2. CASE v = new
      BY <1>1, <1>2, <1>3, <3>2
    <3> QED
      BY <1>1, <3>1, <3>2
  <2> QED
    BY <1>1, <2>1, <2>2 DEF NumberedByStart
<1>5. RowIsCovered'
  <2>1. \A o, s : Ledger!Charged(o, s)' = Ledger!Charged(o, s)
    BY <1>1 DEF Ledger!Charged
  <2> QED
    BY <1>1, <2>1, RowsStayCovered DEF Books
<1>6. OneInvoicePerStart'
  BY <1>1, <1>2 DEF Books, OneInvoicePerStart, Invoiced
<1>7. ItemChargedOnce' /\ StatusJustified'
  BY <1>1 DEF Books, ItemChargedOnce, StatusJustified, Sent
<1> QED
  BY <1>4, <1>5, <1>6, <1>7 DEF Books

\* Stripe takes items up: they change invoice and nothing else.
LEMMA TakeUpKeepsBooks ==
  ASSUME TypeOK, Books, NEW c \in Orgs, SubscriptionInvoice(c)
  PROVE  Books'
<1>1. /\ UNCHANGED <<rows, starts, invoices, events>> /\ Count(c)
      /\ objects'[c] = NextObject(c) /\ NextObject(c) \in Nat
      /\ \A o \in Orgs : objects[o] \in Nat /\ objects'[o] \in Nat /\ objects'[o] >= objects[o]
  BY NumbersGrow DEF SubscriptionInvoice, process
<1>2. NumberedByStart'
  <2>1. ASSUME NEW j \in items'
        PROVE  j.start <= starts /\ j.invoice <= objects'[j.org]
    <3>1. PICK i \in items :
            /\ i.org = j.org /\ i.start = j.start
            /\ \/ j = i
               \/ i \in Pending(c) /\ j = [i EXCEPT !.invoice = NextObject(c)]
      BY TakenUp
    <3>2. /\ i.org \in Orgs /\ i.invoice \in Nat
          /\ i.start <= starts /\ i.invoice <= objects[i.org]
      BY DEF TypeOK, InvoiceItem, Books, NumberedByStart
    <3>3. CASE j = i
      BY <1>1, <3>2, <3>3
    <3>4. CASE i \in Pending(c) /\ j = [i EXCEPT !.invoice = NextObject(c)]
      <4>1. j.org = c /\ j.invoice = NextObject(c)
        BY <3>1, <3>4 DEF Pending, TypeOK, InvoiceItem
      <4> QED
        BY <1>1, <3>1, <3>2, <4>1
    <3> QED
      BY <3>1, <3>3, <3>4
  <2>2. ASSUME NEW v \in invoices
        PROVE  v.start <= starts /\ v.id.number <= objects'[v.id.org]
    <3>1. v.id.org \in Orgs /\ v.id.number \in Nat
      BY DEF TypeOK, StripeInvoice, InvoiceId
    <3> QED
      BY <1>1, <3>1 DEF Books, NumberedByStart
  <2> QED
    BY <1>1, <2>1, <2>2 DEF NumberedByStart
<1>3. RowIsCovered'
  BY <1>1, TakeUpCharges, RowsStayCovered DEF Books
<1>4. ItemChargedOnce'
  <2>1. ASSUME NEW i \in items', NEW j \in items',
               i.org = j.org, i.start = j.start, i.kind = j.kind
        PROVE  i = j
    <3>1. PICK x \in items :
            /\ x.org = i.org /\ x.start = i.start /\ x.kind = i.kind
            /\ i = x \/ (x \in Pending(c) /\ i = [x EXCEPT !.invoice = NextObject(c)])
      BY TakenUp
    <3>2. PICK y \in items :
            /\ y.org = j.org /\ y.start = j.start /\ y.kind = j.kind
            /\ j = y \/ (y \in Pending(c) /\ j = [y EXCEPT !.invoice = NextObject(c)])
      BY TakenUp
    <3>3. x = y
      BY <2>1, <3>1, <3>2 DEF Books, ItemChargedOnce
    <3>4. \A z \in items' : z.org = c => z.invoice # 0
      BY <1>1 DEF SubscriptionInvoice, Pending, TypeOK, InvoiceItem, NextObject
    <3>5. x \in Pending(c) => i # x /\ j # x
      BY <2>1, <3>1, <3>2, <3>3, <3>4 DEF Pending
    <3> QED
      BY <3>1, <3>2, <3>3, <3>5
  <2> QED
    BY <2>1 DEF ItemChargedOnce
<1>5. OneInvoicePerStart' /\ StatusJustified'
  BY <1>1 DEF Books, OneInvoicePerStart, StatusJustified, Sent
<1> QED
  BY <1>2, <1>3, <1>4, <1>5 DEF Books

\* Storing the row of the invoice of the running start.
LEMMA StoreKeepsBooks ==
  ASSUME TypeOK, Books, ItemProgress, StoreInvoice
  PROVE  Books'
<1> DEFINE row == [id |-> ThisInvoice, month |-> month, bill |-> bill, status |-> "pending"]
<1>1. rows' = rows \cup {row}
  BY DEF StoreInvoice
<1>2. row.id = ThisInvoice /\ row.month = month /\ row.bill = bill /\ row.status = "pending"
  OBVIOUS
<1> HIDE DEF row
<1>3. UNCHANGED <<items, invoices, objects, events, starts>>
  BY DEF StoreInvoice, stripe, process
<1>4. \A r \in rows : r.id # ThisInvoice
  BY DEF ItemProgress, StoreInvoice
<1>5. PICK v \in invoices : v.id = ThisInvoice /\ v.start = starts /\ v.month = month
  BY DEF ItemProgress, StoreInvoice
<1>6. RowIsCovered'
  <2>1. \A o, s : Ledger!Charged(o, s)' = Ledger!Charged(o, s)
    BY <1>3 DEF Ledger!Charged
  <2>2. Ledger!Charged(v.id.org, v.start) = Ledger!Told(row.month, row.bill.charge)
    BY <1>2, <1>5 DEF ItemProgress, StoreInvoice, ThisInvoice
  <2>3. ASSUME NEW r \in rows'
        PROVE  \E w \in invoices :
                 /\ w.id = r.id
                 /\ w.month = r.month
                 /\ Ledger!Charged(w.id.org, w.start) = Ledger!Told(r.month, r.bill.charge)
    BY <1>1, <1>2, <1>5, <2>2 DEF Books, RowIsCovered
  <2> QED
    BY <1>3, <2>1, <2>3 DEF RowIsCovered, Ledger!Told
<1>7. StatusJustified'
  BY <1>1, <1>2, <1>3, <1>4 DEF Books, StatusJustified, Sent
<1>8. NumberedByStart' /\ OneInvoicePerStart' /\ ItemChargedOnce'
  BY <1>3 DEF Books, NumberedByStart, OneInvoicePerStart, ItemChargedOnce
<1> QED
  BY <1>6, <1>7, <1>8 DEF Books

\* A webhook handler rewrites the status of the one row of the event's invoice.
LEMMA HandlerKeepsBooks ==
  ASSUME TypeOK, Books, NEW e \in events, NEW s, SetStatus(e.id, s),
         \/ e.type = "invoice.paid" /\ s = "paid"
         \/ e.type = "invoice.payment_failed" /\ s = "payment_failed",
         UNCHANGED <<items, invoices, objects, events, starts>>
  PROVE  /\ Books'
         /\ \A r \in rows' : \E q \in rows : r.id = q.id
<1>1. \A r \in rows' : \E q \in rows :
        /\ r.id = q.id /\ r.month = q.month /\ r.bill = q.bill
        /\ r.id # e.id => r = q
        /\ r.id = e.id => r = [q EXCEPT !.status = s] /\ r.status = s
  BY DEF SetStatus, TypeOK, InvoiceRow
<1>2. e = [type |-> e.type, id |-> e.id]
  BY DEF TypeOK, Event
<1>3. RowIsCovered'
  <2>1. \A o, n : Ledger!Charged(o, n)' = Ledger!Charged(o, n)
    BY DEF Ledger!Charged
  <2>2. ASSUME NEW r \in rows'
        PROVE  \E w \in invoices :
                 /\ w.id = r.id
                 /\ w.month = r.month
                 /\ Ledger!Charged(w.id.org, w.start) = Ledger!Told(r.month, r.bill.charge)
    BY <1>1 DEF Books, RowIsCovered
  <2> QED
    BY <2>1, <2>2 DEF RowIsCovered, Ledger!Told
<1>4. StatusJustified'
  <2>1. ASSUME NEW r \in rows'
        PROVE  /\ r.status = "paid" => Sent("invoice.paid", r.id)
               /\ r.status = "payment_failed" => Sent("invoice.payment_failed", r.id)
    BY <1>1, <1>2 DEF Books, StatusJustified, Sent
  <2>2. ASSUME NEW r \in rows', NEW q \in rows', r.id = q.id
        PROVE  r = q
    BY <1>1, <2>2 DEF Books, StatusJustified
  <2> QED
    BY <2>1, <2>2 DEF StatusJustified, Sent
<1>5. NumberedByStart' /\ OneInvoicePerStart' /\ ItemChargedOnce'
  BY DEF Books, NumberedByStart, OneInvoicePerStart, ItemChargedOnce
<1> QED
  BY <1>1, <1>3, <1>4, <1>5 DEF Books


\* ItemOrder names every kind of charge.
LEMMA ItemOrderCovers ==
  /\ \A i \in 1..4 : ItemOrder[i] \in LineItem
  /\ \A i \in LineItem : \E j \in 1..4 : ItemOrder[j] = i
BY DEF ItemOrder, LineItem

\* Having created (or skipped) item n, the process is ready for item n + 1.
LEMMA NextItem ==
  ASSUME TypeOK, at \in 1..4, ItemsUpTo(at), Advance, invoices' = invoices,
         \/ bill.charge[ItemOrder[at]] = 0 /\ items' = items
         \/ bill.charge[ItemOrder[at]] > 0 /\ MakeItem(ItemOrder[at])
  PROVE  ItemsUpTo(at)'
<1> DEFINE k == ItemOrder[at]
           c == <<month, k, bill.charge[k]>>
<1>1. UNCHANGED <<month, starts, org, bill>> /\ at' = at + 1
  BY DEF Advance
<1>2. ~Invoiced(org)'
  BY <1>1 DEF ItemsUpTo, Invoiced
<1>3. ChargesBefore(at)' =
        IF bill.charge[k] > 0 THEN ChargesBefore(at) \cup {c} ELSE ChargesBefore(at)
  <2>1. \A j \in 1..4 : j < at + 1 <=> j < at \/ j = at
    OBVIOUS
  <2> QED
    BY <1>1, <2>1 DEF ChargesBefore
<1>4. Ledger!Charged(org, starts)' =
        IF bill.charge[k] > 0 THEN Ledger!Charged(org, starts) \cup {c}
        ELSE Ledger!Charged(org, starts)
  <2>1. CASE bill.charge[k] = 0 /\ items' = items
    BY <1>1, <2>1 DEF Ledger!Charged
  <2>2. CASE bill.charge[k] > 0 /\ MakeItem(k)
    BY <1>1, <2>2, MakeItemCharges
  <2> QED
    BY <2>1, <2>2
<1> QED
  BY <1>1, <1>2, <1>3, <1>4 DEF ItemsUpTo

\* All four items created, the charges made are the ones the bill tells of.
LEMMA AllCharged ==
  ASSUME TypeOK
  PROVE  ChargesBefore(5) = Ledger!Told(month, bill.charge)
<1>1. DOMAIN bill.charge = LineItem
  BY DEF TypeOK, MonthlyBill
<1>2. \A j \in 1..4 : j < 5
  OBVIOUS
<1> QED
  BY <1>1, <1>2, ItemOrderCovers DEF ChargesBefore, Ledger!Told

\* An organization the running start has not reached stays untouched while the
\* start works on another one.
LEMMA OthersUntouched ==
  ASSUME NEW o \in Orgs, Untouched(o), starts' = starts,
         \A i \in items' : i.org = o => \E j \in items : j.org = o /\ j.start = i.start,
         \A v \in invoices' : v \in invoices \/ v.id.org # o
  PROVE  Untouched(o)'
<1>1. ~Invoiced(o)'
  BY DEF Untouched, Invoiced
<1> QED
  BY <1>1 DEF Untouched

-----------------------------------------------------------------------------
(* What the running start owes.                                            *)

\* A settled organization stays settled while no row and no invoice is lost.
LEMMA SettledFrame ==
  ASSUME starts' = starts, invoices \subseteq invoices',
         \A q \in rows : \E r \in rows' : r.id = q.id
  PROVE  \A o : Settled(o) => Settled(o)'
<1> SUFFICES ASSUME NEW o, Settled(o)
             PROVE  Settled(o)'
  OBVIOUS
<1>1. PICK q \in rows, v \in invoices : q.id = v.id /\ v.id.org = o /\ v.start = starts
  BY DEF Settled
<1>2. PICK r \in rows' : r.id = q.id
  BY <1>1
<1> QED
  BY <1>1, <1>2 DEF Settled

\* The webhook handlers lose no row.
LEMMA HandlerKeepsRows ==
  ASSUME TypeOK, NEW id, NEW s, SetStatus(id, s)
  PROVE  \A q \in rows : \E r \in rows' : r.id = q.id
<1> SUFFICES ASSUME NEW q \in rows
             PROVE  \E r \in rows' : r.id = q.id
  OBVIOUS
<1>1. CASE q.id = id
  <2>1. [q EXCEPT !.status = s] \in rows'
    BY <1>1 DEF SetStatus
  <2>2. [q EXCEPT !.status = s].id = q.id
    BY DEF TypeOK, InvoiceRow
  <2> QED
    BY <2>1, <2>2
<1>2. CASE q.id # id
  BY <1>2 DEF SetStatus
<1> QED
  BY <1>1, <1>2

\* No step loses a row or an invoice, and only StartProcess changes the start.
LEMMA NothingIsLost ==
  ASSUME TypeOK, [Next]_vars
  PROVE  /\ starts' = starts \/ StartProcess
         /\ invoices \subseteq invoices'
         /\ \A q \in rows : \E r \in rows' : r.id = q.id
<1>1. ASSUME rows \subseteq rows'
      PROVE  \A q \in rows : \E r \in rows' : r.id = q.id
  BY <1>1
<1>2. CASE StartProcess \/ Crash \/ NextMonth \/ SelectOrgs \/ NextOrg \/ EndLoop
  BY <1>1, <1>2 DEF StartProcess, Crash, NextMonth, SelectOrgs, NextOrg, EndLoop, stripe, process
<1>3. CASE \/ CalculateMonthlyBill \/ CalculateFails \/ LookUpCustomer \/ NoCustomer
           \/ StoreInvoiceFails
  BY <1>1, <1>3 DEF CalculateMonthlyBill, CalculateFails, LookUpCustomer, NoCustomer,
                    StoreInvoiceFails, GiveUpOnOrg, stripe
<1>4. CASE SkipItem \/ CreateItem \/ CreateItemFails
  BY <1>1, <1>4 DEF SkipItem, CreateItem, CreateItemFails, MakeItem, Advance, GiveUpOnOrg, stripe
<1>5. CASE NewInvoice \/ NewInvoiceFails
  BY <1>1, <1>5 DEF NewInvoice, NewInvoiceFails, MakeInvoice, GiveUpOnOrg, stripe
<1>6. CASE StoreInvoice
  BY <1>1, <1>6 DEF StoreInvoice, process, stripe
<1>7. CASE HandleInvoicePaid \/ HandlePaymentFailed
  BY <1>7, HandlerKeepsRows DEF HandleInvoicePaid, HandlePaymentFailed, process, stripe
<1>8. ASSUME NEW o \in Orgs, SubscriptionInvoice(o)
      PROVE  starts' = starts /\ invoices' = invoices /\ rows' = rows
  BY <1>8 DEF SubscriptionInvoice, process
<1>9. CASE CollectInvoice \/ DeclinePayment \/ ChangePlan \/ ChangeStatus \/ UNCHANGED vars
  BY <1>1, <1>9 DEF CollectInvoice, DeclinePayment, ChangePlan, ChangeStatus, vars, process, stripe
<1> QED
  BY <1>1, <1>2, <1>3, <1>4, <1>5, <1>6, <1>7, <1>8, <1>9 DEF Next, ProcessStep

\* Every step keeps the account of what the start owes: a failed call strikes
\* out the organization it was for and no other.
LEMMA OwedStep ==
  ASSUME TypeOK, ItemProgress, OwedProgress, [Next]_vars
  PROVE  OwedProgress'
<1> USE DEF Running
<1>1. CASE StartProcess
  BY <1>1 DEF StartProcess, OwedProgress
<1>2. ASSUME ~StartProcess
      PROVE  /\ starts' = starts
             /\ \A o : Settled(o) => Settled(o)'
  BY <1>2, NothingIsLost, SettledFrame
<1>3. ASSUME phase \in {"calculate", "customer", "items", "invoice", "store"}, ~StartProcess
      PROVE  \A o \in owed \ (todo \cup {org}) : Settled(o)'
  BY <1>2, <1>3 DEF OwedProgress
<1>4. ASSUME phase \in {"calculate", "customer", "items", "invoice", "store"}, GiveUpOnOrg
      PROVE  OwedProgress'
  <2>1. UNCHANGED <<todo, org>> /\ owed' = owed \ {org} /\ phase' = "loop" /\ ~StartProcess
    BY <1>4 DEF GiveUpOnOrg, StartProcess
  <2> QED
    BY <1>3, <1>4, <2>1 DEF OwedProgress
<1>5. ASSUME phase \in {"calculate", "customer", "items", "invoice"},
             phase' \in {"calculate", "customer", "items", "invoice", "store"},
             UNCHANGED <<todo, org, owed>>
      PROVE  OwedProgress'
  <2>1. ~StartProcess
    BY <1>5 DEF StartProcess
  <2> QED
    BY <1>3, <1>5, <2>1 DEF OwedProgress
<1>6. ASSUME UNCHANGED <<process, phase>>
      PROVE  OwedProgress'
  <2>1. ~StartProcess
    BY <1>6 DEF StartProcess, process
  <2> QED
    BY <1>2, <1>6, <2>1 DEF OwedProgress, process
<1>7. CASE Crash
  BY <1>7 DEF Crash, OwedProgress
<1>8. CASE NextMonth
  BY <1>8 DEF NextMonth, OwedProgress
<1>9. CASE SelectOrgs
  BY <1>9 DEF SelectOrgs, OwedProgress
<1>10. CASE NextOrg
  <2>1. /\ owed' = owed /\ phase = "loop" /\ phase' = "calculate"
        /\ todo' = todo \ {org'} /\ org' \in todo
    BY <1>10 DEF NextOrg
  <2>2. \A o \in owed \ todo : Settled(o)'
    BY <1>2, <2>1 DEF OwedProgress, StartProcess
  <2> QED
    BY <2>1, <2>2 DEF OwedProgress
<1>11. CASE EndLoop
  <2>1. todo' = todo /\ phase = "loop" /\ phase' = "done" /\ owed' = owed \ todo
    BY <1>11 DEF EndLoop
  <2>2. \A o \in owed \ todo : Settled(o)'
    BY <1>2, <2>1 DEF OwedProgress, StartProcess
  <2> QED
    BY <2>1, <2>2 DEF OwedProgress
<1>12. CASE CalculateMonthlyBill
  <2>1. /\ UNCHANGED <<todo, org>> /\ phase = "calculate"
        /\ \/ phase' = "customer" /\ owed' = owed
           \/ phase' = "loop" /\ owed' = owed \ {org}
    BY <1>12 DEF CalculateMonthlyBill
  <2>2. ~StartProcess
    BY <2>1 DEF StartProcess
  <2> QED
    BY <1>3, <2>1, <2>2 DEF OwedProgress
<1>13. CASE CalculateFails \/ NoCustomer \/ CreateItemFails \/ NewInvoiceFails
            \/ StoreInvoiceFails
  BY <1>4, <1>13 DEF CalculateFails, NoCustomer, CreateItemFails, NewInvoiceFails,
                     StoreInvoiceFails
<1>14. CASE LookUpCustomer
  BY <1>5, <1>14 DEF LookUpCustomer
<1>15. CASE SkipItem \/ CreateItem
  BY <1>5, <1>15 DEF SkipItem, CreateItem, Advance
<1>16. CASE NewInvoice
  BY <1>5, <1>16 DEF NewInvoice
<1>17. CASE StoreInvoice
  <2>1. UNCHANGED <<starts, todo, org, owed, invoices>> /\ phase = "store" /\ phase' = "loop"
    BY <1>17 DEF StoreInvoice, process, stripe
  <2>2. PICK v \in invoices : v.id = ThisInvoice /\ v.start = starts
    BY <2>1 DEF ItemProgress
  <2>3. \E r \in rows' : r.id = ThisInvoice
    <3> DEFINE row == [id |-> ThisInvoice, month |-> month, bill |-> bill, status |-> "pending"]
    <3>1. row \in rows'
      BY <1>17 DEF StoreInvoice
    <3>2. row.id = ThisInvoice
      OBVIOUS
    <3> QED
      BY <3>1, <3>2
  <2>4. v.id.org = org
    BY <2>2 DEF ThisInvoice
  <2>5. Settled(org)'
    BY <2>1, <2>2, <2>3, <2>4 DEF Settled
  <2>6. \A o \in owed \ (todo \cup {org}) : Settled(o)'
    BY <1>3, <2>1 DEF StartProcess
  <2> QED
    BY <2>1, <2>5, <2>6 DEF OwedProgress
<1>18. CASE \/ CollectInvoice \/ DeclinePayment \/ HandleInvoicePaid \/ HandlePaymentFailed
            \/ ChangePlan \/ ChangeStatus \/ UNCHANGED vars
  BY <1>6, <1>18 DEF CollectInvoice, DeclinePayment, HandleInvoicePaid, HandlePaymentFailed,
                     ChangePlan, ChangeStatus, vars
<1>19. ASSUME NEW o \in Orgs, SubscriptionInvoice(o)
       PROVE  OwedProgress'
  BY <1>6, <1>19 DEF SubscriptionInvoice
<1> QED
  BY <1>1, <1>7, <1>8, <1>9, <1>10, <1>11, <1>12, <1>13, <1>14, <1>15, <1>16, <1>17, <1>18,
     <1>19
  DEF Next, ProcessStep

\* The pace of the start is kept by steps that leave the process alone, lose no
\* charge, make none, and add no row.
LEMMA PaceFrame ==
  ASSUME FreshWork, ItemProgress, UNCHANGED <<invoices, process, phase>>,
         Ledger!Charged(org, starts)' = Ledger!Charged(org, starts),
         \A i \in items' : \E j \in items : j.org = i.org /\ j.start = i.start,
         \A r \in rows' : \E q \in rows : r.id = q.id
  PROVE  FreshWork' /\ ItemProgress'
<1>1. \A o : Untouched(o) => Untouched(o)'
  BY DEF Untouched, Invoiced, process
<1>2. FreshWork'
  BY <1>1 DEF FreshWork, process
<1>3. \A n : ItemsUpTo(n) => ItemsUpTo(n)'
  BY DEF ItemsUpTo, Invoiced, ChargesBefore, process
<1>4. ThisInvoice' = ThisInvoice /\ Ledger!Told(month, bill.charge)' = Ledger!Told(month, bill.charge)
  BY DEF ThisInvoice, process, Ledger!Told
<1>5. ItemProgress'
  BY <1>3, <1>4 DEF ItemProgress, process
<1> QED
  BY <1>2, <1>5

\* Every step keeps the inductive invariant.
LEMMA IInvStep == IInv /\ [Next]_vars => IInv'
<1> SUFFICES ASSUME IInv, [Next]_vars
             PROVE  IInv'
  OBVIOUS
<1> USE DEF Running
<1>1. TypeOK /\ Books /\ FreshWork /\ ItemProgress /\ OwedProgress
  BY DEF IInv, Books
<1>2. TypeOK' /\ OwedProgress'
  BY <1>1, TypeStep, OwedStep
<1>3. SUFFICES Books' /\ FreshWork' /\ ItemProgress'
  BY <1>2 DEF IInv, Books
<1>4. ASSUME UNCHANGED <<rows, stripe, starts>>
      PROVE  Books'
  BY <1>1, <1>4, BooksFrame DEF stripe, TypeOK
<1>5. ASSUME UNCHANGED <<items, invoices, starts>>, NEW o, Untouched(o)
      PROVE  Untouched(o)'
  BY <1>5 DEF Untouched, Invoiced
<1>6. ASSUME UNCHANGED <<items, invoices, process, phase>>,
             \A r \in rows' : \E q \in rows : r.id = q.id
      PROVE  FreshWork' /\ ItemProgress'
  <2>1. Ledger!Charged(org, starts)' = Ledger!Charged(org, starts)
    BY <1>6 DEF Ledger!Charged, process
  <2> QED
    BY <1>1, <1>6, <2>1, PaceFrame
<1>7. CASE StartProcess
  <2>1. UNCHANGED <<rows, items, invoices, objects, events>> /\ starts' = starts + 1
    BY <1>7 DEF StartProcess, stripe
  <2>2. Books'
    BY <1>1, <2>1, BooksFrame DEF TypeOK
  <2>3. \A o \in Orgs : Untouched(o)'
    BY <1>1, <2>1 DEF Untouched, Invoiced, Books, NumberedByStart, TypeOK,
                      StripeInvoice, InvoiceItem
  <2>4. FreshWork' /\ ItemProgress'
    BY <1>2, <1>7, <2>3 DEF StartProcess, FreshWork, ItemProgress, TypeOK
  <2> QED
    BY <2>2, <2>4
<1>8. CASE Crash
  BY <1>1, <1>4, <1>8 DEF Crash, FreshWork, ItemProgress, process
<1>9. CASE NextMonth
  BY <1>1, <1>4, <1>9 DEF NextMonth, FreshWork, ItemProgress
<1>10. CASE SelectOrgs
  <2>1. UNCHANGED <<rows, stripe, starts, items, invoices>> /\ phase' = "loop"
    BY <1>10 DEF SelectOrgs, stripe
  <2>2. \A o \in Orgs : Untouched(o)'
    BY <1>1, <1>5, <1>10, <2>1 DEF SelectOrgs, FreshWork
  <2> QED
    BY <1>2, <1>4, <2>1, <2>2 DEF FreshWork, ItemProgress, TypeOK
<1>11. CASE NextOrg
  <2>1. /\ UNCHANGED <<rows, stripe, starts, items, invoices>>
        /\ phase = "loop" /\ phase' = "calculate"
        /\ org' \in todo /\ todo' = todo \ {org'}
    BY <1>11 DEF NextOrg, stripe
  <2>2. \A o \in todo : Untouched(o)
    BY <1>1, <2>1 DEF FreshWork
  <2>3. \A o \in todo : Untouched(o)'
    BY <1>5, <2>1, <2>2
  <2>4. Untouched(org)'
    BY <2>1, <2>3 DEF Untouched, Invoiced
  <2> QED
    BY <1>4, <2>1, <2>3, <2>4 DEF FreshWork, ItemProgress
<1>12. CASE EndLoop
  BY <1>1, <1>4, <1>12 DEF EndLoop, FreshWork, ItemProgress
<1>13. ASSUME UNCHANGED <<items, invoices, starts, todo, org>>,
              phase \in {"calculate", "customer", "items", "invoice", "store"},
              phase' = "loop"
       PROVE  FreshWork' /\ ItemProgress'
  BY <1>1, <1>5, <1>13 DEF FreshWork, ItemProgress
<1>14. CASE CalculateMonthlyBill
  <2>1. UNCHANGED <<rows, stripe, starts, items, invoices, todo, org>>
    BY <1>14 DEF CalculateMonthlyBill, stripe
  <2>2. phase = "calculate" /\ phase' \in {"customer", "loop"}
    BY <1>14 DEF CalculateMonthlyBill
  <2>3. Untouched(org)' /\ \A o \in todo' : Untouched(o)'
    BY <1>1, <1>5, <2>1, <2>2 DEF FreshWork, Untouched, Invoiced
  <2> QED
    BY <1>1, <1>4, <2>1, <2>2, <2>3 DEF FreshWork, ItemProgress
<1>15. CASE CalculateFails
  BY <1>4, <1>13, <1>15 DEF CalculateFails, GiveUpOnOrg, stripe
<1>16. CASE LookUpCustomer
  <2>1. UNCHANGED <<rows, stripe, starts, month, items, invoices, todo, org, bill>>
    BY <1>16 DEF LookUpCustomer, stripe
  <2>2. phase = "customer" /\ phase' = "items" /\ at' = 1
    BY <1>16 DEF LookUpCustomer
  <2>3. FreshWork'
    BY <1>1, <1>5, <2>1, <2>2 DEF FreshWork
  <2>4. ItemsUpTo(1)'
    <3>1. Untouched(org)'
      BY <1>1, <1>5, <2>1, <2>2 DEF FreshWork, Untouched, Invoiced
    <3>2. Ledger!Charged(org, starts)' = {}
      BY <3>1 DEF Untouched, Ledger!Charged
    <3>3. ChargesBefore(1)' = {}
      BY DEF ChargesBefore
    <3> QED
      BY <3>1, <3>2, <3>3 DEF ItemsUpTo, Untouched
  <2> QED
    BY <1>4, <2>1, <2>2, <2>3, <2>4 DEF ItemProgress
<1>17. CASE NoCustomer
  BY <1>4, <1>13, <1>17 DEF NoCustomer, GiveUpOnOrg, stripe
<1>18. ASSUME phase = "items", phase' \in {"items", "invoice"}, Advance, ItemsUpTo(at)'
       PROVE  ItemProgress'
  <2>1. at \in 1..4 /\ at' = at + 1 /\ phase' = IF at = 4 THEN "invoice" ELSE "items"
    BY <1>1, <1>18 DEF ItemProgress, Advance, TypeOK
  <2>2. CASE at = 4
    BY <1>18, <2>1, <2>2 DEF ItemProgress
  <2>3. CASE at # 4
    BY <1>18, <2>1, <2>3 DEF ItemProgress
  <2> QED
    BY <2>2, <2>3
<1>19. CASE SkipItem
  <2>1. /\ UNCHANGED <<rows, stripe, starts, items, invoices, todo, org>>
        /\ phase = "items" /\ phase' \in {"items", "invoice"} /\ Advance
    BY <1>19 DEF SkipItem, Advance, stripe
  <2>2. ItemsUpTo(at)'
    BY <1>1, <1>19, <2>1, NextItem DEF SkipItem, ItemProgress, TypeOK
  <2>3. FreshWork'
    BY <1>1, <1>5, <2>1 DEF FreshWork
  <2> QED
    BY <1>4, <1>18, <2>1, <2>2, <2>3
<1>20. ASSUME phase = "items", MakeItem(ItemOrder[at]),
              UNCHANGED <<rows, starts, todo, org>>
       PROVE  Books' /\ \A o \in todo \ {org} : Untouched(o)'
  <2>1. at \in 1..4 /\ ItemsUpTo(at)
    BY <1>1, <1>20 DEF ItemProgress, TypeOK
  <2>2. Books'
    BY <1>1, <1>20, <2>1, MakeItemKeepsBooks
  <2>3. ASSUME NEW o \in todo \ {org}
        PROVE  Untouched(o)'
    <3>1. Untouched(o) /\ o \in Orgs
      BY <1>1, <1>20 DEF FreshWork, TypeOK
    <3>2. invoices' = invoices /\ \A i \in items' : i.org = o => i \in items
      BY <1>20 DEF MakeItem
    <3> QED
      BY <1>20, <3>1, <3>2, OthersUntouched
  <2> QED
    BY <2>2, <2>3
<1>21. CASE CreateItem
  <2>1. /\ UNCHANGED <<rows, invoices, starts, todo, org>>
        /\ phase = "items" /\ phase' \in {"items", "invoice"}
        /\ MakeItem(ItemOrder[at]) /\ Advance
    BY <1>21 DEF CreateItem, Advance, MakeItem
  <2>2. ItemsUpTo(at)'
    BY <1>1, <1>21, <2>1, NextItem DEF CreateItem, ItemProgress, TypeOK
  <2>3. FreshWork'
    BY <1>1, <1>20, <2>1 DEF FreshWork
  <2> QED
    BY <1>18, <1>20, <2>1, <2>2, <2>3
<1>22. CASE CreateItemFails
  <2>1. /\ UNCHANGED <<rows, starts, todo, org>>
        /\ phase = "items" /\ phase' = "loop"
    BY <1>22 DEF CreateItemFails, GiveUpOnOrg
  <2>2. CASE MakeItem(ItemOrder[at])
    BY <1>1, <1>20, <2>1, <2>2 DEF FreshWork, ItemProgress
  <2>3. CASE UNCHANGED stripe
    BY <1>4, <1>13, <2>1, <2>3 DEF stripe
  <2> QED
    BY <1>22, <2>2, <2>3 DEF CreateItemFails
<1>23. ASSUME phase = "invoice", MakeInvoice, UNCHANGED <<rows, starts, todo, org>>
       PROVE  Books' /\ \A o \in todo \ {org} : Untouched(o)'
  <2>1. Books'
    BY <1>1, <1>23, MakeInvoiceKeepsBooks DEF ItemProgress, ItemsUpTo
  <2>2. ASSUME NEW o \in todo \ {org}
        PROVE  Untouched(o)'
    <3>1. Untouched(o) /\ o \in Orgs
      BY <1>1, <1>23 DEF FreshWork, TypeOK
    <3>2. items' = items /\ \A v \in invoices' : v \in invoices \/ v.id.org # o
      BY <1>23 DEF MakeInvoice
    <3> QED
      BY <1>23, <3>1, <3>2, OthersUntouched
  <2> QED
    BY <2>1, <2>2
<1>24. CASE NewInvoice
  <2> DEFINE new == [id |-> [org |-> org, number |-> NextObject(org)], start |-> starts,
                     month |-> month]
  <2>1. /\ UNCHANGED <<rows, items, starts, month, todo, org, bill>>
        /\ phase = "invoice" /\ phase' = "store" /\ MakeInvoice
        /\ inv' = NextObject(org) /\ new \in invoices'
    BY <1>24 DEF NewInvoice, MakeInvoice
  <2>2. new.id = ThisInvoice' /\ new.start = starts' /\ new.month = month'
    BY <2>1 DEF ThisInvoice
  <2> HIDE DEF new
  <2>3. ThisInvoice' = [org |-> org, number |-> NextObject(org)] /\ org \in Orgs
    BY <1>1, <2>1 DEF ThisInvoice, TypeOK
  <2>4. \A r \in rows' : r.id # ThisInvoice'
    BY <1>1, <2>1, <2>3, NextIsNew DEF Books, RowIsCovered
  <2>5. Ledger!Charged(org, starts)' = Ledger!Told(month, bill.charge)'
    <3>1. Ledger!Charged(org, starts) = Ledger!Told(month, bill.charge)
      BY <1>1, <2>1, AllCharged DEF ItemProgress, ItemsUpTo
    <3> QED
      BY <2>1, <3>1 DEF Ledger!Charged, Ledger!Told
  <2>6. ItemProgress'
    BY <2>1, <2>2, <2>4, <2>5 DEF ItemProgress
  <2>7. FreshWork'
    BY <1>1, <1>23, <2>1 DEF FreshWork
  <2> QED
    BY <1>23, <2>1, <2>6, <2>7
<1>25. CASE NewInvoiceFails
  <2>1. /\ UNCHANGED <<rows, starts, todo, org>>
        /\ phase = "invoice" /\ phase' = "loop"
    BY <1>25 DEF NewInvoiceFails, GiveUpOnOrg
  <2>2. CASE MakeInvoice
    BY <1>1, <1>23, <2>1, <2>2 DEF FreshWork, ItemProgress
  <2>3. CASE UNCHANGED stripe
    BY <1>4, <1>13, <2>1, <2>3 DEF stripe
  <2> QED
    BY <1>25, <2>2, <2>3 DEF NewInvoiceFails
<1>26. CASE StoreInvoice
  BY <1>1, <1>13, <1>26, StoreKeepsBooks DEF StoreInvoice, process, stripe
<1>27. CASE StoreInvoiceFails
  BY <1>4, <1>13, <1>27 DEF StoreInvoiceFails, GiveUpOnOrg, stripe
<1>28. ASSUME NEW o \in Orgs, SubscriptionInvoice(o)
       PROVE  Books' /\ FreshWork' /\ ItemProgress'
  <2>1. UNCHANGED <<rows, invoices, process, phase>>
    BY <1>28 DEF SubscriptionInvoice
  <2>2. Books'
    BY <1>1, <1>28, TakeUpKeepsBooks
  <2>3. Ledger!Charged(org, starts)' = Ledger!Charged(org, starts)
    <3> DEFINE C(q, n) == {<<i.month, i.kind, i.cents>> :
                             i \in {j \in items' : j.org = q /\ j.start = n}}
    <3>1. Ledger!Charged(org, starts)' = C(org, starts)
      BY <2>1 DEF Ledger!Charged, process
    <3>2. C(org, starts) = Ledger!Charged(org, starts)
      BY <1>1, <1>28, TakeUpCharges DEF Ledger!Charged
    <3> QED
      BY <3>1, <3>2
  <2>4. \A i \in items' : \E j \in items : j.org = i.org /\ j.start = i.start
    BY <1>1, <1>28, TakenUp
  <2> QED
    BY <1>1, <2>1, <2>2, <2>3, <2>4, PaceFrame
<1>29. CASE CollectInvoice \/ DeclinePayment
  <2>1. events \subseteq events' /\ UNCHANGED <<rows, items, invoices, objects, process, phase>>
    BY <1>29 DEF CollectInvoice, DeclinePayment, Send
  <2> QED
    BY <1>1, <1>6, <2>1, BooksFrame DEF TypeOK, process
<1>30. CASE HandleInvoicePaid \/ HandlePaymentFailed
  <2>1. UNCHANGED <<items, invoices, objects, events, process, phase>>
    BY <1>30 DEF HandleInvoicePaid, HandlePaymentFailed, stripe
  <2>2. Books' /\ \A r \in rows' : \E q \in rows : r.id = q.id
    BY <1>1, <1>30, <2>1, HandlerKeepsBooks
    DEF HandleInvoicePaid, HandlePaymentFailed, process
  <2> QED
    BY <1>6, <2>1, <2>2
<1>31. CASE ChangePlan \/ ChangeStatus \/ UNCHANGED vars
  <2>1. UNCHANGED <<rows, stripe, items, invoices, process, phase>>
    BY <1>31 DEF ChangePlan, ChangeStatus, vars, stripe
  <2> QED
    BY <1>4, <1>6, <2>1 DEF process
<1> QED
  BY <1>7, <1>8, <1>9, <1>10, <1>11, <1>12, <1>14, <1>15, <1>16, <1>17, <1>19,
     <1>21, <1>22, <1>24, <1>25, <1>26, <1>27, <1>28, <1>29, <1>30, <1>31
  DEF Next, ProcessStep

-----------------------------------------------------------------------------
(* The ledger customers see.                                               *)

\* The item after the ones of ItemsUpTo is the first of its kind and start.
LEMMA ItemIsCharged ==
  ASSUME TypeOK, at \in 1..4, ItemsUpTo(at), MakeItem(ItemOrder[at]), UNCHANGED rows
  PROVE  Ledger!Next
<1> DEFINE k == ItemOrder[at]
           new == [org |-> org, number |-> NextObject(org), start |-> starts, month |-> month,
                   kind |-> k, cents |-> bill.charge[k], invoice |-> 0]
<1>1. items' = items \cup {new} /\ UNCHANGED <<invoices, events>>
  BY DEF MakeItem
<1>2. new.org = org /\ new.start = starts /\ new.kind = k /\ new.invoice = 0
  OBVIOUS
<1> HIDE DEF new
<1>3. ASSUME NEW j \in items
      PROVE  <<j.org, j.start, j.kind>> # <<new.org, new.start, new.kind>>
  <2>1. ASSUME j.org = org, j.start = starts
        PROVE  j.kind # k
    <3>1. <<j.month, j.kind, j.cents>> \in Ledger!Charged(org, starts)
      BY <2>1 DEF Ledger!Charged
    <3>2. PICK n \in 1..4 : n < at /\ j.kind = ItemOrder[n]
      BY <3>1 DEF ItemsUpTo, ChargesBefore
    <3> QED
      BY <3>2 DEF ItemOrder
  <2> QED
    BY <1>2, <2>1
<1>4. \A v \in invoices : <<v.id.org, v.start>> # <<new.org, new.start>>
  BY <1>2 DEF ItemsUpTo, Invoiced
<1>5. Ledger!Charge(new)
  BY <1>1, <1>2, <1>3, <1>4 DEF Ledger!Charge
<1> QED
  BY <1>1, <1>5 DEF Ledger!Next

\* The invoice after the items is the first of its start, with a number of its own.
LEMMA InvoiceIsIssued ==
  ASSUME TypeOK, Books, ~Invoiced(org), MakeInvoice, UNCHANGED rows
  PROVE  Ledger!Next
<1> DEFINE new == [id |-> [org |-> org, number |-> NextObject(org)], start |-> starts,
                   month |-> month]
<1>1. invoices' = invoices \cup {new} /\ UNCHANGED <<items, events>> /\ org \in Orgs
  BY DEF MakeInvoice, TypeOK
<1>2. /\ new.id = [org |-> org, number |-> NextObject(org)]
      /\ new.id.org = org /\ new.id.number = NextObject(org) /\ new.start = starts
  OBVIOUS
<1> HIDE DEF new
<1>3. /\ \A w \in invoices : w.id # new.id
      /\ \A i \in items : i.org = org => i.invoice # new.id.number
  BY <1>1, <1>2, NextIsNew DEF Books
<1>4. \A w \in invoices : <<w.id.org, w.start>> # <<new.id.org, new.start>>
  BY <1>2 DEF Invoiced
<1>5. Ledger!Issue(new)
  BY <1>1, <1>2, <1>3, <1>4 DEF Ledger!Issue
<1> QED
  BY <1>1, <1>5 DEF Ledger!Next

\* A subscription invoice takes up what waits, under a number of its own.
LEMMA RenewalTakesUp ==
  ASSUME TypeOK, Books, NEW c \in Orgs, SubscriptionInvoice(c)
  PROVE  Ledger!Next
<1>1. /\ Pending(c) # {} /\ UNCHANGED <<rows, invoices, events>>
      /\ items' = (items \ Pending(c)) \cup
                    {[i EXCEPT !.invoice = NextObject(c)] : i \in Pending(c)}
  BY DEF SubscriptionInvoice
<1>2. Pending(c) = {i \in items : i.org = c /\ i.invoice = 0}
  BY DEF Pending
<1>3. /\ \A i \in items : i.org = c => i.invoice # NextObject(c)
      /\ \A v \in invoices : v.id # [org |-> c, number |-> NextObject(c)]
  BY NextIsNew DEF Books
<1>4. NextObject(c) # 0
  BY DEF NextObject, TypeOK
<1>5. Ledger!TakeUp(c, NextObject(c))
  BY <1>1, <1>2, <1>3, <1>4 DEF Ledger!TakeUp
<1>6. PICK i \in Pending(c) : TRUE
  BY <1>1
<1> DEFINE j == [i EXCEPT !.invoice = NextObject(c)]
<1>7. j \in items' /\ j.org = c /\ j.invoice = NextObject(c)
  BY <1>1, <1>6 DEF Pending, TypeOK, InvoiceItem
<1> QED
  BY <1>5, <1>7 DEF Ledger!Next

\* A handler that finds a row changes that row, since no other has its number.
LEMMA HandlerReflects ==
  ASSUME TypeOK, StatusJustified, NEW e \in events, SetStatus(e.id, Ledger!StatusOf(e.type)),
         UNCHANGED <<items, invoices, events>>
  PROVE  [Ledger!Next]_<<items, invoices, rows, events>>
<1> DEFINE s == Ledger!StatusOf(e.type)
<1>1. CASE \A r \in rows : r.id # e.id
  <2>1. rows' = rows
    BY <1>1 DEF SetStatus
  <2> QED
    BY <2>1
<1>2. ASSUME NEW r \in rows, r.id = e.id
      PROVE  Ledger!Next
  <2>1. \A q \in rows : q.id = e.id <=> q = r
    BY <1>2 DEF StatusJustified
  <2>2. rows' = (rows \ {r}) \cup {[r EXCEPT !.status = s]}
    BY <2>1 DEF SetStatus
  <2>3. Ledger!Reflect(e, r)
    BY <1>2, <2>2 DEF Ledger!Reflect
  <2> QED
    BY <2>3 DEF Ledger!Next
<1> QED
  BY <1>1, <1>2

\* Every step of the job, of Stripe and of the handlers is one of the ledger's,
\* or leaves the ledger as it is.
LEMMA StepRefinesLedger ==
  IInv /\ [Next]_vars => [Ledger!Next]_<<items, invoices, rows, events>>
<1> SUFFICES ASSUME IInv, [Next]_vars
             PROVE  [Ledger!Next]_<<items, invoices, rows, events>>
  OBVIOUS
<1>1. TypeOK /\ Books /\ ItemProgress
  BY DEF IInv, Books
<1>2. CASE CreateItem \/ CreateItemFails
  <2>1. phase = "items" /\ rows' = rows /\ at \in 1..4 /\ ItemsUpTo(at)
    BY <1>1, <1>2 DEF CreateItem, CreateItemFails, ItemProgress, TypeOK
  <2>2. CASE MakeItem(ItemOrder[at])
    BY <1>1, <2>1, <2>2, ItemIsCharged
  <2>3. CASE UNCHANGED stripe
    BY <2>1, <2>3 DEF stripe
  <2> QED
    BY <1>2, <2>2, <2>3 DEF CreateItem, CreateItemFails
<1>3. CASE NewInvoice \/ NewInvoiceFails
  <2>1. phase = "invoice" /\ rows' = rows /\ ~Invoiced(org)
    BY <1>1, <1>3 DEF NewInvoice, NewInvoiceFails, ItemProgress, ItemsUpTo
  <2>2. CASE MakeInvoice
    BY <1>1, <2>1, <2>2, InvoiceIsIssued
  <2>3. CASE UNCHANGED stripe
    BY <2>1, <2>3 DEF stripe
  <2> QED
    BY <1>3, <2>2, <2>3 DEF NewInvoice, NewInvoiceFails
<1>4. CASE StoreInvoice
  <2> DEFINE row == [id |-> ThisInvoice, month |-> month, bill |-> bill, status |-> "pending"]
  <2>1. rows' = rows \cup {row} /\ UNCHANGED <<items, invoices, events>> /\ phase = "store"
    BY <1>4 DEF StoreInvoice, stripe
  <2>2. row.id = ThisInvoice /\ row.month = month /\ row.bill = bill /\ row.status = "pending"
    OBVIOUS
  <2> HIDE DEF row
  <2>3. PICK v \in invoices : v.id = ThisInvoice /\ v.start = starts /\ v.month = month
    BY <1>1, <2>1 DEF ItemProgress
  <2>4. Ledger!Charged(v.id.org, v.start) = Ledger!Told(row.month, row.bill.charge)
    BY <1>1, <2>1, <2>2, <2>3 DEF ItemProgress, ThisInvoice
  <2>5. \A q \in rows : q.id # row.id
    BY <1>1, <2>1, <2>2 DEF ItemProgress
  <2>6. Ledger!Show(row)
    BY <2>1, <2>2, <2>3, <2>4, <2>5 DEF Ledger!Show
  <2> QED
    BY <2>1, <2>6 DEF Ledger!Next
<1>5. ASSUME NEW type, NEW v \in invoices, ~Sent("invoice.paid", v.id), Send(type, v.id),
             UNCHANGED <<items, rows, invoices>>
      PROVE  Ledger!Next
  <2> DEFINE e == [type |-> type, id |-> v.id]
  <2>1. e.id = v.id /\ events' = events \cup {e}
    BY <1>5 DEF Send
  <2> HIDE DEF e
  <2>2. Ledger!Report(e)
    BY <1>5, <2>1 DEF Ledger!Report, Sent
  <2> QED
    BY <2>1, <2>2 DEF Ledger!Next
<1>6. CASE CollectInvoice \/ DeclinePayment
  BY <1>5, <1>6 DEF CollectInvoice, DeclinePayment
<1>7. CASE HandleInvoicePaid \/ HandlePaymentFailed
  BY <1>1, <1>7, HandlerReflects
  DEF HandleInvoicePaid, HandlePaymentFailed, Ledger!StatusOf, Books, stripe
<1>8. ASSUME NEW o \in Orgs, SubscriptionInvoice(o)
      PROVE  Ledger!Next
  BY <1>1, <1>8, RenewalTakesUp
<1>9. CASE \/ StartProcess \/ Crash \/ NextMonth
           \/ SelectOrgs \/ NextOrg \/ EndLoop
           \/ CalculateMonthlyBill \/ CalculateFails
           \/ LookUpCustomer \/ NoCustomer \/ SkipItem \/ StoreInvoiceFails
  BY <1>9 DEF StartProcess, Crash, NextMonth, SelectOrgs, NextOrg, EndLoop,
              CalculateMonthlyBill, CalculateFails, LookUpCustomer, NoCustomer,
              SkipItem, StoreInvoiceFails, stripe
<1>10. CASE ChangePlan \/ ChangeStatus \/ UNCHANGED vars
  BY <1>10 DEF ChangePlan, ChangeStatus, vars, stripe
<1> QED
  BY <1>2, <1>3, <1>4, <1>6, <1>7, <1>8, <1>9, <1>10 DEF Next, ProcessStep

-----------------------------------------------------------------------------
(* The loop comes to an end.                                               *)

\* The organizations still to do can be counted.
LEMMA TodoIsFinite ==
  ASSUME TypeOK
  PROVE  /\ IsFiniteSet(todo)
         /\ Cardinality(todo) \in Nat
         /\ Cardinality(Orgs) \in Nat
BY BillingAssumption, FS_Subset, FS_CardinalityType DEF TypeOK

\* A running start has a step to take; one that is not running has none.
LEMMA RunningHasSteps ==
  ASSUME TypeOK, ItemProgress
  PROVE  /\ StepsLeft \in Nat
         /\ phase \in Running => StepsLeft > 0
         /\ phase \notin Running => StepsLeft = 0
<1>1. Cardinality(todo) \in Nat /\ Cardinality(Orgs) \in Nat
  BY TodoIsFinite
<1>2. phase = "items" => at \in 1..4
  BY DEF ItemProgress, TypeOK
<1> QED
  BY <1>1, <1>2 DEF StepsLeft, Running, TypeOK, Phase

\* Every step keeps to the descent.
LEMMA StepDescends == IInv /\ [Next]_vars => Descends
<1> SUFFICES ASSUME IInv, Next, phase \in Running, ~UNCHANGED <<process, phase>>
             PROVE  StepsLeft' < StepsLeft
  BY DEF Descends, vars
<1>1. TypeOK /\ ItemProgress /\ TypeOK'
  BY IInvStep DEF IInv
<1>2. /\ IsFiniteSet(todo) /\ Cardinality(todo) \in Nat /\ Cardinality(Orgs) \in Nat
      /\ StepsLeft \in Nat /\ StepsLeft > 0
  BY <1>1, TodoIsFinite, RunningHasSteps
<1>3. CASE Crash \/ EndLoop
  <2>1. phase' \in {"failed", "done"} /\ (phase = "loop" \/ phase' = "failed")
    BY <1>3 DEF Crash, EndLoop
  <2>2. StepsLeft' = 0
    BY <2>1 DEF StepsLeft
  <2> QED
    BY <1>2, <2>2
<1>4. CASE SelectOrgs
  <2>1. todo' \subseteq Orgs /\ phase = "select" /\ phase' = "loop"
    BY <1>4 DEF SelectOrgs
  <2>2. Cardinality(todo') \in Nat /\ Cardinality(todo') <= Cardinality(Orgs)
    BY <2>1, BillingAssumption, FS_Subset, FS_CardinalityType
  <2> QED
    BY <1>2, <2>1, <2>2 DEF StepsLeft
<1>5. CASE NextOrg
  <2>1. org' \in todo /\ todo' = todo \ {org'} /\ phase = "loop" /\ phase' = "calculate"
    BY <1>5 DEF NextOrg
  <2>2. Cardinality(todo') = Cardinality(todo) - 1
    BY <1>2, <2>1, FS_RemoveElement
  <2> QED
    BY <1>2, <2>1, <2>2 DEF StepsLeft
<1>6. CASE CalculateMonthlyBill
  <2>1. todo' = todo /\ phase = "calculate" /\ phase' \in {"customer", "loop"}
    BY <1>6 DEF CalculateMonthlyBill
  <2> QED
    BY <1>2, <2>1 DEF StepsLeft
<1>7. ASSUME GiveUpOnOrg, phase \in {"calculate", "customer", "items", "invoice", "store"}
      PROVE  StepsLeft' < StepsLeft
  <2>1. todo' = todo /\ phase' = "loop"
    BY <1>7 DEF GiveUpOnOrg
  <2>2. phase = "items" => at \in 1..4
    BY <1>1 DEF ItemProgress, TypeOK
  <2> QED
    BY <1>2, <1>7, <2>1, <2>2 DEF StepsLeft
<1>8. CASE CalculateFails \/ NoCustomer \/ CreateItemFails \/ NewInvoiceFails
           \/ StoreInvoiceFails
  BY <1>7, <1>8 DEF CalculateFails, NoCustomer, CreateItemFails, NewInvoiceFails,
                    StoreInvoiceFails
<1>9. CASE LookUpCustomer
  <2>1. todo' = todo /\ at' = 1 /\ phase = "customer" /\ phase' = "items"
    BY <1>9 DEF LookUpCustomer
  <2> QED
    BY <1>2, <2>1 DEF StepsLeft
<1>10. CASE SkipItem \/ CreateItem
  <2>1. /\ todo' = todo /\ at' = at + 1 /\ phase = "items"
        /\ phase' = IF at = 4 THEN "invoice" ELSE "items"
    BY <1>10 DEF SkipItem, CreateItem, Advance
  <2>2. at \in 1..4
    BY <1>1, <2>1 DEF ItemProgress, TypeOK
  <2> QED
    BY <1>2, <2>1, <2>2 DEF StepsLeft
<1>11. CASE NewInvoice \/ StoreInvoice
  <2>1. /\ todo' = todo
        /\ \/ phase = "invoice" /\ phase' = "store"
           \/ phase = "store" /\ phase' = "loop"
    BY <1>11 DEF NewInvoice, StoreInvoice, process
  <2> QED
    BY <1>2, <2>1 DEF StepsLeft
<1>12. CASE StartProcess \/ NextMonth
  BY <1>12 DEF StartProcess, NextMonth, Running
<1>13. CASE CollectInvoice \/ DeclinePayment \/ HandleInvoicePaid \/ HandlePaymentFailed
            \/ ChangePlan \/ ChangeStatus
  BY <1>13 DEF CollectInvoice, DeclinePayment, HandleInvoicePaid, HandlePaymentFailed,
               ChangePlan, ChangeStatus
<1>14. ASSUME NEW o \in Orgs, SubscriptionInvoice(o)
       PROVE  FALSE
  BY <1>14 DEF SubscriptionInvoice
<1> QED
  BY <1>3, <1>4, <1>5, <1>6, <1>8, <1>9, <1>10, <1>11, <1>12, <1>13, <1>14
  DEF Next, ProcessStep

-----------------------------------------------------------------------------
(* The theorems.                                                           *)

\* The inductive invariant holds of every behaviour.
THEOREM IInvAlways == Spec => []IInv
BY IInvInit, IInvStep, PTL DEF Spec

\* The tables, the job's registers and Stripe's objects are always well formed.
THEOREM TypeCorrect == Spec => []TypeOK
<1>1. IInv => TypeOK
  BY DEF IInv
<1> QED
  BY <1>1, IInvAlways, PTL

\* A stored row always names an invoice Stripe made, and the items of the start
\* that asked for it are exactly the row's positive charges, wherever Stripe has
\* put them and whatever failed, crashed or was restarted.
THEOREM StoredInvoicesAreCovered == Spec => []RowIsCovered
<1>1. IInv => RowIsCovered
  BY DEF IInv
<1> QED
  BY <1>1, IInvAlways, PTL

\* No process start ever invoices an organization twice.
THEOREM StartInvoicesOnce == Spec => []OneInvoicePerStart
<1>1. IInv => OneInvoicePerStart
  BY DEF IInv
<1> QED
  BY <1>1, IInvAlways, PTL

\* No start ever makes two items of a kind for an organization.
THEOREM ItemsAreChargedOnce == Spec => []ItemChargedOnce
<1>1. IInv => ItemChargedOnce
  BY DEF IInv
<1> QED
  BY <1>1, IInvAlways, PTL

\* The failure of one organization never costs another its stored invoice.
THEOREM OthersAreBilled == Spec => []UndisturbedAreBilled
<1>1. IInv => UndisturbedAreBilled
  BY DEF IInv, OwedProgress, UndisturbedAreBilled
<1> QED
  BY <1>1, IInvAlways, PTL

\* The job, with all its failures and restarts, shows customers a behaviour of
\* InvoiceLedger.
THEOREM KeepsLedger == Spec => ImplementsLedger
<1>1. Init => Ledger!Init
  BY DEF Init, Ledger!Init
<1> QED
  BY IInvAlways, <1>1, StepRefinesLedger, PTL DEF Spec, ImplementsLedger, Ledger!Spec

\* A start takes at most 9 * Cardinality(Orgs) + 2 steps: the part of its
\* termination that needs no fairness.
THEOREM StartsRunDown == Spec => StartDescends
BY IInvAlways, StepDescends, PTL DEF Spec, StartDescends

\* The status of a stored invoice is always one Stripe reported for it.
THEOREM StatusesAreJustified == Spec => []StatusJustified
<1>1. IInv => StatusJustified
  BY DEF IInv
<1> QED
  BY <1>1, IInvAlways, PTL
=============================================================================
