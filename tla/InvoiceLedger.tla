--------------------------- MODULE InvoiceLedger ---------------------------
(***************************************************************************)
(* What customers are promised of the monthly invoicing, without the job,  *)
(* its calls and its crashes.  A start of the job charges an item of each  *)
(* kind at most once and all of them before its invoice; an item that went *)
(* on an invoice stays there; a row tells of exactly the items its start   *)
(* charged; and a report changes one row, that of its invoice.  A row says *)
(* what was reported of its invoice at some time, not what was reported    *)
(* last: the webhook may see reports late and in any order.                *)
(* MonthlyBilling implements it with the same variables.                   *)
(***************************************************************************)
EXTENDS Naturals

VARIABLES
  items,    \* charged items; invoice is 0 while an item waits for one
  invoices, \* invoices asked for
  rows,     \* the invoices customers are shown
  events    \* what was reported of an invoice

Init == items = {} /\ invoices = {} /\ rows = {} /\ events = {}

\* What a start charged an organization, and what a bill tells of.
Charged(o, start) ==
  {<<i.month, i.kind, i.cents>> : i \in {j \in items : j.org = o /\ j.start = start}}

Told(month, charge) ==
  {<<month, k, charge[k]>> : k \in {j \in DOMAIN charge : charge[j] > 0}}

\* A charge of a kind and start not charged before, and not invoiced yet.
Charge(i) ==
  /\ i.invoice = 0
  /\ \A j \in items : <<j.org, j.start, j.kind>> # <<i.org, i.start, i.kind>>
  /\ \A v \in invoices : <<v.id.org, v.start>> # <<i.org, i.start>>
  /\ items' = items \cup {i}
  /\ UNCHANGED <<invoices, rows, events>>

\* All that waits for an invoice goes on a new one.
TakeUp(o, number) ==
  LET waiting == {i \in items : i.org = o /\ i.invoice = 0} IN
  /\ waiting # {}
  /\ number # 0
  /\ \A i \in items : i.org = o => i.invoice # number
  /\ \A v \in invoices : v.id # [org |-> o, number |-> number]
  /\ items' = (items \ waiting) \cup {[i EXCEPT !.invoice = number] : i \in waiting}
  /\ UNCHANGED <<invoices, rows, events>>

\* A start asks for one invoice of an organization.
Issue(v) ==
  /\ \A w \in invoices : w.id # v.id /\ <<w.id.org, w.start>> # <<v.id.org, v.start>>
  /\ \A i \in items : i.org = v.id.org => i.invoice # v.id.number
  /\ invoices' = invoices \cup {v}
  /\ UNCHANGED <<items, rows, events>>

\* The first row of an invoice: not a charge more or less than its start made.
Show(r) ==
  /\ r.status = "pending"
  /\ \A q \in rows : q.id # r.id
  /\ \E v \in invoices :
       /\ v.id = r.id
       /\ v.month = r.month
       /\ Charged(v.id.org, v.start) = Told(r.month, r.bill.charge)
  /\ rows' = rows \cup {r}
  /\ UNCHANGED <<items, invoices, events>>

\* Nothing is reported of an invoice that was not issued or was paid before.
Report(e) ==
  /\ \E v \in invoices : v.id = e.id
  /\ [type |-> "invoice.paid", id |-> e.id] \notin events
  /\ events' = events \cup {e}
  /\ UNCHANGED <<items, invoices, rows>>

StatusOf(type) == IF type = "invoice.paid" THEN "paid" ELSE "payment_failed"

\* A report, late or repeated, changes the row of its invoice and no other.
Reflect(e, r) ==
  /\ r.id = e.id
  /\ rows' = (rows \ {r}) \cup {[r EXCEPT !.status = StatusOf(e.type)]}
  /\ UNCHANGED <<items, invoices, events>>

\* Charge, Issue, Show and Report add the element they are about.
Next ==
  \/ \E i \in items' : Charge(i) \/ TakeUp(i.org, i.invoice)
  \/ \E v \in invoices' : Issue(v)
  \/ \E r \in rows' : Show(r)
  \/ \E e \in events' : Report(e)
  \/ \E e \in events, r \in rows : Reflect(e, r)

Spec == Init /\ [][Next]_<<items, invoices, rows, events>>
=============================================================================
