--------------------------- MODULE UsageCollector ---------------------------
(***************************************************************************)
(* The usage collector (usage-collector/main.go): a CronJob starts a run   *)
(* every half hour; the run measures every active namespace, stores one    *)
(* usage_records row for each, and adds up the records of the previous     *)
(* hour in usage_aggregates, from which the dashboard and the monthly bill *)
(* are computed.                                                           *)
(*                                                                         *)
(* Runs may overlap (the CronJob sets no concurrencyPolicy), be killed and *)
(* be restarted.  A measurement is what Prometheus counted in the last     *)
(* hour, or less when queries fail: a failed query counts as zero.  The    *)
(* four counters are one figure here; the two storage gauges are added up  *)
(* over the records in the same way.                                       *)
(*                                                                         *)
(* Time passes in half hours.  Slot t is the half hour from t to t + 1;    *)
(* hour h consists of the slots 2h and 2h + 1.                             *)
(***************************************************************************)
EXTENDS Integers, FiniteSetsExt

CONSTANTS
  Namespace,  \* temporal namespaces
  Pod,        \* collector pods that may run at the same time
  MaxActions, \* bound on the actions a namespace performs in a slot
  MaxSlot,    \* bound on time
  MaxRuns     \* bound on collection runs

ASSUME CollectorAssumption ==
  /\ MaxActions \in Nat
  /\ MaxSlot \in Nat
  /\ MaxRuns \in Nat

VARIABLES
  now,         \* the current slot
  performed,   \* actions performed by each namespace in each slot so far
  active,      \* namespaces with status 'active'
  records,     \* usage_records
  aggregates,  \* usage_aggregates
  runs,        \* runs started; numbers them
  pod          \* what each pod is doing

vars == <<now, performed, active, records, aggregates, runs, pod>>

HourOf(slot) == slot \div 2

Phase == {"idle", "collect", "measured", "insert", "aggregate", "commit"}

Record == [run : Nat, ns : Namespace, hour : Int, actions : Nat]

\* A pod's run: its number, the namespaces left, the one at hand with its
\* measurement, the hour stamped on the record or to be aggregated, and the
\* rows its INSERT ... SELECT has computed and not committed.
PodState ==
  [phase : Phase, run : Nat, left : SUBSET Namespace, ns : Namespace,
   actions : Nat, hour : Int, sums : SUBSET Record]

\* Rows of both tables carry the run that inserted them, and a table has
\* finitely many rows: sums over records are defined.
TypeOK ==
  /\ now \in Nat
  /\ performed \in [Namespace -> [0..MaxSlot -> 0..MaxActions]]
  /\ active \subseteq Namespace
  /\ records \subseteq Record /\ IsFiniteSet(records)
  /\ aggregates \subseteq Record
  /\ runs \in Nat
  /\ pod \in [Pod -> PodState]

\* A quiet hour is over, so that a full hour precedes every measurement.
Init ==
  /\ now = 2
  /\ performed = [n \in Namespace |-> [t \in 0..MaxSlot |-> 0]]
  /\ active = {}
  /\ records = {}
  /\ aggregates = {}
  /\ runs = 0
  /\ pod \in [Pod -> [phase : {"idle"}, run : {0}, left : {{}}, ns : Namespace,
                      actions : {0}, hour : {0}, sums : {{}}]]

-----------------------------------------------------------------------------
(* The surroundings.                                                       *)

\* A namespace's actions of a slot are known when it is over.
Tick ==
  /\ now < MaxSlot
  /\ now' = now + 1
  /\ \E f \in [Namespace -> 0..MaxActions] :
       performed' = [n \in Namespace |-> [performed[n] EXCEPT ![now] = f[n]]]
  /\ UNCHANGED <<active, records, aggregates, runs, pod>>

\* provisionNamespace of the billing service ends with success.
ActivateNamespace(n) ==
  /\ n \notin active
  /\ active' = active \cup {n}
  /\ UNCHANGED <<now, performed, records, aggregates, runs, pod>>

-----------------------------------------------------------------------------
(* A run.                                                                  *)

\* A pod between two steps of its loop, or at the end of its run: the local
\* variables of the step are gone.
Resting(c, phase) ==
  [pod[c] EXCEPT !.phase = phase, !.actions = 0, !.hour = 0, !.sums = {},
                 !.left = IF phase = "idle" THEN {} ELSE @]

\* getTrackedNamespaces; a run whose query fails ends without a trace.
StartRun(c) ==
  /\ pod[c].phase = "idle"
  /\ runs < MaxRuns
  /\ runs' = runs + 1
  /\ pod' = [pod EXCEPT ![c].phase = "collect", ![c].run = runs + 1, ![c].left = active]
  /\ UNCHANGED <<now, performed, active, records, aggregates>>

\* increase(...[1h]): the last two slots.
LastHour(n) == performed[n][now - 1] + performed[n][now - 2]

\* Variant: the loop does not move on.
MeasureAgain(c) ==
  /\ pod[c].phase = "collect"
  /\ \E n \in pod[c].left : \E a \in 0..LastHour(n) :
       pod' = [pod EXCEPT ![c].phase = "measured", ![c].ns = n, ![c].actions = a]
  /\ UNCHANGED <<now, performed, active, records, aggregates, runs>>

\* collectNamespaceUsage, with any of its queries failing.
Measure(c) ==
  /\ pod[c].phase = "collect"
  /\ \E n \in pod[c].left : \E a \in 0..LastHour(n) :
       pod' = [pod EXCEPT ![c].phase = "measured", ![c].left = @ \ {n},
                          ![c].ns = n, ![c].actions = a]
  /\ UNCHANGED <<now, performed, active, records, aggregates, runs>>

\* Variant: the hour is rounded up.
StampRecordNext(c) ==
  /\ pod[c].phase = "measured"
  /\ pod' = [pod EXCEPT ![c].phase = "insert", ![c].hour = HourOf(now + 1)]
  /\ UNCHANGED <<now, performed, active, records, aggregates, runs>>

\* storeUsage reads the clock, then the INSERT is executed.
StampRecord(c) ==
  /\ pod[c].phase = "measured"
  /\ pod' = [pod EXCEPT ![c].phase = "insert", ![c].hour = HourOf(now)]
  /\ UNCHANGED <<now, performed, active, records, aggregates, runs>>

StoreUsage(c) ==
  /\ pod[c].phase = "insert"
  /\ records' = records \cup {[run |-> pod[c].run, ns |-> pod[c].ns,
                               hour |-> pod[c].hour, actions |-> pod[c].actions]}
  /\ pod' = [pod EXCEPT ![c] = Resting(c, "collect")]
  /\ UNCHANGED <<now, performed, active, aggregates, runs>>

\* The error is logged and the run goes on.
StoreUsageFails(c) ==
  /\ pod[c].phase = "insert"
  /\ pod' = [pod EXCEPT ![c] = Resting(c, "collect")]
  /\ UNCHANGED <<now, performed, active, records, aggregates, runs>>

PreviousHourForgotten(slot) == HourOf(slot)  \* variant: without the "- 1"

\* The hour to aggregate.
PreviousHour(slot) == HourOf(slot) - 1

\* aggregateHourly reads the clock, then the INSERT ... SELECT is executed.
BeginAggregation(c) ==
  /\ pod[c].phase = "collect"
  /\ pod[c].left = {}
  /\ pod' = [pod EXCEPT ![c].phase = "aggregate", ![c].hour = PreviousHour(now)]
  /\ UNCHANGED <<now, performed, active, records, aggregates, runs>>

RecordsOf(n, h) == {r \in records : r.ns = n /\ r.hour = h}

TotalActions(rs) == MapThenSumSet(LAMBDA r : r.actions, rs)

\* The statement's snapshot of the table, and the rows made of it.
SumInto(c, rows) ==
  /\ pod[c].phase = "aggregate"
  /\ pod' = [pod EXCEPT ![c].phase = "commit", ![c].sums = rows]
  /\ UNCHANGED <<now, performed, active, records, aggregates, runs>>

\* Variant: a run adds up only what it stored itself.
SumOwnRecords(c) ==
  SumInto(c,
    {[run |-> pod[c].run, ns |-> r.ns, hour |-> r.hour, actions |-> r.actions] :
       r \in {q \in records : q.hour = pod[c].hour /\ q.run = pod[c].run}})

\* Variant: the new row adds to the rows the hour already has.
SumAccumulates(c) ==
  SumInto(c,
    {[run |-> pod[c].run, ns |-> n, hour |-> pod[c].hour,
      actions |-> TotalActions(RecordsOf(n, pod[c].hour))
                    + TotalActions({a \in aggregates : a.ns = n /\ a.hour = pod[c].hour})] :
       n \in {m \in Namespace : RecordsOf(m, pod[c].hour) # {}}})

\* One row for each namespace with records in the hour, whether the hour has
\* been aggregated before or not.
SumHour(c) ==
  SumInto(c,
    {[run |-> pod[c].run, ns |-> n, hour |-> pod[c].hour,
      actions |-> TotalActions(RecordsOf(n, pod[c].hour))] :
       n \in {m \in Namespace : RecordsOf(m, pod[c].hour) # {}}})

\* The rows become visible when the statement commits, by when other runs may
\* have stored more records or committed sums of a later snapshot.  Nothing is
\* compared with the rows there are: ON CONFLICT has no constraint to act on.
InsertAggregates(c) ==
  /\ pod[c].phase = "commit"
  /\ aggregates' = aggregates \cup pod[c].sums
  /\ pod' = [pod EXCEPT ![c] = Resting(c, "idle")]
  /\ UNCHANGED <<now, performed, active, records, runs>>

\* A failed aggregation is logged and the run ends; a pod may be killed at any
\* point of its run.
EndRun(c) ==
  /\ pod[c].phase # "idle"
  /\ pod' = [pod EXCEPT ![c] = Resting(c, "idle")]
  /\ UNCHANGED <<now, performed, active, records, aggregates, runs>>

-----------------------------------------------------------------------------
(* The specification.                                                      *)

Next ==
  \/ Tick
  \/ \E n \in Namespace : ActivateNamespace(n)
  \/ \E c \in Pod :
       \/ StartRun(c) \/ Measure(c)
       \/ StampRecord(c) \/ StoreUsage(c) \/ StoreUsageFails(c)
       \/ BeginAggregation(c) \/ SumHour(c) \/ InsertAggregates(c) \/ EndRun(c)

Spec == Init /\ [][Next]_vars

-----------------------------------------------------------------------------
(* What the collector guarantees.                                          *)

\* The rows stored in usage_aggregates or about to be committed.
Computed == aggregates \cup UNION {pod[c].sums : c \in Pod}

\* Only hours that are over are aggregated, and a run still about to aggregate
\* has such an hour in hand, so that no measurement of the hour is yet to come
\* except from runs that stamped it before.
AggregatesArePast ==
  /\ \A a \in Computed : a.hour < HourOf(now)
  /\ \A c \in Pod : pod[c].phase = "aggregate" => pod[c].hour < HourOf(now)

\* A run stores at most one record of a namespace and aggregates a namespace at
\* most once, although runs overlap, fail and are killed: all double counting
\* is between runs.
OneRowPerRun ==
  /\ \A r, q \in records : r.run = q.run /\ r.ns = q.ns => r = q
  /\ \A a, b \in aggregates : a.run = b.run /\ a.ns = b.ns => a = b

\* An aggregate never counts more than the records of its hour hold, also when
\* runs overlap.  It bounds one aggregate; the sums of an hour over all runs
\* that aggregate it are not bounded, nor do overlapping measurements show.
AggregatesAreCovered ==
  \A a \in Computed :
    /\ RecordsOf(a.ns, a.hour) # {}
    /\ a.actions <= TotalActions(RecordsOf(a.ns, a.hour))

\* When an hour is summed again the new sum counts at least as much as every
\* earlier one, committed or under way: records are added late, but never lost.
\* A statement may still commit after one with a later snapshot.
AggregatesNeverShrink ==
  [][\A a \in Computed' \ Computed, b \in Computed :
       a.ns = b.ns /\ a.hour = b.hour => a.actions >= b.actions]_vars

-----------------------------------------------------------------------------
(* The inductive invariant.                                                *)

\* Run numbers are handed out once and no two pods work on the same run.
RunsAreDistinct ==
  /\ \A c \in Pod : pod[c].run <= runs
  /\ \A r \in records \cup aggregates : r.run <= runs
  /\ \A c, d \in Pod : c # d /\ pod[c].phase # "idle" => pod[c].run # pod[d].run

\* What a working pod has still to store is not stored, and its aggregates are
\* not inserted.
WorkIsAhead ==
  \A c \in Pod : pod[c].phase # "idle" =>
    /\ \A r \in records : r.run = pod[c].run => r.ns \notin pod[c].left
    /\ pod[c].phase \in {"measured", "insert"} =>
         /\ pod[c].ns \notin pod[c].left
         /\ \A r \in records : r.run = pod[c].run => r.ns # pod[c].ns
    /\ \A a \in aggregates : a.run # pod[c].run

\* The sums a statement computed are of its run, one for a namespace.
SumsOfRuns ==
  \A c \in Pod :
    /\ pod[c].phase # "commit" => pod[c].sums = {}
    /\ \A a \in pod[c].sums : a.run = pod[c].run
    /\ \A a, b \in pod[c].sums : a.ns = b.ns => a = b

\* No record is stamped with an hour to come.
StampsArePast ==
  /\ \A r \in records : r.hour <= HourOf(now)
  /\ \A c \in Pod : pod[c].phase = "insert" => pod[c].hour <= HourOf(now)

\* OneRowPerRun, AggregatesArePast and AggregatesAreCovered with what makes them
\* inductive.
IInv ==
  /\ TypeOK
  /\ RunsAreDistinct
  /\ WorkIsAhead
  /\ SumsOfRuns
  /\ StampsArePast
  /\ AggregatesArePast
  /\ OneRowPerRun
  /\ AggregatesAreCovered

=============================================================================
