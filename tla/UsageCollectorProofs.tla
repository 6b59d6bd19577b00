------------------------ MODULE UsageCollectorProofs ------------------------
(***************************************************************************)
(* UsageCollector keeps its inductive invariant: hours are aggregated only *)
(* when they are over, and a run stores and aggregates a namespace at most *)
(* once, and an aggregate never counts more than the records of its hour   *)
(* hold, for any number of namespaces, pods, runs and slots.               *)
(***************************************************************************)
EXTENDS UsageCollector, FiniteSetTheorems, TLAPS

-----------------------------------------------------------------------------
(* What TotalActions computes.  It is a recursive function on the subsets  *)
(* of a set of records; that it exists, and what it adds up to, is shown   *)
(* by taking a smallest subset for which it were otherwise.                *)

\* The element MapThenSumSet adds first.
Pick(s) == CHOOSE x \in s : TRUE

\* g gives every subset of S its sum: the equation of the recursive function in
\* MapThenFoldSet.
Adds(g, S) ==
  g = [s \in SUBSET S |-> IF s = {} THEN 0 ELSE Pick(s).actions + g[s \ {Pick(s)}]]

\* Induction over the subsets of a finite set, as a least counterexample: a set
\* of subsets that is not empty has a smallest one.
LEMMA MinimalSubset ==
  ASSUME NEW S, IsFiniteSet(S), NEW D \in SUBSET (SUBSET S), D # {}
  PROVE  \E s \in D : \A t \in D : t \subseteq s => t = s
<1>1. FiniteSubsetsOf(S) = SUBSET S
  BY FS_FiniteSubsetsOfFinite
<1>2. IsWellFoundedOn(StrictSubsetOrdering(S), SUBSET S)
  BY <1>1, FS_StrictSubsetOrderingWellFounded
<1>3. PICK s \in D : \A t \in D : <<t, s>> \notin StrictSubsetOrdering(S)
  BY <1>2, WFMin
<1> QED
  BY <1>3 DEF StrictSubsetOrdering

\* The total is the value at S of a solution for S.
LEMMA TotalIs ==
  ASSUME NEW S
  PROVE  TotalActions(S) = (CHOOSE g : Adds(g, S))[S]
BY DEF TotalActions, MapThenSumSet, MapThenFoldSet, Adds, Pick

\* Two solutions for a finite set agree.
LEMMA AddsUnique ==
  ASSUME NEW S, IsFiniteSet(S), NEW g, NEW h, Adds(g, S), Adds(h, S)
  PROVE  g = h
<1> DEFINE D == {s \in SUBSET S : g[s] # h[s]}
<1>1. CASE D # {}
  <2>1. PICK s \in D : \A t \in D : t \subseteq s => t = s
    <3>1. D \in SUBSET (SUBSET S)
      OBVIOUS
    <3> HIDE DEF D
    <3> QED
      BY <1>1, <3>1, MinimalSubset
  <2>2. s # {}
    BY <2>1 DEF Adds
  <2>3. Pick(s) \in s
    BY <2>2 DEF Pick
  <2>4. s \ {Pick(s)} \notin D
    BY <2>1, <2>3
  <2>5. g[s \ {Pick(s)}] = h[s \ {Pick(s)}]
    BY <2>1, <2>4
  <2> QED
    BY <2>1, <2>2, <2>5 DEF Adds
<1>2. CASE D = {}
  BY <1>2 DEF Adds
<1> QED
  BY <1>1, <1>2

\* A solution for a set is, cut down, one for each of its subsets.
LEMMA AddsBelow ==
  ASSUME NEW S, NEW T \in SUBSET S, NEW g, Adds(g, S)
  PROVE  Adds([s \in SUBSET T |-> g[s]], T)
BY DEF Adds

\* Every finite set has a solution: from the sums of its proper subsets the next
\* one is found.
LEMMA AddsExists ==
  ASSUME NEW S, IsFiniteSet(S)
  PROVE  \E g : Adds(g, S)
<1> DEFINE D == {s \in SUBSET S : ~ \E g : Adds(g, s)}
<1>1. SUFFICES ASSUME D # {} PROVE FALSE
  OBVIOUS
<1>2. PICK s \in D : \A t \in D : t \subseteq s => t = s
  <2>1. D \in SUBSET (SUBSET S)
    OBVIOUS
  <2> HIDE DEF D
  <2> QED
    BY <1>1, <2>1, MinimalSubset
<1>3. \A t \in SUBSET s : t # s => \E g : Adds(g, t)
  BY <1>2
<1>4. \A t \in SUBSET s : IsFiniteSet(t)
  BY FS_Subset
<1> DEFINE V(t) == (CHOOSE g : Adds(g, t))[t]
<1>5. ASSUME NEW t \in SUBSET s, t # s, t # {}
      PROVE  V(t) = Pick(t).actions + V(t \ {Pick(t)})
  <2> DEFINE g == CHOOSE k : Adds(k, t)
             u == t \ {Pick(t)}
             h == CHOOSE k : Adds(k, u)
  <2>1. Adds(g, t)
    BY <1>3, <1>5
  <2>2. Pick(t) \in t
    BY <1>5 DEF Pick
  <2>3. u \in SUBSET s /\ u # s /\ u \in SUBSET t
    BY <2>2
  <2>4. Adds(h, u)
    BY <1>3, <2>3
  <2> HIDE DEF g, h, u
  <2>5. Adds([k \in SUBSET u |-> g[k]], u)
    BY <2>1, <2>3, AddsBelow
  <2>6. h = [k \in SUBSET u |-> g[k]]
    BY <1>4, <2>3, <2>4, <2>5, AddsUnique
  <2>7. h[u] = g[u]
    BY <2>6
  <2>8. g[t] = Pick(t).actions + g[u]
    BY <2>1, <1>5 DEF Adds, u
  <2> QED
    BY <2>7, <2>8 DEF g, h, u
<1>6. V({}) = 0
  <2>1. Adds([k \in SUBSET {} |-> 0], {})
    BY DEF Adds
  <2>2. Adds(CHOOSE g : Adds(g, {}), {})
    BY <2>1
  <2> QED
    BY <2>2 DEF Adds
<1> HIDE DEF V
<1> DEFINE f == [t \in SUBSET s |-> IF t = {} THEN 0
                                    ELSE Pick(t).actions + V(t \ {Pick(t)})]
<1>7. \A t \in SUBSET s : t # {} => t \ {Pick(t)} \in SUBSET s /\ t \ {Pick(t)} # s
  BY DEF Pick
<1>8. \A t \in SUBSET s : t # s => f[t] = V(t)
  BY <1>5, <1>6
<1>9. Adds(f, s)
  <2>1. \A t \in SUBSET s : t # {} => f[t \ {Pick(t)}] = V(t \ {Pick(t)})
    BY <1>7, <1>8
  <2> QED
    BY <2>1 DEF Adds
<1> QED
  BY <1>2, <1>9

\* The total of a set that is not empty, one element taken out.
LEMMA SumStep ==
  ASSUME NEW S, IsFiniteSet(S), S # {}
  PROVE  /\ Pick(S) \in S
         /\ TotalActions(S) = Pick(S).actions + TotalActions(S \ {Pick(S)})
<1> DEFINE g == CHOOSE k : Adds(k, S)
           u == S \ {Pick(S)}
           h == CHOOSE k : Adds(k, u)
<1>1. Pick(S) \in S
  BY DEF Pick
<1>2. u \in SUBSET S /\ IsFiniteSet(u)
  BY FS_Subset
<1>3. Adds(g, S)
  BY AddsExists
<1>4. Adds(h, u)
  BY <1>2, AddsExists
<1>5. TotalActions(S) = g[S] /\ TotalActions(u) = h[u]
  BY TotalIs
<1> HIDE DEF g, h, u
<1>6. h = [k \in SUBSET u |-> g[k]]
  <2>1. Adds([k \in SUBSET u |-> g[k]], u)
    BY <1>2, <1>3, AddsBelow
  <2> QED
    BY <1>2, <1>4, <2>1, AddsUnique
<1>7. g[S] = Pick(S).actions + g[u]
  BY <1>3 DEF Adds, u
<1> QED
  BY <1>1, <1>5, <1>6, <1>7 DEF u

\* Nothing adds up to nothing.
LEMMA SumEmpty == TotalActions({}) = 0
<1>1. \E g : Adds(g, {})
  BY AddsExists, FS_EmptySet
<1> QED
  BY <1>1, TotalIs DEF Adds

\* Natural numbers add up to a natural number.
LEMMA SumType ==
  ASSUME NEW S, IsFiniteSet(S), \A r \in S : r.actions \in Nat
  PROVE  TotalActions(S) \in Nat
<1> DEFINE D == {s \in SUBSET S : TotalActions(s) \notin Nat}
<1> SUFFICES ASSUME D # {} PROVE FALSE
  OBVIOUS
<1>1. D \in SUBSET (SUBSET S)
  OBVIOUS
<1>2. PICK s \in D : \A t \in D : t \subseteq s => t = s
  <2> HIDE DEF D
  <2> QED
    BY <1>1, MinimalSubset
<1>3. s # {}
  BY <1>2, SumEmpty
<1>4. IsFiniteSet(s)
  BY FS_Subset
<1>5. /\ Pick(s) \in s
      /\ TotalActions(s) = Pick(s).actions + TotalActions(s \ {Pick(s)})
  BY <1>3, <1>4, SumStep
<1>6. TotalActions(s \ {Pick(s)}) \in Nat
  BY <1>2, <1>5
<1> QED
  BY <1>2, <1>5, <1>6

\* Any element may be the one taken out: the order of summation is immaterial.
LEMMA SumRemove ==
  ASSUME NEW S, IsFiniteSet(S), \A r \in S : r.actions \in Nat, NEW y \in S
  PROVE  TotalActions(S) = y.actions + TotalActions(S \ {y})
<1> DEFINE Split(s, x) == TotalActions(s) = x.actions + TotalActions(s \ {x})
           D == {s \in SUBSET S : \E x \in s : ~Split(s, x)}
<1> SUFFICES ASSUME D # {} PROVE FALSE
  OBVIOUS
<1>1. D \in SUBSET (SUBSET S)
  OBVIOUS
<1>2. PICK s \in D : \A t \in D : t \subseteq s => t = s
  <2> HIDE DEF D
  <2> QED
    BY <1>1, MinimalSubset
<1>3. PICK x \in s : ~Split(s, x)
  BY <1>2
<1>4. \A t \in SUBSET S : IsFiniteSet(t) /\ TotalActions(t) \in Nat
  BY FS_Subset, SumType
<1>5. Pick(s) \in s /\ Split(s, Pick(s))
  BY <1>3, <1>4, SumStep
<1>6. x # Pick(s)
  BY <1>3, <1>5
<1> DEFINE p == Pick(s)
<1>7. Split(s \ {p}, x)
  BY <1>2, <1>5, <1>6
<1>8. Split(s \ {x}, p)
  BY <1>2, <1>3, <1>5, <1>6
<1>9. (s \ {p}) \ {x} = (s \ {x}) \ {p}
  OBVIOUS
<1>10. x.actions \in Nat /\ p.actions \in Nat
  BY <1>2, <1>3, <1>5
<1>11. TotalActions((s \ {x}) \ {p}) \in Nat
  BY <1>2, <1>4
<1> HIDE DEF p
<1>12. TotalActions(s) = p.actions + (x.actions + TotalActions((s \ {x}) \ {p}))
  BY <1>5, <1>7, <1>9 DEF p
<1>13. TotalActions(s \ {x}) = p.actions + TotalActions((s \ {x}) \ {p})
  BY <1>8
<1> QED
  BY <1>3, <1>10, <1>11, <1>12, <1>13

\* More records add up to at least as much.
LEMMA SumMonotone ==
  ASSUME NEW S, IsFiniteSet(S), \A r \in S : r.actions \in Nat, NEW T \in SUBSET S
  PROVE  TotalActions(T) <= TotalActions(S)
<1> DEFINE D == {s \in SUBSET S : T \subseteq s /\ ~(TotalActions(T) <= TotalActions(s))}
<1> SUFFICES ASSUME D # {} PROVE FALSE
  OBVIOUS
<1>1. D \in SUBSET (SUBSET S)
  OBVIOUS
<1>2. PICK s \in D : \A t \in D : t \subseteq s => t = s
  <2> HIDE DEF D
  <2> QED
    BY <1>1, MinimalSubset
<1>3. \A t \in SUBSET S : IsFiniteSet(t) /\ TotalActions(t) \in Nat
  BY FS_Subset, SumType
<1>4. s # T
  BY <1>2, <1>3
<1>5. PICK y \in s : y \notin T
  BY <1>2, <1>4
<1>6. TotalActions(s) = y.actions + TotalActions(s \ {y})
  BY <1>2, <1>3, SumRemove
<1>7. TotalActions(T) <= TotalActions(s \ {y})
  BY <1>2, <1>5
<1>8. y.actions \in Nat /\ s \ {y} \in SUBSET S
  BY <1>2, <1>5
<1> QED
  BY <1>2, <1>3, <1>6, <1>7, <1>8

-----------------------------------------------------------------------------
(* The inductive invariant.                                                *)

\* Hours follow slots, and the hour to aggregate is over.
LEMMA HoursFollowSlots ==
  ASSUME NEW s \in Nat
  PROVE  /\ HourOf(s) \in Int
         /\ HourOf(s) <= HourOf(s + 1)
         /\ PreviousHour(s) \in Int
         /\ PreviousHour(s) < HourOf(s)
BY SMT DEF HourOf, PreviousHour

\* What a pod at rest keeps.
LEMMA RestingTyped ==
  ASSUME TypeOK, NEW c \in Pod, NEW phase \in {"collect", "idle"}
  PROVE  /\ Resting(c, phase) \in PodState
         /\ Resting(c, phase).phase = phase
         /\ Resting(c, phase).run = pod[c].run
         /\ Resting(c, phase).left \subseteq pod[c].left
         /\ phase = "collect" => Resting(c, phase).left = pod[c].left
         /\ Resting(c, phase).sums = {}
<1>1. pod[c] \in PodState
  BY DEF TypeOK
<1> DEFINE left == IF phase = "idle" THEN {} ELSE pod[c].left
<1>2. left \in SUBSET Namespace /\ left \subseteq pod[c].left
  BY <1>1 DEF PodState
<1>3. Resting(c, phase) = [pod[c] EXCEPT !.phase = phase, !.actions = 0,
                                         !.hour = 0, !.sums = {}, !.left = left]
  BY <1>1 DEF Resting, PodState
<1> HIDE DEF left
<1>4. phase \in Phase
  BY DEF Phase
<1>5. Resting(c, phase) \in PodState
  <2>1. Resting(c, phase) = [phase |-> phase, run |-> pod[c].run, left |-> left,
                             ns |-> pod[c].ns, actions |-> 0, hour |-> 0, sums |-> {}]
    BY <1>1, <1>3 DEF PodState
  <2>2. pod[c].run \in Nat /\ pod[c].ns \in Namespace
    BY <1>1 DEF PodState
  <2> QED
    BY <1>2, <1>4, <2>1, <2>2 DEF PodState
<1>6. /\ Resting(c, phase).phase = phase
      /\ Resting(c, phase).run = pod[c].run
      /\ Resting(c, phase).left = left
      /\ Resting(c, phase).sums = {}
  BY <1>1, <1>3 DEF PodState
<1> QED
  BY <1>2, <1>5, <1>6 DEF left

\* The records of a namespace and an hour only become more, and their total
\* does not get smaller.
LEMMA RecordsAddUp ==
  ASSUME TypeOK, TypeOK', records \subseteq records', NEW n, NEW h
  PROVE  /\ RecordsOf(n, h) \subseteq RecordsOf(n, h)'
         /\ TotalActions(RecordsOf(n, h)) \in Nat
         /\ TotalActions(RecordsOf(n, h))' \in Nat
         /\ TotalActions(RecordsOf(n, h)) <= TotalActions(RecordsOf(n, h))'
<1> DEFINE S == RecordsOf(n, h)
           T == RecordsOf(n, h)'
<1>1. S \in SUBSET records /\ T \in SUBSET records' /\ S \in SUBSET T
  BY DEF RecordsOf
<1>2. IsFiniteSet(S) /\ IsFiniteSet(T)
  BY <1>1, FS_Subset DEF TypeOK
<1>3. (\A r \in S : r.actions \in Nat) /\ (\A r \in T : r.actions \in Nat)
  BY <1>1 DEF TypeOK, Record
<1> HIDE DEF S, T
<1>4. TotalActions(S) \in Nat /\ TotalActions(T) \in Nat
  BY <1>2, <1>3, SumType
<1>5. TotalActions(S) <= TotalActions(T)
  BY <1>1, <1>2, <1>3, SumMonotone
<1> QED
  BY <1>1, <1>4, <1>5 DEF S, T

\* Rows of a statement under way are rows as the tables hold them.
LEMMA ComputedTyped ==
  ASSUME TypeOK
  PROVE  Computed \subseteq Record
BY DEF TypeOK, PodState, Computed

\* No row is computed by a pod that moves on without sums.
LEMMA NothingComputed ==
  ASSUME NEW c \in Pod, pod' = [d \in Pod |-> IF d = c THEN pod'[c] ELSE pod[d]],
         pod'[c].sums = {}, aggregates' \subseteq Computed
  PROVE  Computed' \subseteq Computed
BY DEF Computed

\* More records leave the aggregates there are covered.
LEMMA CoverKept ==
  ASSUME TypeOK, TypeOK', AggregatesAreCovered,
         records \subseteq records', Computed' \subseteq Computed
  PROVE  AggregatesAreCovered'
<1> SUFFICES ASSUME NEW a \in Computed
             PROVE  /\ RecordsOf(a.ns, a.hour)' # {}
                    /\ a.actions <= TotalActions(RecordsOf(a.ns, a.hour))'
  BY DEF AggregatesAreCovered
<1>1. a.actions \in Nat
  BY ComputedTyped DEF Record
<1>2. /\ RecordsOf(a.ns, a.hour) # {}
      /\ a.actions <= TotalActions(RecordsOf(a.ns, a.hour))
  BY DEF AggregatesAreCovered
<1>3. /\ RecordsOf(a.ns, a.hour) \subseteq RecordsOf(a.ns, a.hour)'
      /\ TotalActions(RecordsOf(a.ns, a.hour)) \in Nat
      /\ TotalActions(RecordsOf(a.ns, a.hour))' \in Nat
      /\ TotalActions(RecordsOf(a.ns, a.hour)) <= TotalActions(RecordsOf(a.ns, a.hour))'
  BY RecordsAddUp
<1> QED
  BY <1>1, <1>2, <1>3

\* Nothing is stored before the first run.
LEMMA InitHolds == Init => IInv
<1> SUFFICES ASSUME Init PROVE IInv
  OBVIOUS
<1> USE DEF Init
<1>1. TypeOK
  <2>1. performed \in [Namespace -> [0..MaxSlot -> 0..MaxActions]]
    BY CollectorAssumption
  <2>2. pod \in [Pod -> PodState]
    BY DEF PodState, Phase
  <2> QED
    BY <2>1, <2>2, FS_EmptySet DEF TypeOK
<1>2. RunsAreDistinct
  BY DEF RunsAreDistinct
<1>3. WorkIsAhead /\ SumsOfRuns
  BY DEF WorkIsAhead, SumsOfRuns
<1>4. StampsArePast /\ AggregatesArePast
  BY DEF StampsArePast, AggregatesArePast, Computed
<1>5. OneRowPerRun /\ AggregatesAreCovered
  BY DEF OneRowPerRun, AggregatesAreCovered, Computed
<1> QED
  BY <1>1, <1>2, <1>3, <1>4, <1>5 DEF IInv

\* Time and new namespaces touch no run.
LEMMA SurroundingsKeepIInv ==
  ASSUME IInv, Tick \/ \E n \in Namespace : ActivateNamespace(n)
  PROVE  IInv' /\ Computed' \subseteq Computed
<1> USE DEF IInv
<1>1. CASE Tick
  <2> USE <1>1 DEF Tick
  <2>1. HourOf(now) \in Int /\ HourOf(now') \in Int /\ HourOf(now) <= HourOf(now')
    BY HoursFollowSlots DEF TypeOK
  <2>2. TypeOK'
    <3>1. performed' \in [Namespace -> [0..MaxSlot -> 0..MaxActions]]
      <4> PICK f \in [Namespace -> 0..MaxActions] :
            performed' = [n \in Namespace |-> [performed[n] EXCEPT ![now] = f[n]]]
        OBVIOUS
      <4> QED
        BY DEF TypeOK
    <3> QED
      BY <3>1 DEF TypeOK
  <2>3. RunsAreDistinct' /\ WorkIsAhead' /\ SumsOfRuns' /\ OneRowPerRun'
    BY DEF RunsAreDistinct, WorkIsAhead, SumsOfRuns, OneRowPerRun
  <2>4. Computed' = Computed
    BY DEF Computed
  <2>5. StampsArePast'
    BY <2>1 DEF TypeOK, PodState, Record, StampsArePast
  <2>6. AggregatesArePast'
    <3>1. \A a \in Computed : a.hour \in Int
      BY ComputedTyped DEF Record
    <3> QED
      BY <2>1, <2>4, <3>1 DEF TypeOK, PodState, AggregatesArePast
  <2>7. AggregatesAreCovered'
    BY <2>2, <2>4, CoverKept
  <2> QED
    BY <2>2, <2>3, <2>4, <2>5, <2>6, <2>7
<1>2. CASE \E n \in Namespace : ActivateNamespace(n)
  <2> USE <1>2 DEF ActivateNamespace
  <2>1. TypeOK'
    BY DEF TypeOK
  <2>2. RunsAreDistinct' /\ WorkIsAhead' /\ SumsOfRuns' /\ OneRowPerRun'
    BY DEF RunsAreDistinct, WorkIsAhead, SumsOfRuns, OneRowPerRun
  <2>3. Computed' = Computed
    BY DEF Computed
  <2>4. StampsArePast' /\ AggregatesArePast'
    BY <2>3 DEF StampsArePast, AggregatesArePast
  <2>5. AggregatesAreCovered'
    BY <2>1, <2>3, CoverKept
  <2> QED
    BY <2>1, <2>2, <2>3, <2>4, <2>5
<1> QED
  BY <1>1, <1>2

\* A run that starts has a number of its own.
LEMMA StartRunKeepsIInv ==
  ASSUME IInv, NEW c \in Pod, StartRun(c)
  PROVE  IInv' /\ Computed' \subseteq Computed
<1> USE DEF IInv, StartRun
<1>1. /\ pod' = [d \in Pod |-> IF d = c THEN pod'[c] ELSE pod[d]]
      /\ pod'[c].phase = "collect" /\ pod'[c].run = runs + 1
      /\ pod'[c].left = active /\ pod'[c].sums = {} /\ pod'[c] \in PodState
  <2>1. pod[c] \in PodState
    BY DEF TypeOK
  <2>2. /\ pod' = [d \in Pod |-> IF d = c THEN pod'[c] ELSE pod[d]]
        /\ pod'[c] = [pod[c] EXCEPT !.phase = "collect", !.run = runs + 1, !.left = active]
    BY DEF TypeOK
  <2>3. active \in SUBSET Namespace /\ runs + 1 \in Nat
    BY DEF TypeOK
  <2>4. pod[c].sums = {}
    BY DEF SumsOfRuns
  <2> QED
    BY <2>1, <2>2, <2>3, <2>4 DEF PodState, Phase
<1>2. TypeOK'
  BY <1>1 DEF TypeOK
<1>3. RunsAreDistinct'
  BY <1>1 DEF TypeOK, PodState, Record, RunsAreDistinct
<1>4. WorkIsAhead'
  BY <1>1 DEF TypeOK, PodState, Record, RunsAreDistinct, WorkIsAhead
<1>5. SumsOfRuns' /\ Computed' \subseteq Computed
  <2>0. aggregates' = aggregates
    OBVIOUS
  <2> HIDE DEF StartRun
  <2>1. SumsOfRuns'
    BY <1>1 DEF SumsOfRuns
  <2>2. Computed' \subseteq Computed
    <3>1. aggregates' \subseteq Computed
      BY <2>0 DEF Computed
    <3> QED
      BY <1>1, <3>1, NothingComputed
  <2> QED
    BY <2>1, <2>2
<1>6. StampsArePast' /\ AggregatesArePast'
  BY <1>1, <1>5 DEF StampsArePast, AggregatesArePast
<1>7. OneRowPerRun' /\ AggregatesAreCovered'
  BY <1>2, <1>5, CoverKept DEF OneRowPerRun
<1> QED
  BY <1>2, <1>3, <1>4, <1>5, <1>6, <1>7

\* Steps of the loop that insert nothing: they only take up work still ahead.
LEMMA LoopKeepsIInv ==
  ASSUME IInv, NEW c \in Pod,
         Measure(c) \/ StampRecord(c) \/ StoreUsageFails(c) \/ BeginAggregation(c) \/ EndRun(c)
  PROVE  IInv' /\ Computed' \subseteq Computed
<1> USE DEF IInv
<1>1. /\ UNCHANGED <<now, performed, active, records, aggregates, runs>>
      /\ pod' = [d \in Pod |-> IF d = c THEN pod'[c] ELSE pod[d]]
      /\ pod[c].phase # "idle"
      /\ pod'[c].run = pod[c].run
      /\ pod'[c].left \subseteq pod[c].left
      /\ pod'[c].sums = {}
      /\ pod'[c] \in PodState
  <2>0. pod[c].phase # "commit" => pod[c].sums = {}
    BY DEF SumsOfRuns
  <2>1. CASE Measure(c)
    <3>1. pod[c] \in PodState /\ pod[c].phase = "collect"
      BY <2>1 DEF Measure, TypeOK
    <3>2. PICK n \in pod[c].left : \E a \in 0..LastHour(n) :
            pod' = [pod EXCEPT ![c].phase = "measured", ![c].left = @ \ {n},
                               ![c].ns = n, ![c].actions = a]
      BY <2>1 DEF Measure
    <3>3. PICK a \in 0..LastHour(n) :
            pod' = [pod EXCEPT ![c].phase = "measured", ![c].left = @ \ {n},
                               ![c].ns = n, ![c].actions = a]
      BY <3>2
    <3>4. /\ pod' = [d \in Pod |-> IF d = c THEN pod'[c] ELSE pod[d]]
          /\ pod'[c] = [pod[c] EXCEPT !.phase = "measured", !.left = pod[c].left \ {n},
                                      !.ns = n, !.actions = a]
      BY <3>3 DEF TypeOK
    <3>5. /\ n \in Namespace /\ pod[c].left \ {n} \in SUBSET Namespace /\ a \in Nat
          /\ pod[c].run \in Nat /\ pod[c].hour \in Int
      BY <3>1 DEF PodState
    <3>6. pod'[c] = [phase |-> "measured", run |-> pod[c].run, left |-> pod[c].left \ {n},
                     ns |-> n, actions |-> a, hour |-> pod[c].hour, sums |-> {}]
      BY <2>0, <3>1, <3>4 DEF PodState
    <3>7. pod'[c] \in PodState
      BY <3>5, <3>6 DEF PodState, Phase
    <3>8. UNCHANGED <<now, performed, active, records, aggregates, runs>>
      BY <2>1 DEF Measure
    <3>9. /\ pod[c].phase # "idle"
          /\ pod'[c].run = pod[c].run
          /\ pod'[c].left \subseteq pod[c].left
          /\ pod'[c].sums = {}
      BY <3>1, <3>6
    <3> QED
      BY <3>4, <3>7, <3>8, <3>9
  <2>2. CASE StampRecord(c)
    <3>1. pod[c] \in PodState /\ HourOf(now) \in Int
      BY HoursFollowSlots DEF TypeOK
    <3>2. /\ pod' = [d \in Pod |-> IF d = c THEN pod'[c] ELSE pod[d]]
          /\ pod'[c] = [pod[c] EXCEPT !.phase = "insert", !.hour = HourOf(now)]
      BY <2>2 DEF StampRecord, TypeOK
    <3>3. /\ pod'[c] \in PodState /\ pod'[c].run = pod[c].run
          /\ pod'[c].left = pod[c].left /\ pod'[c].sums = pod[c].sums
      BY <3>1, <3>2 DEF PodState, Phase
    <3> QED
      BY <2>0, <2>2, <3>2, <3>3 DEF StampRecord
  <2>3. CASE StoreUsageFails(c)
    <3>1. pod' = [pod EXCEPT ![c] = Resting(c, "collect")]
      BY <2>3 DEF StoreUsageFails
    <3> QED
      BY <2>3, <3>1, RestingTyped DEF StoreUsageFails, TypeOK
  <2>4. CASE BeginAggregation(c)
    <3>1. pod[c] \in PodState /\ PreviousHour(now) \in Int
      BY HoursFollowSlots DEF TypeOK
    <3>2. /\ pod' = [d \in Pod |-> IF d = c THEN pod'[c] ELSE pod[d]]
          /\ pod'[c] = [pod[c] EXCEPT !.phase = "aggregate", !.hour = PreviousHour(now)]
      BY <2>4 DEF BeginAggregation, TypeOK
    <3>3. /\ pod'[c] \in PodState /\ pod'[c].run = pod[c].run
          /\ pod'[c].left = pod[c].left /\ pod'[c].sums = pod[c].sums
      BY <3>1, <3>2 DEF PodState, Phase
    <3> QED
      BY <2>0, <2>4, <3>2, <3>3 DEF BeginAggregation
  <2>5. CASE EndRun(c)
    <3>1. pod' = [pod EXCEPT ![c] = Resting(c, "idle")]
      BY <2>5 DEF EndRun
    <3> QED
      BY <2>5, <3>1, RestingTyped DEF EndRun, TypeOK
  <2> QED
    BY <2>1, <2>2, <2>3, <2>4, <2>5
<1>2. pod'[c].phase \in {"measured", "insert"} =>
        /\ pod'[c].ns \notin pod'[c].left
        /\ pod'[c].ns \in pod[c].left \/ (pod'[c].ns = pod[c].ns /\ pod[c].phase = "measured")
  <2>1. CASE Measure(c)
    <3> PICK n \in pod[c].left : \E a \in 0..LastHour(n) :
          pod' = [pod EXCEPT ![c].phase = "measured", ![c].left = @ \ {n},
                             ![c].ns = n, ![c].actions = a]
      BY <2>1 DEF Measure
    <3> QED
      BY DEF TypeOK, PodState
  <2>2. CASE StampRecord(c)
    BY <2>2 DEF StampRecord, TypeOK, PodState, WorkIsAhead
  <2>3. CASE StoreUsageFails(c) \/ EndRun(c)
    BY <2>3, RestingTyped DEF StoreUsageFails, EndRun, TypeOK
  <2>4. CASE BeginAggregation(c)
    BY <2>4 DEF BeginAggregation, TypeOK, PodState
  <2> QED
    BY <2>1, <2>2, <2>3, <2>4
<1>3. /\ pod'[c].phase = "insert" => pod'[c].hour <= HourOf(now)
      /\ pod'[c].phase = "aggregate" => pod'[c].hour < HourOf(now)
  <2>1. CASE Measure(c)
    <3> PICK n \in pod[c].left : \E a \in 0..LastHour(n) :
          pod' = [pod EXCEPT ![c].phase = "measured", ![c].left = @ \ {n},
                             ![c].ns = n, ![c].actions = a]
      BY <2>1 DEF Measure
    <3>1. pod[c] \in PodState
      BY DEF TypeOK
    <3>2. pod'[c].phase = "measured"
      BY <3>1 DEF TypeOK, PodState
    <3> QED
      BY <3>2
  <2>2. CASE StampRecord(c)
    <3>1. pod'[c].phase = "insert" /\ pod'[c].hour = HourOf(now)
      BY <2>2 DEF StampRecord, TypeOK, PodState
    <3> QED
      BY <3>1, HoursFollowSlots DEF TypeOK
  <2>3. CASE BeginAggregation(c)
    <3>1. pod'[c].phase = "aggregate" /\ pod'[c].hour = PreviousHour(now)
      BY <2>3 DEF BeginAggregation, TypeOK, PodState
    <3> QED
      BY <3>1, HoursFollowSlots DEF TypeOK
  <2>4. CASE StoreUsageFails(c) \/ EndRun(c)
    BY <2>4, RestingTyped DEF StoreUsageFails, EndRun, TypeOK
  <2> QED
    BY <2>1, <2>2, <2>3, <2>4
<1>4. TypeOK'
  BY <1>1 DEF TypeOK
<1>5. RunsAreDistinct'
  BY <1>1 DEF RunsAreDistinct
<1>6. WorkIsAhead'
  BY <1>1, <1>2 DEF WorkIsAhead
<1>7. SumsOfRuns' /\ Computed' \subseteq Computed
  BY <1>1, NothingComputed DEF SumsOfRuns, Computed
<1>8. StampsArePast' /\ AggregatesArePast'
  BY <1>1, <1>3, <1>7 DEF StampsArePast, AggregatesArePast
<1>9. OneRowPerRun' /\ AggregatesAreCovered'
  BY <1>1, <1>4, <1>7, CoverKept DEF OneRowPerRun
<1> QED
  BY <1>4, <1>5, <1>6, <1>7, <1>8, <1>9

\* The record stored is the first of its run and namespace.
LEMMA StoreUsageKeepsIInv ==
  ASSUME IInv, NEW c \in Pod, StoreUsage(c)
  PROVE  IInv' /\ Computed' \subseteq Computed
<1> DEFINE new == [run |-> pod[c].run, ns |-> pod[c].ns,
                   hour |-> pod[c].hour, actions |-> pod[c].actions]
<1> USE DEF IInv
<1>1. /\ UNCHANGED <<now, performed, active, aggregates, runs>>
      /\ records' = records \cup {new}
      /\ pod[c].phase = "insert"
      /\ pod' = [d \in Pod |-> IF d = c THEN pod'[c] ELSE pod[d]]
      /\ pod'[c].run = pod[c].run /\ pod'[c].left = pod[c].left
      /\ pod'[c].phase = "collect" /\ pod'[c].sums = {} /\ pod'[c] \in PodState
  BY RestingTyped DEF StoreUsage, TypeOK
<1>2. new \in Record /\ new.run = pod[c].run /\ new.ns = pod[c].ns /\ new.hour = pod[c].hour
  BY DEF TypeOK, PodState, Record
<1> HIDE DEF new
<1>3. TypeOK'
  <2>1. IsFiniteSet(records')
    BY <1>1, FS_AddElement DEF TypeOK
  <2> QED
    BY <1>1, <1>2, <2>1 DEF TypeOK
<1>4. RunsAreDistinct'
  BY <1>1, <1>2 DEF RunsAreDistinct
<1>5. WorkIsAhead'
  BY <1>1, <1>2 DEF WorkIsAhead, RunsAreDistinct
<1>6. SumsOfRuns' /\ Computed' \subseteq Computed
  BY <1>1, NothingComputed DEF SumsOfRuns, Computed
<1>7. StampsArePast' /\ AggregatesArePast'
  BY <1>1, <1>2, <1>6 DEF StampsArePast, AggregatesArePast
<1>8. OneRowPerRun'
  BY <1>1, <1>2 DEF OneRowPerRun, WorkIsAhead
<1>9. AggregatesAreCovered'
  BY <1>1, <1>3, <1>6, CoverKept
<1> QED
  BY <1>3, <1>4, <1>5, <1>6, <1>7, <1>8, <1>9

\* The sums of a snapshot are typed, of the run and its hour, one for a
\* namespace, and each the whole of what the records hold.
LEMMA SumHourKeepsIInv ==
  ASSUME IInv, NEW c \in Pod, SumHour(c)
  PROVE  /\ IInv'
         /\ \A a \in Computed' \ Computed :
              a.actions = TotalActions(RecordsOf(a.ns, a.hour))
<1> DEFINE row(n) == [run |-> pod[c].run, ns |-> n, hour |-> pod[c].hour,
                      actions |-> TotalActions(RecordsOf(n, pod[c].hour))]
           new == {row(n) : n \in {m \in Namespace : RecordsOf(m, pod[c].hour) # {}}}
<1> USE DEF IInv
<1>1. /\ UNCHANGED <<now, performed, active, records, aggregates, runs>>
      /\ pod[c].phase = "aggregate"
      /\ pod' = [pod EXCEPT ![c].phase = "commit", ![c].sums = new]
  BY DEF SumHour, SumInto
<1>2. \A a \in new : /\ a.run = pod[c].run
                     /\ a.ns \in Namespace
                     /\ a.hour = pod[c].hour
                     /\ a.actions = TotalActions(RecordsOf(a.ns, a.hour))
                     /\ RecordsOf(a.ns, a.hour) # {}
                     /\ a = [run |-> a.run, ns |-> a.ns, hour |-> a.hour,
                             actions |-> a.actions]
  OBVIOUS
<1>3. \A a, b \in new : a.ns = b.ns => a = b
  OBVIOUS
<1> HIDE DEF new
<1>4. new \subseteq Record
  <2>1. pod[c].run \in Nat /\ pod[c].hour \in Int
    BY DEF TypeOK, PodState
  <2> SUFFICES ASSUME NEW a \in new PROVE a \in Record
    OBVIOUS
  <2>2. IsFiniteSet(RecordsOf(a.ns, a.hour))
    BY FS_Subset DEF RecordsOf, TypeOK
  <2>3. \A r \in RecordsOf(a.ns, a.hour) : r.actions \in Nat
    BY DEF RecordsOf, TypeOK, Record
  <2>4. a.actions \in Nat
    BY <1>2, <2>2, <2>3, SumType
  <2> QED
    BY <1>2, <2>1, <2>4 DEF Record
<1>5. /\ pod' = [d \in Pod |-> IF d = c THEN pod'[c] ELSE pod[d]]
      /\ pod'[c].run = pod[c].run /\ pod'[c].left = pod[c].left
      /\ pod'[c].phase = "commit" /\ pod'[c].sums = new /\ pod'[c] \in PodState
  <2>1. pod[c] \in PodState
    BY DEF TypeOK
  <2>2. /\ pod' = [d \in Pod |-> IF d = c THEN pod'[c] ELSE pod[d]]
        /\ pod'[c] = [pod[c] EXCEPT !.phase = "commit", !.sums = new]
    BY <1>1 DEF TypeOK
  <2> QED
    BY <1>4, <2>1, <2>2 DEF PodState, Phase
<1>6. Computed' \subseteq Computed \cup new
  <2> SUFFICES ASSUME NEW a, a \in Computed', a \notin new
               PROVE  a \in Computed
    OBVIOUS
  <2>1. CASE a \in aggregates'
    BY <1>1, <2>1 DEF Computed
  <2>2. CASE \E d \in Pod : a \in pod'[d].sums
    <3>1. PICK d \in Pod : a \in pod'[d].sums
      BY <2>2
    <3>2. d # c /\ pod'[d] = pod[d]
      BY <1>5, <3>1
    <3> QED
      BY <3>1, <3>2 DEF Computed
  <2> QED
    BY <2>1, <2>2 DEF Computed
<1>7. TypeOK'
  BY <1>1, <1>5 DEF TypeOK
<1>8. RunsAreDistinct' /\ WorkIsAhead'
  <2>1. \A d \in Pod : /\ pod'[d].run = pod[d].run /\ pod'[d].left = pod[d].left
                       /\ (pod'[d].phase # "idle") <=> (pod[d].phase # "idle")
                       /\ d = c \/ pod'[d] = pod[d]
    <3> SUFFICES ASSUME NEW d \in Pod
                 PROVE  /\ pod'[d].run = pod[d].run /\ pod'[d].left = pod[d].left
                        /\ (pod'[d].phase # "idle") <=> (pod[d].phase # "idle")
                        /\ d = c \/ pod'[d] = pod[d]
      OBVIOUS
    <3>1. CASE d = c
      <4>1. pod[c].phase # "idle" /\ pod'[c].phase # "idle"
        BY <1>1, <1>5
      <4> QED
        BY <1>5, <3>1, <4>1
    <3>2. CASE d # c
      BY <1>5, <3>2
    <3> QED
      BY <3>1, <3>2
  <2>2. pod'[c].phase \notin {"measured", "insert"}
    BY <1>5
  <2>3. records' = records /\ aggregates' = aggregates /\ runs' = runs
    BY <1>1
  <2>4. RunsAreDistinct'
    BY <2>1, <2>3 DEF RunsAreDistinct
  <2>5. WorkIsAhead'
    BY <2>1, <2>2, <2>3 DEF WorkIsAhead
  <2> QED
    BY <2>4, <2>5
<1>9. SumsOfRuns'
  BY <1>2, <1>3, <1>5 DEF SumsOfRuns
<1>10. StampsArePast' /\ AggregatesArePast'
  BY <1>1, <1>2, <1>5, <1>6 DEF StampsArePast, AggregatesArePast
<1>11. OneRowPerRun'
  BY <1>1 DEF OneRowPerRun
<1>12. AggregatesAreCovered'
  <2>1. \A n, h : RecordsOf(n, h)' = RecordsOf(n, h)
    BY <1>1 DEF RecordsOf
  <2>2. \A a \in new : a.actions <= TotalActions(RecordsOf(a.ns, a.hour))
    BY <1>2, <1>4 DEF Record
  <2> QED
    BY <1>2, <1>6, <2>1, <2>2 DEF AggregatesAreCovered
<1> QED
  BY <1>2, <1>6, <1>7, <1>8, <1>9, <1>10, <1>11, <1>12

\* The rows inserted are the first of their run.
LEMMA InsertAggregatesKeepsIInv ==
  ASSUME IInv, NEW c \in Pod, InsertAggregates(c)
  PROVE  IInv' /\ Computed' \subseteq Computed
<1> USE DEF IInv
<1>1. /\ UNCHANGED <<now, performed, active, records, runs>>
      /\ aggregates' = aggregates \cup pod[c].sums
      /\ pod[c].phase = "commit"
      /\ pod' = [d \in Pod |-> IF d = c THEN pod'[c] ELSE pod[d]]
      /\ pod'[c].run = pod[c].run
      /\ pod'[c].phase = "idle" /\ pod'[c].sums = {} /\ pod'[c] \in PodState
  BY RestingTyped DEF InsertAggregates, TypeOK
<1>2. /\ \A a \in pod[c].sums : a.run = pod[c].run
      /\ \A a, b \in pod[c].sums : a.ns = b.ns => a = b
  BY DEF SumsOfRuns
<1>3. SumsOfRuns' /\ Computed' \subseteq Computed
  BY <1>1, NothingComputed DEF SumsOfRuns, Computed
<1>4. TypeOK'
  <2>1. pod[c].sums \subseteq Record
    BY DEF TypeOK, PodState
  <2> QED
    BY <1>1, <2>1 DEF TypeOK
<1>5. RunsAreDistinct'
  BY <1>1, <1>2 DEF RunsAreDistinct
<1>6. WorkIsAhead'
  BY <1>1, <1>2 DEF WorkIsAhead, RunsAreDistinct
<1>7. StampsArePast' /\ AggregatesArePast'
  BY <1>1, <1>3 DEF StampsArePast, AggregatesArePast
<1>8. OneRowPerRun'
  BY <1>1, <1>2 DEF OneRowPerRun, WorkIsAhead
<1>9. AggregatesAreCovered'
  BY <1>1, <1>3, <1>4, CoverKept
<1> QED
  BY <1>3, <1>4, <1>5, <1>6, <1>7, <1>8, <1>9

\* Every step keeps the invariant, and each sum it computes is the whole of what
\* the records of its hour hold.
LEMMA StepKeepsIInv ==
  ASSUME IInv, [Next]_vars
  PROVE  /\ IInv'
         /\ \A a \in Computed' \ Computed :
              a.actions = TotalActions(RecordsOf(a.ns, a.hour))
<1>1. CASE Tick \/ \E n \in Namespace : ActivateNamespace(n)
  BY <1>1, SurroundingsKeepIInv
<1>2. CASE \E c \in Pod :
             \/ StartRun(c) \/ Measure(c)
             \/ StampRecord(c) \/ StoreUsage(c) \/ StoreUsageFails(c)
             \/ BeginAggregation(c) \/ SumHour(c) \/ InsertAggregates(c) \/ EndRun(c)
  <2>1. PICK c \in Pod :
          \/ StartRun(c) \/ Measure(c)
          \/ StampRecord(c) \/ StoreUsage(c) \/ StoreUsageFails(c)
          \/ BeginAggregation(c) \/ SumHour(c) \/ InsertAggregates(c) \/ EndRun(c)
    BY <1>2
  <2>2. CASE SumHour(c)
    BY <2>2, SumHourKeepsIInv
  <2>3. CASE StartRun(c)
    BY <2>3, StartRunKeepsIInv
  <2>4. CASE StoreUsage(c)
    BY <2>4, StoreUsageKeepsIInv
  <2>5. CASE InsertAggregates(c)
    BY <2>5, InsertAggregatesKeepsIInv
  <2>6. CASE \/ Measure(c) \/ StampRecord(c) \/ StoreUsageFails(c)
             \/ BeginAggregation(c) \/ EndRun(c)
    BY <2>6, LoopKeepsIInv
  <2> QED
    BY <2>1, <2>2, <2>3, <2>4, <2>5, <2>6
<1>3. CASE UNCHANGED vars
  <2>1. Computed' = Computed /\ TypeOK'
    BY <1>3 DEF vars, IInv, TypeOK, Computed
  <2>2. RunsAreDistinct' /\ WorkIsAhead' /\ SumsOfRuns' /\ StampsArePast' /\ OneRowPerRun'
    BY <1>3 DEF vars, IInv, RunsAreDistinct, WorkIsAhead, SumsOfRuns, StampsArePast,
                OneRowPerRun
  <2>3. AggregatesArePast'
    BY <1>3, <2>1 DEF vars, IInv, AggregatesArePast
  <2>4. AggregatesAreCovered'
    BY <1>3, <2>1, CoverKept DEF vars, IInv
  <2> QED
    BY <2>1, <2>2, <2>3, <2>4 DEF IInv
<1> QED
  BY <1>1, <1>2, <1>3 DEF Next

-----------------------------------------------------------------------------
(* The theorems.                                                           *)

\* The inductive invariant holds in every reachable state.
THEOREM Invariance == Spec => []IInv
<1>1. Init => IInv
  BY InitHolds
<1>2. IInv /\ [Next]_vars => IInv'
  BY StepKeepsIInv
<1> QED
  BY <1>1, <1>2, PTL DEF Spec

\* aggregateHourly only ever works on hours that are over, however long a run
\* takes between reading the clock and inserting.
THEOREM OnlyPastHoursAreAggregated == Spec => []AggregatesArePast
<1>1. IInv => AggregatesArePast
  BY DEF IInv
<1> QED
  BY <1>1, Invariance, PTL

\* A run stores one record of a namespace and aggregates it once at most, with
\* any number of overlapping, failing and killed runs.
THEOREM RowsOfARunAreUnique == Spec => []OneRowPerRun
<1>1. IInv => OneRowPerRun
  BY DEF IInv
<1> QED
  BY <1>1, Invariance, PTL

\* No single aggregate ever counts more than the records of its hour hold.
THEOREM AggregatesStayCovered == Spec => []AggregatesAreCovered
<1>1. IInv => AggregatesAreCovered
  BY DEF IInv
<1> QED
  BY <1>1, Invariance, PTL

\* When an hour is summed again, by whichever run and however late, the new sum
\* counts at least as much as every one before it, committed or not.
THEOREM RepeatedAggregatesNeverShrink == Spec => AggregatesNeverShrink
<1>1. ASSUME IInv, [Next]_vars,
             NEW a \in Computed' \ Computed, NEW b \in Computed,
             a.ns = b.ns, a.hour = b.hour
      PROVE  a.actions >= b.actions
  <2>1. a.actions = TotalActions(RecordsOf(b.ns, b.hour))
    BY <1>1, StepKeepsIInv
  <2>2. b.actions <= TotalActions(RecordsOf(b.ns, b.hour))
    BY <1>1 DEF IInv, AggregatesAreCovered
  <2>3. a.actions \in Nat /\ b.actions \in Nat
    <3>1. TypeOK /\ TypeOK'
      BY <1>1, StepKeepsIInv DEF IInv
    <3>2. Computed \subseteq Record /\ Computed' \subseteq Record
      BY <3>1, ComputedTyped DEF TypeOK, PodState, Computed
    <3> QED
      BY <1>1, <3>2 DEF Record
  <2> QED
    BY <2>1, <2>2, <2>3
<1>2. IInv /\ [Next]_vars =>
        [\A a \in Computed' \ Computed, b \in Computed :
           a.ns = b.ns /\ a.hour = b.hour => a.actions >= b.actions]_vars
  BY <1>1
<1> QED
  BY <1>2, Invariance, PTL DEF Spec, AggregatesNeverShrink
=============================================================================
