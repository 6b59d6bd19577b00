-------------------- MODULE NamespaceProvisioningProofs --------------------
(***************************************************************************)
(* NamespaceProvisioning keeps its inductive invariant, active rows belong *)
(* to the request Temporal registered the name for, and every behaviour is *)
(* one of NamespaceLifecycle, for any number of requests and names.        *)
(***************************************************************************)
EXTENDS NamespaceProvisioning, TLAPS

\* Before any request is handled nothing exists but names registered elsewhere.
LEMMA InitHolds == Init => IInv
<1> SUFFICES ASSUME Init PROVE IInv
  OBVIOUS
<1>1. TypeOK
  BY DEF Init, TypeOK, Working
<1>2. RowAwaitsGoroutine /\ UnusedIsUntouched /\ AnswerIsTrue /\ ActiveIsOwned
  BY DEF Init, RowAwaitsGoroutine, UnusedIsUntouched, AnswerIsTrue,
         ActiveIsOwned, Working
<1> QED
  BY <1>1, <1>2 DEF IInv

\* The steps of the handler: inserting the row and returning.
LEMMA HandlerKeepsIInv ==
  ASSUME IInv, NEW r \in Request,
         CreateNamespace(r) \/ CreateNamespaceFails(r) \/ HandlerReturns(r)
  PROVE  IInv'
<1> USE DEF IInv
<1>1. CASE CreateNamespace(r)
  <2> USE <1>1 DEF CreateNamespace
  <2>1. TypeOK'
    BY DEF TypeOK, Working
  <2>2. RowAwaitsGoroutine'
    BY DEF TypeOK, RowAwaitsGoroutine
  <2>3. UnusedIsUntouched'
    BY DEF TypeOK, UnusedIsUntouched
  <2>4. AnswerIsTrue'
    BY DEF TypeOK, AnswerIsTrue
  <2>5. ActiveIsOwned'
    BY DEF TypeOK, ActiveIsOwned
  <2> QED
    BY <2>1, <2>2, <2>3, <2>4, <2>5
<1>2. CASE CreateNamespaceFails(r)
  <2> USE <1>2 DEF CreateNamespaceFails
  <2>1. TypeOK'
    BY DEF TypeOK
  <2>2. goroutine[r] = "none"
    BY DEF UnusedIsUntouched
  <2>3. RowAwaitsGoroutine'
    BY <2>2 DEF TypeOK, RowAwaitsGoroutine, Working
  <2>4. UnusedIsUntouched'
    BY DEF TypeOK, UnusedIsUntouched
  <2>5. AnswerIsTrue'
    BY DEF AnswerIsTrue
  <2>6. ActiveIsOwned'
    BY DEF TypeOK, ActiveIsOwned
  <2> QED
    BY <2>1, <2>3, <2>4, <2>5, <2>6
<1>3. CASE HandlerReturns(r)
  <2> USE <1>3 DEF HandlerReturns
  <2>1. TypeOK'
    BY DEF TypeOK
  <2>2. UnusedIsUntouched'
    BY DEF TypeOK, UnusedIsUntouched
  <2>3. RowAwaitsGoroutine' /\ AnswerIsTrue' /\ ActiveIsOwned'
    BY DEF RowAwaitsGoroutine, AnswerIsTrue, ActiveIsOwned
  <2> QED
    BY <2>1, <2>2, <2>3
<1> QED
  BY <1>1, <1>2, <1>3

\* The steps of the goroutine up to the UPDATE, and its death.
LEMMA GoroutineKeepsIInv ==
  ASSUME IInv, NEW r \in Request,
         \/ Dial(r) \/ DialFails(r) \/ RegisterNamespace(r) \/ RegisterNotSent(r)
         \/ RegisterSucceeds(r) \/ RegisterFails(r) \/ ConnectionLost(r) \/ Crash(r)
  PROVE  IInv'
<1> USE DEF IInv
<1>1. UNCHANGED status /\ UNCHANGED owner
  BY DEF Dial, DialFails, RegisterNamespace, RegisterNotSent,
         RegisterSucceeds, RegisterFails, ConnectionLost, Crash
<1>2. goroutine[r] \in Working
  BY DEF Dial, DialFails, RegisterNamespace, RegisterNotSent, Step,
         RegisterSucceeds, RegisterFails, ConnectionLost, Crash, Working
<1>3. PICK to \in Working \cup {"ended"} :
        goroutine' = [goroutine EXCEPT ![r] = to]
  BY DEF Dial, DialFails, RegisterNamespace, RegisterNotSent, Step,
         RegisterSucceeds, RegisterFails, ConnectionLost, Crash, Working
<1>4. to = "setActive" => call'[r] = "accepted"
  BY <1>3 DEF Dial, DialFails, RegisterNamespace, RegisterNotSent, Step,
         RegisterSucceeds, RegisterFails, ConnectionLost, Crash, TypeOK
<1>5. \/ UNCHANGED call
      \/ call' = [call EXCEPT ![r] = "sent"] /\ to = "waiting"
  BY <1>3 DEF Dial, DialFails, RegisterNamespace, RegisterNotSent, Step,
         RegisterSucceeds, RegisterFails, ConnectionLost, Crash, TypeOK
<1>6. \/ UNCHANGED context
      \/ context' = [context EXCEPT ![r] = "cancelled"]
  BY DEF Dial, DialFails, RegisterNamespace, RegisterNotSent,
         RegisterSucceeds, RegisterFails, ConnectionLost, Crash
<1>7. crashes' \in Nat
  BY DEF Dial, DialFails, RegisterNamespace, RegisterNotSent,
         RegisterSucceeds, RegisterFails, ConnectionLost, Crash, TypeOK
<1>8. TypeOK'
  BY <1>1, <1>3, <1>5, <1>6, <1>7 DEF TypeOK, Working
<1>9. RowAwaitsGoroutine'
  BY <1>1, <1>2, <1>3 DEF TypeOK, RowAwaitsGoroutine
<1>10. context[r] # "unused" /\ status[r] # "absent"
  BY <1>2 DEF UnusedIsUntouched, Working
<1>11. UnusedIsUntouched'
  BY <1>1, <1>3, <1>5, <1>6, <1>10 DEF TypeOK, UnusedIsUntouched, Working
<1>12. AnswerIsTrue'
  BY <1>1, <1>3, <1>4, <1>5 DEF TypeOK, AnswerIsTrue
<1>13. ActiveIsOwned'
  BY <1>1 DEF ActiveIsOwned
<1> QED
  BY <1>8, <1>9, <1>11, <1>12, <1>13

\* The UPDATEs that settle the row.
LEMMA UpdateKeepsIInv ==
  ASSUME IInv, NEW r \in Request, SetActive(r) \/ SetFailed(r)
  PROVE  IInv'
<1> USE DEF IInv
<1>1. goroutine' = [goroutine EXCEPT ![r] = "ended"]
  BY DEF SetActive, SetFailed, Step
<1>2. UNCHANGED <<context, call, owner, crashes>>
  BY DEF SetActive, SetFailed
<1>3. \/ UNCHANGED status
      \/ status' = [status EXCEPT ![r] = "failed"]
      \/ status' = [status EXCEPT ![r] = "active"] /\ goroutine[r] = "setActive"
  BY DEF SetActive, SetFailed, Step
<1>4. goroutine[r] # "none"
  BY DEF SetActive, SetFailed, Step
<1>5. TypeOK'
  BY <1>1, <1>2, <1>3 DEF TypeOK
<1>6. RowAwaitsGoroutine'
  BY <1>1, <1>3 DEF TypeOK, RowAwaitsGoroutine, Working
<1>7. UnusedIsUntouched'
  BY <1>1, <1>2, <1>3, <1>4 DEF TypeOK, UnusedIsUntouched
<1>8. AnswerIsTrue'
  BY <1>1, <1>2 DEF TypeOK, AnswerIsTrue
<1>9. ActiveIsOwned'
  BY <1>2, <1>3 DEF TypeOK, ActiveIsOwned, AnswerIsTrue
<1> QED
  BY <1>5, <1>6, <1>7, <1>8, <1>9

\* Temporal answers a call; a name it registered keeps its owner.
LEMMA TemporalKeepsIInv ==
  ASSUME ProvisioningAssumption, IInv, NEW r \in Request,
         TemporalRegisters(r) \/ TemporalRefuses(r)
  PROVE  IInv'
<1> USE DEF IInv
<1>1. call[r] = "sent" /\ UNCHANGED <<status, context, goroutine, crashes>>
  BY DEF TemporalRegisters, TemporalRefuses
<1>2. \/ call' = [call EXCEPT ![r] = "rejected"] /\ UNCHANGED owner
      \/ /\ call' = [call EXCEPT ![r] = "accepted"]
         /\ owner' = [owner EXCEPT ![NameOf[r]] = r]
         /\ owner[NameOf[r]] = Nobody
  BY DEF TemporalRegisters, TemporalRefuses
<1>3. TypeOK'
  BY <1>1, <1>2 DEF TypeOK
<1>4. \A q \in Request : owner[NameOf[q]] = q => owner'[NameOf[q]] = q
  BY <1>2 DEF TypeOK, ProvisioningAssumption
<1>5. RowAwaitsGoroutine'
  BY <1>1 DEF RowAwaitsGoroutine
<1>6. UnusedIsUntouched'
  BY <1>1, <1>2 DEF TypeOK, UnusedIsUntouched
<1>7. call'[r] = "accepted" => owner'[NameOf[r]] = r
  BY <1>2 DEF TypeOK, ProvisioningAssumption
<1>8. AnswerIsTrue'
  BY <1>1, <1>2, <1>4, <1>7 DEF TypeOK, AnswerIsTrue
<1>9. ActiveIsOwned'
  BY <1>1, <1>4 DEF ActiveIsOwned
<1> QED
  BY <1>3, <1>5, <1>6, <1>8, <1>9

\* The invariant is inductive.
LEMMA StepKeepsIInv ==
  ASSUME ProvisioningAssumption, IInv, [Next]_vars
  PROVE  IInv'
<1>1. CASE UNCHANGED vars
  BY <1>1 DEF IInv, vars, TypeOK, RowAwaitsGoroutine, UnusedIsUntouched,
              AnswerIsTrue, ActiveIsOwned
<1>2. CASE Next
  <2>1. PICK r \in Request :
          \/ CreateNamespace(r) \/ CreateNamespaceFails(r) \/ HandlerReturns(r)
          \/ Provision(r)
          \/ ConnectionLost(r) \/ Crash(r)
          \/ TemporalRegisters(r) \/ TemporalRefuses(r)
    BY <1>2 DEF Next
  <2> QED
    BY <2>1, HandlerKeepsIInv, GoroutineKeepsIInv, UpdateKeepsIInv,
       TemporalKeepsIInv DEF Provision
<1> QED
  BY <1>1, <1>2

\* The inductive invariant holds in every reachable state.
THEOREM Invariance == Spec => []IInv
<1>1. IInv /\ [Next]_vars => IInv'
  BY StepKeepsIInv, ProvisioningAssumption
<1> QED
  BY InitHolds, <1>1, PTL DEF Spec

\* An active row belongs to the request its namespace was registered for.
THEOREM ActiveNamespacesAreOwned == Spec => []ActiveIsOwned
<1>1. IInv => ActiveIsOwned
  BY DEF IInv
<1> QED
  BY Invariance, <1>1, PTL

\* Each step is a step of the lifecycle or leaves the rows and the registry be.
LEMMA StepRefinesLifecycle ==
  ASSUME ProvisioningAssumption, IInv, [Next]_vars
  PROVE  [Lifecycle!Next]_<<status, owner>>
<1>1. CASE UNCHANGED vars
  BY <1>1 DEF vars
<1>2. CASE Next
  <2>1. PICK r \in Request :
          \/ CreateNamespace(r) \/ CreateNamespaceFails(r) \/ HandlerReturns(r)
          \/ Provision(r)
          \/ ConnectionLost(r) \/ Crash(r)
          \/ TemporalRegisters(r) \/ TemporalRefuses(r)
    BY <1>2 DEF Next
  <2>2. CASE CreateNamespace(r) \/ CreateNamespaceFails(r)
    <3>1. status[r] = "absent" /\ UNCHANGED owner
      BY <2>2 DEF CreateNamespace, CreateNamespaceFails, IInv, UnusedIsUntouched
    <3>2. \/ UNCHANGED status
          \/ NameIsFree(r) /\ status' = [status EXCEPT ![r] = "provisioning"]
      BY <2>2 DEF CreateNamespace, CreateNamespaceFails
    <3>3. UNCHANGED status \/ Lifecycle!Accept(r)
      BY <3>1, <3>2 DEF Lifecycle!Accept, NameIsFree
    <3> QED
      BY <3>1, <3>3 DEF Lifecycle!Next
  <2>3. CASE SetActive(r)
    <3>1. status[r] = "provisioning" /\ owner[NameOf[r]] = r
      BY <2>3 DEF SetActive, Step, IInv, RowAwaitsGoroutine, AnswerIsTrue, Working
    <3>2. UNCHANGED <<status, owner>> \/ Lifecycle!Activate(r)
      BY <2>3, <3>1 DEF SetActive, Lifecycle!Activate
    <3> QED
      BY <3>2 DEF Lifecycle!Next
  <2>4. CASE SetFailed(r)
    <3>1. status[r] = "provisioning"
      BY <2>4 DEF SetFailed, Step, IInv, RowAwaitsGoroutine, Working
    <3>2. UNCHANGED <<status, owner>> \/ Lifecycle!Fail(r)
      BY <2>4, <3>1 DEF SetFailed, Lifecycle!Fail
    <3> QED
      BY <3>2 DEF Lifecycle!Next
  <2>5. CASE TemporalRegisters(r)
    <3>1. status[r] # "absent"
      BY <2>5 DEF TemporalRegisters, IInv, UnusedIsUntouched
    <3>2. Lifecycle!Register(r)
      BY <2>5, <3>1 DEF TemporalRegisters, Lifecycle!Register
    <3> QED
      BY <3>2 DEF Lifecycle!Next
  <2>6. CASE \/ HandlerReturns(r) \/ TemporalRefuses(r) \/ Crash(r) \/ ConnectionLost(r)
             \/ Dial(r) \/ DialFails(r) \/ RegisterNamespace(r)
             \/ RegisterNotSent(r) \/ RegisterSucceeds(r) \/ RegisterFails(r)
    BY <2>6 DEF HandlerReturns, TemporalRefuses, Crash, ConnectionLost, Dial,
                DialFails, RegisterNamespace, RegisterNotSent,
                RegisterSucceeds, RegisterFails
  <2> QED
    BY <2>1, <2>2, <2>3, <2>4, <2>5, <2>6 DEF Provision
<1> QED
  BY <1>1, <1>2

\* Provisioning implements the lifecycle: every behaviour of the handlers, the
\* goroutines and Temporal shows callers a behaviour of NamespaceLifecycle.
THEOREM ImplementsLifecycle == Spec => LifecycleSpec
<1>1. Init => Lifecycle!Init
  BY DEF Init, Lifecycle!Init
<1>2. IInv /\ [Next]_vars => [Lifecycle!Next]_<<status, owner>>
  BY StepRefinesLifecycle, ProvisioningAssumption
<1> QED
  BY Invariance, <1>1, <1>2, PTL DEF Spec, LifecycleSpec, Lifecycle!Spec
=============================================================================
