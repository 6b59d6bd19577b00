----------------------- MODULE NamespaceProvisioning -----------------------
(***************************************************************************)
(* CreateNamespace and provisionNamespace of billing-service/service.go.   *)
(*                                                                         *)
(* The handler inserts a row with status provisioning and starts a         *)
(* goroutine that registers the namespace with Temporal and then stores    *)
(* the outcome.  The goroutine is given the context of the request, and    *)
(* net/http cancels it as soon as the handler returns or the client goes   *)
(* away; only the final UPDATEs use a context of their own.  The replica   *)
(* that runs the goroutine may be killed at any point; nothing takes the   *)
(* row up again.                                                           *)
(*                                                                         *)
(* Temporal is external: a call it received may be executed after its      *)
(* caller gave up, a name is registered once, and a registered namespace   *)
(* stays (the service has no call that removes one).                       *)
(***************************************************************************)
EXTENDS Naturals

CONSTANTS
  Request,    \* CreateNamespace requests
  Name,       \* values of temporal_namespace
  NameOf,     \* the name each request asks for
  Nobody,     \* owner of a name that is not registered
  Other,      \* owner of a name registered outside the billing service
  MaxCrashes  \* bound on goroutines lost

VARIABLES
  status,     \* namespaces.status by request; "absent" without a row
  context,    \* the request's context
  goroutine,  \* where provisionNamespace is
  call,       \* the RegisterNamespace call of the request
  owner,      \* Temporal's registry: the request a name was registered for
  crashes

vars == <<status, context, goroutine, call, owner, crashes>>

Lifecycle ==
  INSTANCE NamespaceLifecycle
    WITH status <- status, owner <- owner,
         Request <- Request, Name <- Name, NameOf <- NameOf,
         Nobody <- Nobody, Other <- Other

ASSUME ProvisioningAssumption ==
  /\ NameOf \in [Request -> Name]
  /\ Nobody \notin Request
  /\ Other \notin Request
  /\ Nobody # Other
  /\ MaxCrashes \in Nat

\* Where a goroutine that has not ended is.
Working == {"dial", "register", "waiting", "setActive", "setFailed"}

\* Every row, context, goroutine and call is in one of its phases.
TypeOK ==
  /\ status \in [Request -> {"absent", "provisioning", "active", "failed"}]
  /\ context \in [Request -> {"unused", "live", "cancelled"}]
  /\ goroutine \in [Request -> Working \cup {"none", "ended"}]
  /\ call \in [Request -> {"none", "sent", "accepted", "rejected"}]
  /\ owner \in [Name -> Request \cup {Nobody, Other}]
  /\ crashes \in Nat

Init ==
  /\ status = [r \in Request |-> "absent"]
  /\ context = [r \in Request |-> "unused"]
  /\ goroutine = [r \in Request |-> "none"]
  /\ call = [r \in Request |-> "none"]
  /\ owner \in [Name -> {Nobody, Other}]
  /\ crashes = 0

-----------------------------------------------------------------------------
(* The handler.                                                            *)

\* The UNIQUE constraint on temporal_namespace admits the name.
NameIsFree(r) ==
  \A q \in Request : NameOf[q] = NameOf[r] => status[q] = "absent"

\* Variant: without the UNIQUE constraint.
CreateNamespaceAgain(r) ==
  /\ context[r] = "unused"
  /\ status' = [status EXCEPT ![r] = "provisioning"]
  /\ context' = [context EXCEPT ![r] = "live"]
  /\ goroutine' = [goroutine EXCEPT ![r] = "dial"]
  /\ UNCHANGED <<call, owner, crashes>>

CreateNamespace(r) ==
  /\ context[r] = "unused"
  /\ NameIsFree(r)
  /\ status' = [status EXCEPT ![r] = "provisioning"]
  /\ context' = [context EXCEPT ![r] = "live"]
  /\ goroutine' = [goroutine EXCEPT ![r] = "dial"]
  /\ UNCHANGED <<call, owner, crashes>>

\* The INSERT was refused, or its outcome never reached the handler: an error
\* is answered and no goroutine started, whether the row exists or not.
CreateNamespaceFails(r) ==
  /\ context[r] = "unused"
  /\ \/ NameIsFree(r) /\ status' = [status EXCEPT ![r] = "provisioning"]
     \/ UNCHANGED status
  /\ context' = [context EXCEPT ![r] = "cancelled"]
  /\ UNCHANGED <<goroutine, call, owner, crashes>>

\* Variant: the goroutine has a context of its own, without a deadline.
HandlerReturnsDetached(r) ==
  /\ context[r] = "live"
  /\ goroutine[r] = "ended"
  /\ context' = [context EXCEPT ![r] = "cancelled"]
  /\ UNCHANGED <<status, goroutine, call, owner, crashes>>

\* The handler returns, or its client disconnects.
HandlerReturns(r) ==
  /\ context[r] = "live"
  /\ context' = [context EXCEPT ![r] = "cancelled"]
  /\ UNCHANGED <<status, goroutine, call, owner, crashes>>

-----------------------------------------------------------------------------
(* The goroutine.                                                          *)

Step(r, from, to) ==
  /\ goroutine[r] = from
  /\ goroutine' = [goroutine EXCEPT ![r] = to]

\* The dial does not wait for a connection, but it looks at the context.
Dial(r) ==
  /\ Step(r, "dial", "register")
  /\ context[r] = "live"
  /\ UNCHANGED <<status, context, call, owner, crashes>>

DialFails(r) ==
  /\ Step(r, "dial", "setFailed")
  /\ UNCHANGED <<status, context, call, owner, crashes>>

RegisterNamespace(r) ==
  /\ Step(r, "register", "waiting")
  /\ context[r] = "live"
  /\ call' = [call EXCEPT ![r] = "sent"]
  /\ UNCHANGED <<status, context, owner, crashes>>

\* The context is done or Temporal cannot be reached: nothing is sent.
RegisterNotSent(r) ==
  /\ Step(r, "register", "setFailed")
  /\ UNCHANGED <<status, context, call, owner, crashes>>

\* Variant: any answer of Temporal counts, so also "already exists".
RegisterAnswered(r) ==
  /\ Step(r, "waiting", "setActive")
  /\ call[r] \in {"accepted", "rejected"}
  /\ UNCHANGED <<status, context, call, owner, crashes>>

RegisterSucceeds(r) ==
  /\ Step(r, "waiting", "setActive")
  /\ call[r] = "accepted"
  /\ UNCHANGED <<status, context, call, owner, crashes>>

\* An error comes back, or the context ends the wait; the call may still be on
\* its way or already executed.
RegisterFails(r) ==
  /\ Step(r, "waiting", "setFailed")
  /\ call[r] = "rejected" \/ context[r] = "cancelled"
  /\ UNCHANGED <<status, context, call, owner, crashes>>

\* The connection breaks while the answer is awaited.
ConnectionLost(r) ==
  /\ Step(r, "waiting", "setFailed")
  /\ UNCHANGED <<status, context, call, owner, crashes>>

\* The UPDATEs; their errors are ignored.
SetActive(r) ==
  /\ Step(r, "setActive", "ended")
  /\ \/ status' = [status EXCEPT ![r] = "active"]
     \/ UNCHANGED status
  /\ UNCHANGED <<context, call, owner, crashes>>

\* Variant: the return after the UPDATE is missing.
SetFailedGoesOn(r) ==
  /\ Step(r, "setFailed", "setActive")
  /\ \/ status' = [status EXCEPT ![r] = "failed"]
     \/ UNCHANGED status
  /\ UNCHANGED <<context, call, owner, crashes>>

SetFailed(r) ==
  /\ Step(r, "setFailed", "ended")
  /\ \/ status' = [status EXCEPT ![r] = "failed"]
     \/ UNCHANGED status
  /\ UNCHANGED <<context, call, owner, crashes>>

\* The replica is killed; other goroutines of it are further such steps.
Crash(r) ==
  /\ crashes < MaxCrashes
  /\ crashes' = crashes + 1
  /\ goroutine[r] \in Working
  /\ goroutine' = [goroutine EXCEPT ![r] = "ended"]
  /\ context' = [context EXCEPT ![r] = "cancelled"]
  /\ UNCHANGED <<status, call, owner>>

-----------------------------------------------------------------------------
(* Temporal.                                                               *)

TemporalRegisters(r) ==
  /\ call[r] = "sent"
  /\ owner[NameOf[r]] = Nobody
  /\ owner' = [owner EXCEPT ![NameOf[r]] = r]
  /\ call' = [call EXCEPT ![r] = "accepted"]
  /\ UNCHANGED <<status, context, goroutine, crashes>>

\* The name exists already, or the request is not a valid one.
TemporalRefuses(r) ==
  /\ call[r] = "sent"
  /\ call' = [call EXCEPT ![r] = "rejected"]
  /\ UNCHANGED <<status, context, goroutine, owner, crashes>>

-----------------------------------------------------------------------------
(* The specification.                                                      *)

Provision(r) ==
  \/ Dial(r) \/ DialFails(r)
  \/ RegisterNamespace(r) \/ RegisterNotSent(r)
  \/ RegisterSucceeds(r) \/ RegisterFails(r)
  \/ SetActive(r) \/ SetFailed(r)

Next ==
  \E r \in Request :
    \/ CreateNamespace(r) \/ CreateNamespaceFails(r) \/ HandlerReturns(r)
    \/ Provision(r)
    \/ ConnectionLost(r) \/ Crash(r)
    \/ TemporalRegisters(r) \/ TemporalRefuses(r)

Spec == Init /\ [][Next]_vars

\* A handler that started its goroutine returns, and a goroutine whose replica
\* lives keeps running.  Nothing is assumed of Temporal or of the connection.
FairSpec ==
  /\ Spec
  /\ \A r \in Request : WF_vars(HandlerReturns(r)) /\ WF_vars(Provision(r))

-----------------------------------------------------------------------------
(* Properties.                                                             *)

\* A row is active only if Temporal registered its namespace for this very
\* request: no request takes over a namespace that existed before or that
\* another request registered, whatever is cancelled, lost or answered late.
ActiveIsOwned ==
  \A r \in Request : status[r] = "active" => owner[NameOf[r]] = r

\* The rows and the registry follow the lifecycle callers rely on: a status
\* settles once, and a settled row never changes again.
LifecycleSpec == Lifecycle!Spec

\* No goroutine waits for ever on a silent Temporal.  RegisterNamespace has no
\* deadline of its own; that the wait ends rests on the request's context.
ProvisioningEnds ==
  \A r \in Request :
    goroutine[r] \in Working ~> goroutine[r] = "ended"

-----------------------------------------------------------------------------
(* The inductive invariant behind the safety properties.                   *)

\* The row of a running goroutine is still as the handler inserted it.
RowAwaitsGoroutine ==
  \A r \in Request : goroutine[r] \in Working => status[r] = "provisioning"

\* Only a request that was handled has a row, a goroutine or a call.
UnusedIsUntouched ==
  \A r \in Request :
    /\ context[r] = "unused" =>
         status[r] = "absent" /\ goroutine[r] = "none" /\ call[r] = "none"
    /\ goroutine[r] = "none" => call[r] = "none"
    /\ goroutine[r] # "none" => status[r] # "absent"

\* A goroutine about to store "active" has Temporal's answer, and Temporal
\* accepted only calls it registered the name for.
AnswerIsTrue ==
  \A r \in Request :
    /\ goroutine[r] = "setActive" => call[r] = "accepted"
    /\ call[r] = "accepted" => owner[NameOf[r]] = r

\* The inductive invariant: beside the properties, what a goroutine's phase
\* says of its row, its call and the registry.
IInv ==
  /\ TypeOK
  /\ RowAwaitsGoroutine
  /\ UnusedIsUntouched
  /\ AnswerIsTrue
  /\ ActiveIsOwned

=============================================================================
