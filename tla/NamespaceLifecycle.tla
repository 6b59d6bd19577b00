------------------------- MODULE NamespaceLifecycle -------------------------
(***************************************************************************)
(* What the namespaces API promises its callers, without the processes     *)
(* behind it: an accepted request is provisioning until it settles once,   *)
(* as active or as failed, and it is active only if Temporal registered    *)
(* the namespace for that very request.  NamespaceProvisioning, which      *)
(* implements it with the same constants, assumes what they must satisfy.  *)
(***************************************************************************)
CONSTANTS
  Request,  \* requests to create a namespace
  Name,     \* values of temporal_namespace
  NameOf,   \* the name each request asks for
  Nobody,   \* owner of a name that is not registered
  Other     \* owner of a name registered outside the billing service

VARIABLES
  status,   \* status of each request's row; "absent" without a row
  owner     \* the request Temporal registered each name for

Status == {"absent", "provisioning", "active", "failed"}

Init ==
  /\ status = [r \in Request |-> "absent"]
  /\ owner \in [Name -> {Nobody, Other}]

\* A name in use by another row, whatever its status, is refused.
Accept(r) ==
  /\ status[r] = "absent"
  /\ \A q \in Request : NameOf[q] = NameOf[r] => status[q] = "absent"
  /\ status' = [status EXCEPT ![r] = "provisioning"]
  /\ UNCHANGED owner

\* Also after the request was given up as failed.
Register(r) ==
  /\ status[r] # "absent"
  /\ owner[NameOf[r]] = Nobody
  /\ owner' = [owner EXCEPT ![NameOf[r]] = r]
  /\ UNCHANGED status

Activate(r) ==
  /\ status[r] = "provisioning"
  /\ owner[NameOf[r]] = r
  /\ status' = [status EXCEPT ![r] = "active"]
  /\ UNCHANGED owner

Fail(r) ==
  /\ status[r] = "provisioning"
  /\ status' = [status EXCEPT ![r] = "failed"]
  /\ UNCHANGED owner

Next == \E r \in Request : Accept(r) \/ Register(r) \/ Activate(r) \/ Fail(r)

Spec == Init /\ [][Next]_<<status, owner>>
=============================================================================
