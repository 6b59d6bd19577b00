------------------------------ MODULE ApiKeys ------------------------------
(***************************************************************************)
(* API keys of the billing service: the middleware Authenticate before     *)
(* every route under /api/v1, and the handlers that create and delete keys *)
(* (billing-service/auth.go, api_keys.go, main.go).  Every statement is a  *)
(* step; one that fails, or whose answer is lost, has been executed by     *)
(* then or never is.                                                       *)
(*                                                                         *)
(* A key is named by the call that generated it.  Keys of a time without   *)
(* authentication, and the organizations other handlers made, are there    *)
(* from the start.                                                         *)
(***************************************************************************)
EXTENDS ServiceClock, FiniteSets

CONSTANTS
  Org,       \* organizations
  Call,      \* calls under /api/v1
  Create,    \* those to POST organizations/{org_id}/api-keys
  Delete,    \* those to DELETE api-keys/{key_id}
  FirstKey,  \* keys that may be there from the start
  PrefixOf,  \* the four random bytes by which a key is looked up
  KeyLife,   \* expires_in of a key that expires
  MaxCalls   \* bound on the calls that arrive

Key == FirstKey \cup Create

\* used tells whether last_used_at is set.
KeyRow == [org : Org, expiresAt : Nat \cup {None}, used : BOOLEAN]

\* late is history: the key presented was not stored when the call arrived.
CallState ==
  [phase : {"auth", "handler", "insert", "answered", "failed", "refused"},
   key : Key \cup {None}, late : BOOLEAN, row : KeyRow \cup {None}]

Slug == {"demo", "other"}

ASSUME ApiKeysAssumption ==
  /\ Create \subseteq Call
  /\ Delete \subseteq Call \ Create
  /\ FirstKey \cap Create = {}
  /\ KeyLife \in Nat
  /\ None \notin Key \cup KeyRow \cup CallState \cup Slug

VARIABLES
  enableAuth,     \* ENABLE_AUTH is not set or "true"
  organizations,  \* the slug of each row of the table, or None
  keys,           \* the table api_keys
  calls,
  touches         \* the detached updates of last_used_at that are under way

keyVars == <<enableAuth, organizations, keys, calls, touches>>

KeysTypeOK ==
  /\ now \in Nat
  /\ enableAuth \in BOOLEAN
  /\ organizations \in [Org -> Slug \cup {None}]
  /\ keys \in [Key -> KeyRow \cup {None}]
  /\ calls \in [Call -> CallState \cup {None}]
  /\ touches \subseteq Key

KeysInit ==
  /\ now = 0
  /\ enableAuth \in BOOLEAN
  /\ organizations \in [Org -> {"other", None}]
  /\ keys \in [Key -> [org : {o \in Org : organizations[o] # None},
                       expiresAt : {None}, used : {FALSE}] \cup {None}]
  /\ \A c \in Create : keys[c] = None
  /\ calls = [c \in Call |-> None]
  /\ touches = {}

MoreCalls == Cardinality({c \in Call : calls[c] # None}) < MaxCalls

-----------------------------------------------------------------------------
(* Authenticate                                                            *)

\* A key is known from the answer that returned it; a header may be missing.
Known(k) == k \in FirstKey \/ At(calls[k], "answered")

Arrive(c) ==
  /\ calls[c] = None
  /\ MoreCalls
  /\ \E k \in {k \in Key : Known(k)} \cup {None} :
       calls' = [calls EXCEPT ![c] =
                   [phase |-> "auth", key |-> k, row |-> None,
                    late |-> k = None \/ keys[k] = None]]
  /\ UNCHANGED <<now, enableAuth, organizations, keys, touches>>

\* The row with the prefix and the hash of the key exists and is not expired.
Valid(c) ==
  LET k == calls[c].key IN
  /\ k # None
  /\ keys[k] # None
  /\ keys[k].expiresAt # None => now <= keys[k].expiresAt

Admit(c) ==
  /\ At(calls[c], "auth")
  /\ enableAuth => Valid(c)
  /\ touches' = IF enableAuth THEN touches \cup {calls[c].key} ELSE touches
  /\ calls' = [calls EXCEPT ![c].phase = "handler"]
  /\ UNCHANGED <<now, enableAuth, organizations, keys>>

\* No key, no row, an expired one, or the query fails.
Refuse(c) ==
  /\ At(calls[c], "auth")
  /\ enableAuth
  /\ calls' = [calls EXCEPT ![c].phase = "refused"]
  /\ UNCHANGED <<now, enableAuth, organizations, keys, touches>>

\* Variant: the update writes the row it was started for, there or not.
TouchRestores(k) ==
  /\ k \in touches
  /\ touches' = touches \ {k}
  /\ \E o \in Org :
       keys' = [keys EXCEPT ![k] = [org |-> o, expiresAt |-> None, used |-> TRUE]]
  /\ UNCHANGED <<now, enableAuth, organizations, calls>>

\* The goroutine's UPDATE, at any time after the answer: it selects by prefix,
\* and finds no row when the key was deleted.  It may also fail.
Touch(k) ==
  /\ k \in touches
  /\ touches' = touches \ {k}
  /\ \/ keys' = [i \in Key |->
                   IF keys[i] # None /\ PrefixOf[i] = PrefixOf[k]
                     THEN [keys[i] EXCEPT !.used = TRUE] ELSE keys[i]]
     \/ UNCHANGED keys
  /\ UNCHANGED <<now, enableAuth, organizations, calls>>

-----------------------------------------------------------------------------
(* CreateAPIKey, DeleteAPIKey                                              *)

\* The INSERT of the demo organization: a row with the id is left alone; the
\* unique slug lets only one organization in this way, and the error, like any
\* other, is only logged.
EnsureOrganization(c) ==
  /\ c \in Create
  /\ At(calls[c], "handler")
  /\ \E o \in Org, until \in {None, now + KeyLife} :
       /\ \/ /\ organizations[o] = None
             /\ \A p \in Org : organizations[p] # "demo"
             /\ organizations' = [organizations EXCEPT ![o] = "demo"]
          \/ UNCHANGED organizations
       /\ calls' = [calls EXCEPT ![c].phase = "insert",
                      ![c].row = [org |-> o, expiresAt |-> until, used |-> FALSE]]
  /\ UNCHANGED <<now, enableAuth, keys, touches>>

\* Variant: the reference to the organization is not checked.
InsertKeyUnchecked(c) ==
  /\ At(calls[c], "insert")
  /\ keys' = [keys EXCEPT ![c] = calls[c].row]
  /\ calls' = [calls EXCEPT ![c].phase = "answered"]
  /\ UNCHANGED <<now, enableAuth, organizations, touches>>

\* The foreign key is checked; the answer returns the key.
InsertKey(c) ==
  /\ At(calls[c], "insert")
  /\ organizations[calls[c].row.org] # None
  /\ keys' = [keys EXCEPT ![c] = calls[c].row]
  /\ calls' = [calls EXCEPT ![c].phase = "answered"]
  /\ UNCHANGED <<now, enableAuth, organizations, touches>>

\* A row that was stored all the same is one whose key nobody has.
InsertKeyFails(c) ==
  /\ At(calls[c], "insert")
  /\ \/ /\ organizations[calls[c].row.org] # None
        /\ keys' = [keys EXCEPT ![c] = calls[c].row]
     \/ UNCHANGED keys
  /\ calls' = [calls EXCEPT ![c].phase = "failed"]
  /\ UNCHANGED <<now, enableAuth, organizations, touches>>

\* Any key, of whatever organization.  No row is answered with 404.
DeleteKey(c) ==
  /\ c \in Delete
  /\ At(calls[c], "handler")
  /\ \E k \in Key :
       /\ keys' = [keys EXCEPT ![k] = None]
       /\ calls' = [calls EXCEPT ![c].phase =
                      IF keys[k] = None THEN "failed" ELSE "answered"]
  /\ UNCHANGED <<now, enableAuth, organizations, touches>>

DeleteKeyFails(c) ==
  /\ c \in Delete
  /\ At(calls[c], "handler")
  /\ \/ \E k \in Key : keys' = [keys EXCEPT ![k] = None]
     \/ UNCHANGED keys
  /\ calls' = [calls EXCEPT ![c].phase = "failed"]
  /\ UNCHANGED <<now, enableAuth, organizations, touches>>

-----------------------------------------------------------------------------
(* The specification.                                                      *)

\* Another handler takes the admitted call over.
Serve(c) ==
  /\ c \notin Create \cup Delete
  /\ At(calls[c], "handler")
  /\ calls' = [calls EXCEPT ![c].phase = "answered"]
  /\ UNCHANGED <<enableAuth, organizations, keys, touches>>

KeysStep ==
  \/ \E c \in Call : Arrive(c) \/ Admit(c) \/ Refuse(c)
  \/ \E k \in Key : Touch(k)
  \/ \E c \in Create : EnsureOrganization(c) \/ InsertKey(c) \/ InsertKeyFails(c)
  \/ \E c \in Delete : DeleteKey(c) \/ DeleteKeyFails(c)

KeysNext ==
  \/ KeysStep
  \/ Tick /\ UNCHANGED keyVars
  \/ \E c \in Call : Serve(c) /\ UNCHANGED now

KeysSpec == KeysInit /\ [][KeysNext]_<<now, keyVars>>

-----------------------------------------------------------------------------
(* What the middleware guarantees.                                         *)

\* With authentication on, a call that arrives when its key is deleted, or
\* without one, is refused, whatever updates of last_used_at and creations of
\* keys are still under way.
DeletedKeyAdmitsNobody ==
  enableAuth =>
    \A c \in Call : calls[c] # None /\ calls[c].late =>
      calls[c].phase \in {"auth", "refused"}

-----------------------------------------------------------------------------
(* The inductive invariant.                                                *)

\* A key is stored once, before its call is answered.
KeysOfCalls ==
  /\ \A c \in Create : keys[c] # None =>
       calls[c] # None /\ calls[c].phase \in {"answered", "failed"}
  /\ \A c \in Call : calls[c] # None =>
       /\ calls[c].phase = "insert" => c \in Create /\ calls[c].row # None
       /\ calls[c].key # None => Known(calls[c].key)
       /\ calls[c].late /\ calls[c].key # None => keys[calls[c].key] = None

\* The rows the demo organization makes: one at most, and every key has one.
KeysHaveOrganizations ==
  /\ \A k \in Key : keys[k] # None => organizations[keys[k].org] # None
  /\ \A o, p \in Org : organizations[o] = "demo" /\ organizations[p] = "demo" => o = p

KeysInv ==
  /\ KeysTypeOK
  /\ KeysOfCalls
  /\ KeysHaveOrganizations
  /\ DeletedKeyAdmitsNobody
=============================================================================
