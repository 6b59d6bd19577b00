------------------------------ MODULE SiteAuth ------------------------------
(***************************************************************************)
(* Sign-up by email, verification, sign-in links and passwords of the      *)
(* marketing site (marketing-site/src/routes/api/auth).  The handlers run  *)
(* concurrently and share a KV store that has single reads and writes and  *)
(* no transactions; every step below makes one KV call or one call to the  *)
(* mail service.  A handler that fails or is cut off undoes nothing: it    *)
(* stops where it is, which any request may do since no fairness is        *)
(* assumed.                                                                *)
(*                                                                         *)
(* The store is taken to return the last value written.  A token is named  *)
(* by the request that generated it.  Passwords are compared by their      *)
(* hashes; Password is the set of hashes.  Login and the Google callback   *)
(* only set a cookie and are left out.                                     *)
(***************************************************************************)
EXTENDS Integers, FiniteSets

CONSTANTS
  Email,         \* addresses
  Password,      \* hashes of passwords
  SignUp,        \* POST /api/auth/signup
  Link,          \* POST /api/auth/magic-link
  Visit,         \* GET /api/auth/verify, for either kind of token
  Change,        \* POST /api/auth/set-password
  SignUpLife,    \* how long a sign-up's token and pending user are kept
  LinkLife,      \* how long a sign-in link is kept
  MaxTime,       \* bound on time
  MaxRequests,   \* bound on the requests that arrive
  None           \* no value

Token == SignUp \cup Link

\* The user record; origin stands for the name and creation time in it.
User == [origin : SignUp \cup Change, password : Password, verified : BOOLEAN]

\* KV entries with a TTL are kept at least until then.
PendingUser == [user : User, until : Nat]
TokenData == [email : Email, expiresAt : Nat, until : Nat]

\* A request, from its arrival on.  late is history: the address had an
\* account when the sign-up arrived.
SignUpState ==
  [phase : {"check", "token", "pending", "mail", "mailed", "create", "created",
            "refused"},
   email : Email, password : Password, expiresAt : Nat, mailed : BOOLEAN,
   late : BOOLEAN]

LinkState ==
  [phase : {"store", "mail", "answered"},
   email : Email, expiresAt : Nat, mailed : BOOLEAN]

VisitState ==
  [phase : {"token", "expired", "pending", "activate", "clear", "drop",
            "answered", "rejected"},
   token : Token, email : Email, found : User \cup {None}]

ChangeState ==
  [phase : {"read", "write", "answered", "refused"},
   email : Email, current : Password \cup {None}, new : Password,
   found : User \cup {None}]

ASSUME SiteAuthAssumption ==
  /\ SignUpLife \in Nat
  /\ LinkLife \in Nat
  /\ SignUp \cap (Link \cup Change) = {}
  /\ None \notin User \cup PendingUser \cup TokenData \cup Password
  /\ None \notin SignUpState \cup LinkState \cup VisitState \cup ChangeState

VARIABLES
  now,           \* the time
  users,         \* KV user:<email>
  pendingUsers,  \* KV pending_user:<email>
  tokens,        \* KV verification:<token> and magic_link:<token>
  signUps, links, visits, changes  \* the requests

vars == <<now, users, pendingUsers, tokens, signUps, links, visits, changes>>

TypeOK ==
  /\ now \in Nat
  /\ users \in [Email -> User \cup {None}]
  /\ pendingUsers \in [Email -> PendingUser \cup {None}]
  /\ tokens \in [Token -> TokenData \cup {None}]
  /\ signUps \in [SignUp -> SignUpState \cup {None}]
  /\ links \in [Link -> LinkState \cup {None}]
  /\ visits \in [Visit -> VisitState \cup {None}]
  /\ changes \in [Change -> ChangeState \cup {None}]

Init ==
  /\ now = 0
  /\ users = [e \in Email |-> None]
  /\ pendingUsers = [e \in Email |-> None]
  /\ tokens = [t \in Token |-> None]
  /\ signUps = [s \in SignUp |-> None]
  /\ links = [l \in Link |-> None]
  /\ visits = [v \in Visit |-> None]
  /\ changes = [c \in Change |-> None]

\* The request has come to this point of its handler.
At(request, phase) == request # None /\ request.phase = phase

\* Bounds the requests of a behaviour; not in the code.
MoreRequests ==
  Cardinality({s \in SignUp : signUps[s] # None})
    + Cardinality({l \in Link : links[l] # None})
    + Cardinality({v \in Visit : visits[v] # None})
    + Cardinality({c \in Change : changes[c] # None}) < MaxRequests

-----------------------------------------------------------------------------
(* Time and the KV store.                                                  *)

Tick ==
  /\ now < MaxTime
  /\ now' = now + 1
  /\ UNCHANGED <<users, pendingUsers, tokens, signUps, links, visits, changes>>

\* An entry whose TTL has run out disappears, sooner or later.
Expire ==
  /\ \/ \E e \in Email :
          /\ pendingUsers[e] # None
          /\ now >= pendingUsers[e].until
          /\ pendingUsers' = [pendingUsers EXCEPT ![e] = None]
          /\ UNCHANGED tokens
     \/ \E t \in Token :
          /\ tokens[t] # None
          /\ now >= tokens[t].until
          /\ tokens' = [tokens EXCEPT ![t] = None]
          /\ UNCHANGED pendingUsers
  /\ UNCHANGED <<now, users, signUps, links, visits, changes>>

-----------------------------------------------------------------------------
(* signup/+server.ts                                                       *)

\* The token is generated and its end computed before anything is looked up.
StartSignUp(s) ==
  /\ signUps[s] = None
  /\ MoreRequests
  /\ \E e \in Email, p \in Password :
       signUps' = [signUps EXCEPT ![s] =
                     [phase |-> "check", email |-> e, password |-> p,
                      expiresAt |-> now + SignUpLife, mailed |-> FALSE,
                      late |-> users[e] # None]]
  /\ UNCHANGED <<now, users, pendingUsers, tokens, links, visits, changes>>

\* Variant: the look-up is made and its result not looked at.
CheckUserForgotten(s) ==
  /\ At(signUps[s], "check")
  /\ signUps' = [signUps EXCEPT ![s].phase = "token"]
  /\ UNCHANGED <<now, users, pendingUsers, tokens, links, visits, changes>>

CheckUser(s) ==
  /\ At(signUps[s], "check")
  /\ signUps' = [signUps EXCEPT ![s].phase =
                   IF users[signUps[s].email] # None THEN "refused" ELSE "token"]
  /\ UNCHANGED <<now, users, pendingUsers, tokens, links, visits, changes>>

PutToken(s) ==
  /\ At(signUps[s], "token")
  /\ tokens' = [tokens EXCEPT ![s] =
                  [email |-> signUps[s].email, expiresAt |-> signUps[s].expiresAt,
                   until |-> now + SignUpLife]]
  /\ signUps' = [signUps EXCEPT ![s].phase = "pending"]
  /\ UNCHANGED <<now, users, pendingUsers, links, visits, changes>>

\* The record a sign-up makes for its user.
NewUser(s, verified) ==
  [origin |-> s, password |-> signUps[s].password, verified |-> verified]

\* A later sign-up of the address overwrites the pending user of an earlier one.
PutPendingUser(s) ==
  /\ At(signUps[s], "pending")
  /\ pendingUsers' = [pendingUsers EXCEPT ![signUps[s].email] =
                        [user |-> NewUser(s, FALSE), until |-> now + SignUpLife]]
  /\ signUps' = [signUps EXCEPT ![s].phase = "mail"]
  /\ UNCHANGED <<now, users, tokens, links, visits, changes>>

SendMail(s) ==
  /\ At(signUps[s], "mail")
  /\ signUps' = [signUps EXCEPT ![s].phase = "mailed", ![s].mailed = TRUE]
  /\ UNCHANGED <<now, users, pendingUsers, tokens, links, visits, changes>>

\* No mail service is configured or it answers with an error, which does not
\* tell whether the mail left: demo mode.
SendMailFails(s) ==
  /\ At(signUps[s], "mail")
  /\ \E left \in BOOLEAN :
       signUps' = [signUps EXCEPT ![s].phase = "create", ![s].mailed = left]
  /\ UNCHANGED <<now, users, pendingUsers, tokens, links, visits, changes>>

CreateUser(s) ==
  /\ At(signUps[s], "create")
  /\ users' = [users EXCEPT ![signUps[s].email] = NewUser(s, TRUE)]
  /\ signUps' = [signUps EXCEPT ![s].phase = "created"]
  /\ UNCHANGED <<now, pendingUsers, tokens, links, visits, changes>>

-----------------------------------------------------------------------------
(* magic-link/+server.ts                                                   *)

StartLink(l) ==
  /\ links[l] = None
  /\ MoreRequests
  /\ \E e \in Email :
       links' = [links EXCEPT ![l] =
                   [phase |-> "store", email |-> e,
                    expiresAt |-> now + LinkLife, mailed |-> FALSE]]
  /\ UNCHANGED <<now, users, pendingUsers, tokens, signUps, visits, changes>>

PutLink(l) ==
  /\ At(links[l], "store")
  /\ tokens' = [tokens EXCEPT ![l] =
                  [email |-> links[l].email, expiresAt |-> links[l].expiresAt,
                   until |-> now + LinkLife]]
  /\ links' = [links EXCEPT ![l].phase = "mail"]
  /\ UNCHANGED <<now, users, pendingUsers, signUps, visits, changes>>

\* The mail leaves.  When it does not, the answer is the same and nothing more
\* happens, as when the request stops before this step.
MailLink(l) ==
  /\ At(links[l], "mail")
  /\ links' = [links EXCEPT ![l].phase = "answered", ![l].mailed = TRUE]
  /\ UNCHANGED <<now, users, pendingUsers, tokens, signUps, visits, changes>>

-----------------------------------------------------------------------------
(* verify/+server.ts                                                       *)

Mailed(t) ==
  \/ t \in SignUp /\ signUps[t] # None /\ signUps[t].mailed
  \/ t \in Link /\ links[t] # None /\ links[t].mailed

\* A token is known from its mail; the address is a parameter of its own.
OpenLink(v) ==
  /\ visits[v] = None
  /\ MoreRequests
  /\ \E t \in Token, e \in Email :
       /\ Mailed(t)
       /\ visits' = [visits EXCEPT ![v] =
                       [phase |-> "token", token |-> t, email |-> e, found |-> None]]
  /\ UNCHANGED <<now, users, pendingUsers, tokens, signUps, links, changes>>

TokenFor(t, e) == tokens[t] # None /\ tokens[t].email = e

\* Variant: the address is not compared.
AcceptedForAnyone(t, e) == tokens[t] # None /\ now <= tokens[t].expiresAt

Accepted(t, e) == TokenFor(t, e) /\ now <= tokens[t].expiresAt

\* With the token of a sign-up accepted the pending user is looked up next; a
\* link is deleted at once.
AcceptToken(v) ==
  LET t == visits[v].token IN
  /\ At(visits[v], "token")
  /\ Accepted(t, visits[v].email)
  /\ visits' = [visits EXCEPT ![v].phase =
                  IF t \in SignUp THEN "pending" ELSE "drop"]
  /\ UNCHANGED <<now, users, pendingUsers, tokens, signUps, links, changes>>

RejectToken(v) ==
  /\ At(visits[v], "token")
  /\ ~ Accepted(visits[v].token, visits[v].email)
  /\ visits' = [visits EXCEPT ![v].phase =
                  IF TokenFor(visits[v].token, visits[v].email)
                    THEN "expired" ELSE "rejected"]
  /\ UNCHANGED <<now, users, pendingUsers, tokens, signUps, links, changes>>

DropExpired(v) ==
  /\ At(visits[v], "expired")
  /\ tokens' = [tokens EXCEPT ![visits[v].token] = None]
  /\ visits' = [visits EXCEPT ![v].phase = "rejected"]
  /\ UNCHANGED <<now, users, pendingUsers, signUps, links, changes>>

\* Variant: the pending user is taken out as soon as it is read.
GetPendingUserAndDrop(v) ==
  LET e == visits[v].email IN
  /\ At(visits[v], "pending")
  /\ visits' = IF pendingUsers[e] = None
                 THEN [visits EXCEPT ![v].phase = "drop"]
                 ELSE [visits EXCEPT ![v].phase = "activate",
                                     ![v].found = pendingUsers[e].user]
  /\ pendingUsers' = [pendingUsers EXCEPT ![e] = None]
  /\ UNCHANGED <<now, users, tokens, signUps, links, changes>>

\* Whatever user is pending for the address is activated; none is no error.
GetPendingUser(v) ==
  LET pending == pendingUsers[visits[v].email] IN
  /\ At(visits[v], "pending")
  /\ visits' = IF pending = None
                 THEN [visits EXCEPT ![v].phase = "drop"]
                 ELSE [visits EXCEPT ![v].phase = "activate", ![v].found = pending.user]
  /\ UNCHANGED <<now, users, pendingUsers, tokens, signUps, links, changes>>

ActivateUser(v) ==
  /\ At(visits[v], "activate")
  /\ users' = [users EXCEPT ![visits[v].email] =
                 [visits[v].found EXCEPT !.verified = TRUE]]
  /\ visits' = [visits EXCEPT ![v].phase = "clear"]
  /\ UNCHANGED <<now, pendingUsers, tokens, signUps, links, changes>>

DropPendingUser(v) ==
  /\ At(visits[v], "clear")
  /\ pendingUsers' = [pendingUsers EXCEPT ![visits[v].email] = None]
  /\ visits' = [visits EXCEPT ![v].phase = "drop"]
  /\ UNCHANGED <<now, users, tokens, signUps, links, changes>>

\* Variant: the token of a sign-up is left to its TTL.
DropTokenOfLink(v) ==
  /\ At(visits[v], "drop")
  /\ tokens' = [t \in Token |-> IF t = visits[v].token /\ t \in Link
                                  THEN None ELSE tokens[t]]
  /\ visits' = [visits EXCEPT ![v].phase = "answered"]
  /\ UNCHANGED <<now, users, pendingUsers, signUps, links, changes>>

\* The used token is deleted and the visit answered with success.  The site has
\* its KV binding here; without one verify answers success for any token.
DropToken(v) ==
  /\ At(visits[v], "drop")
  /\ tokens' = [tokens EXCEPT ![visits[v].token] = None]
  /\ visits' = [visits EXCEPT ![v].phase = "answered"]
  /\ UNCHANGED <<now, users, pendingUsers, signUps, links, changes>>

-----------------------------------------------------------------------------
(* set-password/+server.ts                                                 *)

\* The current password may be left out of the request.
StartChange(c) ==
  /\ changes[c] = None
  /\ MoreRequests
  /\ \E e \in Email, current \in Password \cup {None}, new \in Password :
       changes' = [changes EXCEPT ![c] =
                     [phase |-> "read", email |-> e, current |-> current,
                      new |-> new, found |-> None]]
  /\ UNCHANGED <<now, users, pendingUsers, tokens, signUps, links, visits>>

ReadUser(c) ==
  LET user == users[changes[c].email] IN
  /\ At(changes[c], "read")
  /\ changes' =
       IF user # None /\ changes[c].current \notin {None, user.password}
         THEN [changes EXCEPT ![c].phase = "refused"]
         ELSE [changes EXCEPT ![c].phase = "write", ![c].found = user]
  /\ UNCHANGED <<now, users, pendingUsers, tokens, signUps, links, visits>>

\* Variant: a new record is written as verified, like the others.
WriteUserVerified(c) ==
  LET found == changes[c].found IN
  /\ At(changes[c], "write")
  /\ users' = [users EXCEPT ![changes[c].email] =
                 IF found = None
                   THEN [origin |-> c, password |-> changes[c].new, verified |-> TRUE]
                   ELSE [found EXCEPT !.password = changes[c].new]]
  /\ changes' = [changes EXCEPT ![c].phase = "answered"]
  /\ UNCHANGED <<now, pendingUsers, tokens, signUps, links, visits>>

\* The record as it was read is written back with the new password, or a new
\* one without name and verification.
WriteUser(c) ==
  LET found == changes[c].found IN
  /\ At(changes[c], "write")
  /\ users' = [users EXCEPT ![changes[c].email] =
                 IF found = None
                   THEN [origin |-> c, password |-> changes[c].new, verified |-> FALSE]
                   ELSE [found EXCEPT !.password = changes[c].new]]
  /\ changes' = [changes EXCEPT ![c].phase = "answered"]
  /\ UNCHANGED <<now, pendingUsers, tokens, signUps, links, visits>>

-----------------------------------------------------------------------------
(* The specification.                                                      *)

SignUpNext(s) ==
  \/ StartSignUp(s) \/ CheckUser(s) \/ PutToken(s) \/ PutPendingUser(s)
  \/ SendMail(s) \/ SendMailFails(s) \/ CreateUser(s)

LinkNext(l) == StartLink(l) \/ PutLink(l) \/ MailLink(l)

VisitNext(v) ==
  \/ OpenLink(v) \/ AcceptToken(v) \/ RejectToken(v) \/ DropExpired(v)
  \/ GetPendingUser(v) \/ ActivateUser(v) \/ DropPendingUser(v) \/ DropToken(v)

ChangeNext(c) == StartChange(c) \/ ReadUser(c) \/ WriteUser(c)

Next ==
  \/ Tick
  \/ Expire
  \/ \E s \in SignUp : SignUpNext(s)
  \/ \E l \in Link : LinkNext(l)
  \/ \E v \in Visit : VisitNext(v)
  \/ \E c \in Change : ChangeNext(c)

Spec == Init /\ [][Next]_vars

-----------------------------------------------------------------------------
(* What the handlers guarantee.                                            *)

\* The visit accepted the token of sign-up s and is past the activation.
Verified(v, s) ==
  /\ visits[v] # None
  /\ visits[v].token = s
  /\ visits[v].phase \in {"clear", "drop", "answered"}

\* Who is told that the address is verified and that they can now sign in has
\* an account, although verify answers with success when no user is pending
\* and several sign-ups and visits of an address share one pending entry.  An
\* exception are answers later than the end of the token, whose pending user
\* may have expired while the request ran.
AccountAfterVerification ==
  \A v \in Visit, s \in SignUp :
    At(visits[v], "answered") /\ visits[v].token = s =>
      users[visits[v].email] # None \/ now >= signUps[s].expiresAt

\* A token mailed to the address was presented, or a sign-up of the address
\* fell to demo mode.
Proven(e) ==
  \E s \in SignUp :
    /\ signUps[s] # None
    /\ signUps[s].email = e
    /\ signUps[s].phase = "created" \/ \E v \in Visit : Verified(v, s)

\* An account is marked verified only for an address that was proven, also when
\* several requests read, copy and write back its record.
VerifiedByItsOwner ==
  \A e \in Email : users[e] # None /\ users[e].verified => Proven(e)

\* A sign-up that arrives when its address has an account leaves no trace: no
\* token, no pending user and never a change of that account.
LateSignUpLeavesNoTrace ==
  \A s \in SignUp : signUps[s] # None /\ signUps[s].late =>
    /\ tokens[s] = None
    /\ \A e \in Email :
         /\ users[e] # None => users[e].origin # s
         /\ pendingUsers[e] # None => pendingUsers[e].user.origin # s

\* The token of an answered visit is gone for good, also when other visits of
\* the same token and the request that made it are still on their way.
UsedTokensAreGone ==
  \A v \in Visit : At(visits[v], "answered") => tokens[visits[v].token] = None

-----------------------------------------------------------------------------
(* The inductive invariant.                                                *)

\* The phases of a sign-up whose pending user was stored.
Stored == {"mail", "mailed", "create", "created"}

\* A token in the store is the one its request made, and was stored before the
\* mail that names it.
TokensOfRequests ==
  /\ \A s \in SignUp : tokens[s] # None =>
       /\ signUps[s] # None
       /\ signUps[s].phase \in Stored \cup {"pending"}
       /\ tokens[s].email = signUps[s].email
       /\ tokens[s].expiresAt = signUps[s].expiresAt
  /\ \A s \in SignUp : signUps[s] # None =>
       /\ signUps[s].expiresAt <= now + SignUpLife
       /\ signUps[s].mailed => signUps[s].phase \in Stored \ {"mail"}
  /\ \A l \in Link : links[l] # None /\ links[l].mailed => links[l].phase = "answered"
  /\ \A v \in Visit : visits[v] # None => Mailed(visits[v].token)

\* Visits beyond the check have the address of their token.
AcceptedAddress ==
  \A v \in Visit : visits[v] # None =>
    LET t == visits[v].token IN
    t \in SignUp /\ visits[v].phase \notin {"token", "expired", "rejected"} =>
      visits[v].email = signUps[t].email

\* Once its pending user was stored, a sign-up's address has an account or a
\* pending user that outlives the sign-up's token.
AccountOrPending ==
  \A s \in SignUp :
    signUps[s] # None /\ signUps[s].phase \in Stored =>
      LET e == signUps[s].email IN
      \/ users[e] # None
      \/ pendingUsers[e] # None /\ pendingUsers[e].until >= signUps[s].expiresAt
      \/ now >= signUps[s].expiresAt

\* How far a visit has come tells what the store holds for its address.
VisitProgress ==
  \A v \in Visit : visits[v] # None =>
    LET t == visits[v].token
        e == visits[v].email IN
    /\ visits[v].phase \in {"pending", "activate"} => t \in SignUp
    /\ visits[v].phase = "activate" => visits[v].found # None
    /\ visits[v].phase = "clear" => users[e] # None
    /\ visits[v].phase = "drop" /\ t \in SignUp =>
         users[e] # None \/ now >= signUps[t].expiresAt

\* What a record held by set-password says of its verification is true.
HeldVerification ==
  \A c \in Change :
    changes[c] # None /\ changes[c].found # None /\ changes[c].found.verified =>
      Proven(changes[c].email)

\* Late sign-ups are refused.
LateIsRefused ==
  \A s \in SignUp : signUps[s] # None /\ signUps[s].late =>
    users[signUps[s].email] # None /\ signUps[s].phase \in {"check", "refused"}

\* Every record in the store or held by a request stems from a sign-up that was
\* not refused, or from set-password.
Timely(origin) ==
  origin \in SignUp =>
    /\ signUps[origin] # None
    /\ signUps[origin].phase \notin {"check", "refused"}

OriginsAreTimely ==
  /\ \A e \in Email : users[e] # None => Timely(users[e].origin)
  /\ \A e \in Email : pendingUsers[e] # None => Timely(pendingUsers[e].user.origin)
  /\ \A v \in Visit : visits[v] # None /\ visits[v].found # None =>
       Timely(visits[v].found.origin)
  /\ \A c \in Change : changes[c] # None /\ changes[c].found # None =>
       Timely(changes[c].found.origin)

IInv ==
  /\ TypeOK
  /\ TokensOfRequests
  /\ AcceptedAddress
  /\ AccountOrPending
  /\ VisitProgress
  /\ HeldVerification
  /\ LateIsRefused
  /\ OriginsAreTimely
  /\ AccountAfterVerification
  /\ VerifiedByItsOwner
  /\ UsedTokensAreGone
=============================================================================
