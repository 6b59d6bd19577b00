----------------------------- MODULE MagicLinks -----------------------------
(***************************************************************************)
(* Sign-in links of the billing service: SendMagicLink and VerifyMagicLink *)
(* of billing-service/service.go, over the table magic_links, which holds  *)
(* one row per address.  Every statement is a step.  One that fails, or    *)
(* whose answer is lost, has been executed by then or never is.  A request *)
(* whose process dies stops where it is: no step is bound to happen.       *)
(*                                                                         *)
(* A token is named by the request that generated it.  RunMigrations made  *)
(* the table before the service serves, so the CREATE TABLE that follows a *)
(* failed INSERT changes nothing.                                          *)
(***************************************************************************)
EXTENDS ServiceClock

CONSTANTS
  Email,     \* addresses
  Send,      \* POST /api/v1/auth/magic-link
  Visit,     \* GET /api/v1/auth/verify
  LinkLife   \* how long a link is valid: 15 minutes

Row == [token : Send, expiresAt : Nat]

SendState ==
  [phase : {"store", "retry", "mail", "answered", "refused"},
   email : Email, expiresAt : Nat, mailed : BOOLEAN]

\* late is history: the token was in no row when the visit arrived.
VisitState ==
  [phase : {"select", "check", "delete", "answered", "rejected"},
   token : Send, email : Email, found : Row \cup {None}, late : BOOLEAN]

ASSUME MagicLinksAssumption ==
  /\ LinkLife \in Nat
  /\ None \notin Send \cup Row \cup SendState \cup VisitState

VARIABLES
  links,   \* the table magic_links, by email
  sends, visits

linkVars == <<links, sends, visits>>

LinksTypeOK ==
  /\ now \in Nat
  /\ links \in [Email -> Row \cup {None}]
  /\ sends \in [Send -> SendState \cup {None}]
  /\ visits \in [Visit -> VisitState \cup {None}]

LinksInit ==
  /\ now = 0
  /\ links = [e \in Email |-> None]
  /\ sends = [s \in Send |-> None]
  /\ visits = [v \in Visit |-> None]

-----------------------------------------------------------------------------
(* SendMagicLink                                                           *)

\* The token is generated and its end computed before anything is stored.
StartSend(s) ==
  /\ sends[s] = None
  /\ \E e \in Email :
       sends' = [sends EXCEPT ![s] =
                   [phase |-> "store", email |-> e,
                    expiresAt |-> now + LinkLife, mailed |-> FALSE]]
  /\ UNCHANGED <<now, links, visits>>

Upsert(s) ==
  links' = [links EXCEPT ![sends[s].email] =
              [token |-> s, expiresAt |-> sends[s].expiresAt]]

\* The row of the address is overwritten, also by an earlier request that is
\* late, and also at the second try.
StoreLink(s) ==
  /\ At(sends[s], "store") \/ At(sends[s], "retry")
  /\ Upsert(s)
  /\ sends' = [sends EXCEPT ![s].phase = "mail"]
  /\ UNCHANGED <<now, visits>>

StoreFails(s) ==
  /\ \/ /\ At(sends[s], "store")
        /\ sends' = [sends EXCEPT ![s].phase = "retry"]
     \/ /\ At(sends[s], "retry")
        /\ sends' = [sends EXCEPT ![s].phase = "refused"]
  /\ Upsert(s) \/ UNCHANGED links
  /\ UNCHANGED <<now, visits>>

\* Variant: the row is stored once more when the mail has left.
MailAndStore(s) ==
  /\ At(sends[s], "mail")
  /\ sends' = [sends EXCEPT ![s].mailed = TRUE]
  /\ Upsert(s)
  /\ UNCHANGED <<now, visits>>

\* The answer is the same when the mail does not leave.  Without a mail service
\* the link is printed to the log.
MailLink(s) ==
  /\ At(sends[s], "mail")
  /\ \E left \in BOOLEAN :
       sends' = [sends EXCEPT ![s].phase = "answered", ![s].mailed = left]
  /\ UNCHANGED <<now, links, visits>>

-----------------------------------------------------------------------------
(* VerifyMagicLink                                                         *)

Stored(t) == \E e \in Email : links[e] # None /\ links[e].token = t

\* A token is known from its mail; the address is a parameter of its own, and
\* comes out changed when the link was made of one with a plus sign.
OpenLink(v) ==
  /\ visits[v] = None
  /\ \E t \in Send, e \in Email :
       /\ sends[t] # None
       /\ sends[t].mailed
       /\ visits' = [visits EXCEPT ![v] =
                       [phase |-> "select", token |-> t, email |-> e,
                        found |-> None, late |-> ~Stored(t)]]
  /\ UNCHANGED <<now, links, sends>>

\* Variant: the stored token is not compared.
SelectAnyLink(v) ==
  LET row == links[visits[v].email] IN
  /\ At(visits[v], "select")
  /\ row # None
  /\ visits' = [visits EXCEPT ![v].phase = "check", ![v].found = row]
  /\ UNCHANGED <<now, links, sends>>

SelectLink(v) ==
  LET row == links[visits[v].email] IN
  /\ At(visits[v], "select")
  /\ row # None
  /\ row.token = visits[v].token
  /\ visits' = [visits EXCEPT ![v].phase = "check", ![v].found = row]
  /\ UNCHANGED <<now, links, sends>>

\* No row, another token, or the query fails.
RejectLink(v) ==
  /\ At(visits[v], "select")
  /\ visits' = [visits EXCEPT ![v].phase = "rejected"]
  /\ UNCHANGED <<now, links, sends>>

CheckExpiry(v) ==
  /\ At(visits[v], "check")
  /\ visits' = [visits EXCEPT ![v].phase =
                  IF now > visits[v].found.expiresAt THEN "rejected" ELSE "delete"]
  /\ UNCHANGED <<now, links, sends>>

\* Variant: the links of every address are deleted.
DeleteAllLinks(v) ==
  /\ At(visits[v], "delete")
  /\ \/ links' = [e \in Email |-> None]
     \/ UNCHANGED links
  /\ visits' = [visits EXCEPT ![v].phase = "answered"]
  /\ UNCHANGED <<now, sends>>

\* The DELETE names the address only, and its failure is not looked at; the
\* answer sets the auth cookie.
DeleteLink(v) ==
  /\ At(visits[v], "delete")
  /\ \/ links' = [links EXCEPT ![visits[v].email] = None]
     \/ UNCHANGED links
  /\ visits' = [visits EXCEPT ![v].phase = "answered"]
  /\ UNCHANGED <<now, sends>>

-----------------------------------------------------------------------------
(* The specification.                                                      *)

\* The steps of requests that have arrived.
LinksStep ==
  \/ \E s \in Send : StoreLink(s) \/ StoreFails(s) \/ MailLink(s)
  \/ \E v \in Visit : SelectLink(v) \/ RejectLink(v) \/ CheckExpiry(v) \/ DeleteLink(v)

LinksNext ==
  \/ Tick /\ UNCHANGED linkVars
  \/ \E s \in Send : StartSend(s)
  \/ \E v \in Visit : OpenLink(v)
  \/ LinksStep

LinksSpec == LinksInit /\ [][LinksNext]_<<now, linkVars>>

-----------------------------------------------------------------------------
(* What the handlers guarantee.                                            *)

Decision(phase) ==
  CASE phase \in {"check", "delete"} -> "granted"
    [] phase = "answered" -> "in"
    [] OTHER -> "refused"

\* The handlers implement one-time links.  In particular a link is taken away
\* only by a newer one or by the sign-in of a visit that was accepted against
\* the row of its address: a visit with an older link removes a newer one only
\* if it was accepted before the newer one was stored.
OneTime == INSTANCE OneTimeLinks WITH
  Token <- Send,
  current <- [e \in Email |-> IF links[e] = None THEN None ELSE links[e].token],
  passes <- [v \in Visit |->
    IF visits[v] = None \/ At(visits[v], "select")
      THEN None
      ELSE [phase |-> Decision(visits[v].phase),
            token |-> visits[v].token, email |-> visits[v].email]]

ImplementsOneTimeLinks == OneTime!OneTimeLinksSpec

\* A link that is gone when it is opened, used or replaced, signs nobody in,
\* whatever other sends and visits of the address still do: one link signs in
\* twice only if both visits arrived before its row was deleted.
GoneLinksAreRejected ==
  \A v \in Visit : visits[v] # None /\ visits[v].late =>
    visits[v].phase \in {"select", "rejected"}

-----------------------------------------------------------------------------
(* The inductive invariant.                                                *)

\* A row is the one its send made, of a send past its first INSERT.
RowsOfSends ==
  \A e \in Email : links[e] # None =>
    LET s == links[e].token IN
    /\ sends[s] # None
    /\ sends[s].email = e
    /\ sends[s].phase # "store"
    /\ sends[s].expiresAt = links[e].expiresAt

\* A mail leaves after the last INSERT of its token, and only mailed links are
\* opened: no visit's token is stored again.
VisitsAfterMail ==
  /\ \A s \in Send : sends[s] # None /\ sends[s].mailed => sends[s].phase = "answered"
  /\ \A v \in Visit : visits[v] # None =>
       sends[visits[v].token] # None /\ sends[visits[v].token].mailed

\* An accepted visit has the address its link was made for.
AcceptedVisits ==
  \A v \in Visit : visits[v] # None /\ visits[v].phase \in {"check", "delete", "answered"} =>
    /\ visits[v].found # None
    /\ visits[v].found.token = visits[v].token
    /\ visits[v].email = sends[visits[v].token].email

LateVisits ==
  \A v \in Visit : visits[v] # None /\ visits[v].late => ~Stored(visits[v].token)

LinksInv ==
  /\ LinksTypeOK
  /\ RowsOfSends
  /\ VisitsAfterMail
  /\ AcceptedVisits
  /\ LateVisits
  /\ GoneLinksAreRejected
=============================================================================
