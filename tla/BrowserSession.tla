--------------------------- MODULE BrowserSession ---------------------------
(***************************************************************************)
(* Who is signed in to the marketing site in one browser: the store of     *)
(* marketing-site/src/lib/stores/auth.ts, and the answers that set the     *)
(* cookie it starts from.  A session is kept twice, in localStorage for    *)
(* ever and in the cookie for a week; every tab has a copy of its own,     *)
(* read when the tab is loaded and changed by nobody else.  The tabs run   *)
(* in parallel, and requests are answered late or never: each access to    *)
(* localStorage and to the cookie is a step.                               *)
(*                                                                         *)
(* A session is named by the sign-in it came from.  Both copies are JSON   *)
(* written by this code, so the branches for broken JSON are left out.     *)
(***************************************************************************)
CONSTANTS
  Tab,
  LoginForm,  \* POST /api/auth/login
  Google,     \* GET /api/auth/google and its callback
  EmailLink,  \* the page /auth/verify, with a sign-in link
  Change,     \* POST /api/auth/set-password
  None        \* no value

SignIn == LoginForm \cup Google \cup EmailLink

\* found is what the store's start has read and not yet copied; user, what the
\* page shows.
TabState ==
  [phase : {"cookie", "sync", "shown", "leaving"},
   found : SignIn \cup {None}, user : SignIn \cup {None}]

ChangeState ==
  [phase : {"new", "sent", "answered"}, carried : SignIn \cup {None}]

ASSUME BrowserSessionAssumption == None \notin SignIn

VARIABLES
  local,    \* localStorage auth_user
  cookie,   \* the cookie auth
  tabs, signIns, changes,
  orderly   \* history: no sign-in was answered while there was a session

vars == <<local, cookie, tabs, signIns, changes, orderly>>

TypeOK ==
  /\ local \in SignIn \cup {None}
  /\ cookie \in SignIn \cup {None}
  /\ tabs \in [Tab -> TabState]
  /\ signIns \in [SignIn -> {"new", "sent", "answered", "failed"}]
  /\ changes \in [Change -> ChangeState]
  /\ orderly \in BOOLEAN

Shows(user) == [phase |-> "shown", found |-> None, user |-> user]

Init ==
  /\ local = None
  /\ cookie = None
  /\ tabs = [t \in Tab |-> Shows(None)]
  /\ signIns = [r \in SignIn |-> "new"]
  /\ changes = [c \in Change |-> [phase |-> "new", carried |-> None]]
  /\ orderly = TRUE

\* What a tab loaded from now on can come to show: the stored copies, and those
\* about to be stored again.
Held(s) ==
  \/ s \in {local, cookie}
  \/ \E t \in Tab : tabs[t].found = s
  \/ \E c \in Change : changes[c].phase = "sent" /\ changes[c].carried = s

Sessions == {s \in SignIn : Held(s)}
SignedOut == Sessions = {}

-----------------------------------------------------------------------------
(* A tab: the start of the store, and its logout                           *)

\* Variant: a tab that is loaded again first saves the user it shows.
SaveAndLoad(t) ==
  /\ local' = IF local = None THEN tabs[t].user ELSE local
  /\ tabs' = [tabs EXCEPT ![t] =
                IF local = None THEN [Shows(None) EXCEPT !.phase = "cookie"]
                                ELSE Shows(local)]
  /\ UNCHANGED <<cookie, signIns, changes, orderly>>

\* What localStorage has is not compared with the cookie.  A tab can be loaded
\* at any time, also half-way through an earlier load.
Load(t) ==
  /\ tabs' = [tabs EXCEPT ![t] =
                IF local = None THEN [Shows(None) EXCEPT !.phase = "cookie"]
                                ELSE Shows(local)]
  /\ UNCHANGED <<local, cookie, signIns, changes, orderly>>

ReadCookie(t) ==
  /\ tabs[t].phase = "cookie"
  /\ tabs' = [tabs EXCEPT ![t] =
                IF cookie = None THEN Shows(None)
                ELSE [phase |-> "sync", found |-> cookie, user |-> None]]
  /\ UNCHANGED <<local, cookie, signIns, changes, orderly>>

SyncLocal(t) ==
  /\ tabs[t].phase = "sync"
  /\ local' = tabs[t].found
  /\ tabs' = [tabs EXCEPT ![t] = Shows(tabs[t].found)]
  /\ UNCHANGED <<cookie, signIns, changes, orderly>>

\* Only a page that shows a user has the button.
Logout(t) ==
  /\ tabs[t].phase = "shown"
  /\ tabs[t].user # None
  /\ local' = None
  /\ tabs' = [tabs EXCEPT ![t].phase = "leaving"]
  /\ UNCHANGED <<cookie, signIns, changes, orderly>>

DropCookie(t) ==
  /\ tabs[t].phase = "leaving"
  /\ cookie' = None
  /\ tabs' = [tabs EXCEPT ![t] = Shows(None)]
  /\ UNCHANGED <<local, signIns, changes, orderly>>

-----------------------------------------------------------------------------
(* Sign-ins                                                                *)

Send(r) ==
  /\ signIns[r] = "new"
  /\ signIns' = [signIns EXCEPT ![r] = "sent"]
  /\ UNCHANGED <<local, cookie, tabs, changes, orderly>>

Answer(r) ==
  /\ signIns[r] = "sent"
  /\ signIns' = [signIns EXCEPT ![r] = "answered"]
  /\ orderly' = (orderly /\ SignedOut)
  /\ UNCHANGED changes

\* The form's page goes on to the dashboard as it is: localStorage and the copy
\* of the tab stay what they were.
AnswerLogin(r) ==
  /\ r \in LoginForm
  /\ Answer(r)
  /\ cookie' = r
  /\ UNCHANGED <<local, tabs>>

\* The page the callback redirects to is loaded afresh, as any tab may be.
AnswerGoogle(r) ==
  /\ r \in Google
  /\ Answer(r)
  /\ cookie' = r
  /\ UNCHANGED <<local, tabs>>

\* The page that opened the link logs the user in, and sets no cookie.
AnswerEmailLink(r) ==
  /\ r \in EmailLink
  /\ Answer(r)
  /\ local' = r
  /\ \E t \in Tab :
       /\ tabs[t].phase = "shown"
       /\ tabs' = [tabs EXCEPT ![t].user = r]
  /\ UNCHANGED cookie

\* Variant: the callback goes on when Google has returned an error.
FailWithCookie(r) ==
  /\ signIns[r] = "sent"
  /\ signIns' = [signIns EXCEPT ![r] = "failed"]
  /\ cookie' = IF r \in Google THEN r ELSE cookie
  /\ UNCHANGED <<local, tabs, changes, orderly>>

\* Refused by the site or by Google, or not answered to the page that asked.
Fail(r) ==
  /\ signIns[r] = "sent"
  /\ signIns' = [signIns EXCEPT ![r] = "failed"]
  /\ UNCHANGED <<local, cookie, tabs, changes, orderly>>

-----------------------------------------------------------------------------
(* The cookie                                                              *)

\* Variant: the session is sent by the page, which takes it from its own copy.
SendChangeOfTab(c) ==
  /\ changes[c].phase = "new"
  /\ \E t \in Tab :
       changes' = [changes EXCEPT ![c] =
                     [phase |-> "sent", carried |-> tabs[t].user]]
  /\ UNCHANGED <<local, cookie, tabs, signIns, orderly>>

\* The request carries the cookie of the moment it is sent.
SendChange(c) ==
  /\ changes[c].phase = "new"
  /\ changes' = [changes EXCEPT ![c] = [phase |-> "sent", carried |-> cookie]]
  /\ UNCHANGED <<local, cookie, tabs, signIns, orderly>>

\* An answer to a request that had a cookie sets that cookie again, whatever has
\* become of it; another answer, or one that is lost, does not.
AnswerChange(c) ==
  /\ changes[c].phase = "sent"
  /\ changes' = [changes EXCEPT ![c].phase = "answered"]
  /\ \/ /\ changes[c].carried # None
        /\ cookie' = changes[c].carried
     \/ UNCHANGED cookie
  /\ UNCHANGED <<local, tabs, signIns, orderly>>

ExpireCookie ==
  /\ cookie # None
  /\ cookie' = None
  /\ UNCHANGED <<local, tabs, signIns, changes, orderly>>

TabStep(t) ==
  Load(t) \/ ReadCookie(t) \/ SyncLocal(t) \/ Logout(t) \/ DropCookie(t)

SignInStep(r) ==
  Send(r) \/ AnswerLogin(r) \/ AnswerGoogle(r) \/ AnswerEmailLink(r) \/ Fail(r)

Next ==
  \/ \E t \in Tab : TabStep(t)
  \/ \E r \in SignIn : SignInStep(r)
  \/ \E c \in Change : SendChange(c) \/ AnswerChange(c)
  \/ ExpireCookie

Spec == Init /\ [][Next]_vars

-----------------------------------------------------------------------------
(* Properties                                                              *)

\* Once no copy of a session is left, stored or about to be stored again,
\* only the answer to a sign-in makes one: not a tab that still shows the user,
\* a logout or a load it was in the middle of, nor a late answer of another kind.
StaysSignedOut ==
  [][SignedOut => \/ SignedOut'
                  \/ \E r \in SignIn : signIns[r] = "sent" /\ signIns'[r] = "answered"]_vars

\* localStorage, the cookie and everything about to be stored are of the same
\* sign-in, provided nobody signed in over a session: a load need not compare
\* its two sources, although logouts, loads and requests overlap.  (After a
\* sign-in over a session the store goes on with the old one.)
OneSession ==
  orderly => \A s, q \in Sessions : s = q

\* Every copy, also one that only a page has, is of a sign-in that succeeded.
SuccessfulSignIns ==
  /\ \A s \in Sessions : signIns[s] = "answered"
  /\ \A t \in Tab : tabs[t].user # None => signIns[tabs[t].user] = "answered"

\* Types, a tab holds a session it has not stored only between its two steps,
\* and all sessions are of sign-ins that succeeded.
IInv ==
  /\ TypeOK
  /\ \A t \in Tab : tabs[t].found # None => tabs[t].phase = "sync"
  /\ SuccessfulSignIns
=============================================================================
