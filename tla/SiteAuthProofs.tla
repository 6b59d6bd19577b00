--------------------------- MODULE SiteAuthProofs ---------------------------
(***************************************************************************)
(* SiteAuth keeps its inductive invariant for any number of addresses and  *)
(* concurrent requests: who is told to sign in has an account, accounts    *)
(* are verified by the owner of the address, late sign-ups leave no trace  *)
(* and used tokens stay gone.                                              *)
(***************************************************************************)
EXTENDS SiteAuth, TLAPS

\* The store is empty and no request has arrived.
LEMMA InitHolds == Init => IInv
<1> SUFFICES ASSUME Init PROVE IInv
  OBVIOUS
<1> USE DEF Init
<1>1. TypeOK
  BY DEF TypeOK
<1>2. TokensOfRequests /\ UsedTokensAreGone
  BY DEF TokensOfRequests, UsedTokensAreGone, At, Token
<1>3. AcceptedAddress /\ VisitProgress /\ AccountAfterVerification
  BY DEF AcceptedAddress, VisitProgress, AccountAfterVerification, At
<1>4. AccountOrPending
  BY DEF AccountOrPending
<1>5. HeldVerification /\ VerifiedByItsOwner
  BY DEF HeldVerification, VerifiedByItsOwner
<1>6. LateIsRefused /\ OriginsAreTimely
  BY DEF LateIsRefused, OriginsAreTimely
<1> QED
  BY <1>1, <1>2, <1>3, <1>4, <1>5, <1>6 DEF IInv

-----------------------------------------------------------------------------
(* Types, handler by handler.                                              *)

LEMMA SignUpTyped ==
  ASSUME TypeOK, NEW s \in SignUp, SignUpNext(s)
  PROVE  TypeOK'
<1> USE SiteAuthAssumption DEF TypeOK, At
<1>1. CASE StartSignUp(s)
  <2> PICK e \in Email, p \in Password :
        signUps' = [signUps EXCEPT ![s] =
                     [phase |-> "check", email |-> e, password |-> p,
                      expiresAt |-> now + SignUpLife, mailed |-> FALSE,
                      late |-> users[e] # None]]
    BY <1>1 DEF StartSignUp
  <2> DEFINE request == [phase |-> "check", email |-> e, password |-> p,
                         expiresAt |-> now + SignUpLife, mailed |-> FALSE,
                         late |-> users[e] # None]
  <2>1. request \in SignUpState
    BY DEF SignUpState
  <2> QED
    BY <1>1, <2>1 DEF StartSignUp
<1>2. CASE CheckUser(s)
  BY <1>2 DEF CheckUser, SignUpState
<1>3. CASE PutToken(s)
  BY <1>3 DEF PutToken, SignUpState, TokenData, Token
<1>4. CASE PutPendingUser(s)
  BY <1>4 DEF PutPendingUser, SignUpState, PendingUser, User, NewUser
<1>5. CASE SendMail(s)
  <2>1. [signUps[s] EXCEPT !.phase = "mailed", !.mailed = TRUE] \in SignUpState
    BY <1>5 DEF SendMail, SignUpState
  <2> QED
    BY <1>5, <2>1 DEF SendMail
<1>6. CASE SendMailFails(s)
  <2>1. \/ signUps' = [signUps EXCEPT ![s].phase = "create", ![s].mailed = TRUE]
        \/ signUps' = [signUps EXCEPT ![s].phase = "create", ![s].mailed = FALSE]
    BY <1>6, Zenon DEF SendMailFails
  <2>2. /\ [signUps[s] EXCEPT !.phase = "create", !.mailed = TRUE] \in SignUpState
        /\ [signUps[s] EXCEPT !.phase = "create", !.mailed = FALSE] \in SignUpState
    BY <1>6 DEF SendMailFails, SignUpState
  <2> QED
    BY <1>6, <2>1, <2>2 DEF SendMailFails
<1>7. CASE CreateUser(s)
  BY <1>7 DEF CreateUser, SignUpState, User, NewUser
<1> QED
  BY <1>1, <1>2, <1>3, <1>4, <1>5, <1>6, <1>7 DEF SignUpNext

LEMMA LinkTyped ==
  ASSUME TypeOK, NEW l \in Link, LinkNext(l)
  PROVE  TypeOK'
<1> USE SiteAuthAssumption DEF TypeOK, At
<1>1. CASE StartLink(l)
  BY <1>1 DEF StartLink, LinkState
<1>2. CASE PutLink(l)
  BY <1>2 DEF PutLink, LinkState, TokenData, Token
<1>3. CASE MailLink(l)
  <2>1. [links[l] EXCEPT !.phase = "answered", !.mailed = TRUE] \in LinkState
    BY <1>3 DEF MailLink, LinkState
  <2> QED
    BY <1>3, <2>1 DEF MailLink
<1> QED
  BY <1>1, <1>2, <1>3 DEF LinkNext

LEMMA VisitTyped ==
  ASSUME IInv, NEW v \in Visit, VisitNext(v)
  PROVE  TypeOK'
<1> USE SiteAuthAssumption DEF IInv, TypeOK, At
<1>1. CASE OpenLink(v)
  BY <1>1 DEF OpenLink, VisitState
<1>2. CASE AcceptToken(v)
  BY <1>2 DEF AcceptToken, VisitState
<1>3. CASE RejectToken(v)
  BY <1>3 DEF RejectToken, VisitState
<1>4. CASE DropExpired(v)
  BY <1>4 DEF DropExpired, VisitState
<1>5. CASE GetPendingUser(v)
  <2>1. CASE pendingUsers[visits[v].email] = None
    BY <1>5, <2>1 DEF GetPendingUser, VisitState
  <2>2. CASE pendingUsers[visits[v].email] # None
    <3> DEFINE user == pendingUsers[visits[v].email].user
    <3>1. visits[v] \in VisitState /\ user \in User
      BY <1>5, <2>2 DEF GetPendingUser, PendingUser, VisitState
    <3>2. [visits[v] EXCEPT !.phase = "activate", !.found = user] \in VisitState
      BY <3>1 DEF VisitState
    <3>3. visits' = [visits EXCEPT ![v].phase = "activate", ![v].found = user]
      BY <1>5, <2>2 DEF GetPendingUser
    <3> HIDE DEF user
    <3>4. visits' \in [Visit -> VisitState \cup {None}]
      BY <3>2, <3>3
    <3> QED
      BY <1>5, <3>4 DEF GetPendingUser
  <2> QED
    BY <2>1, <2>2
<1>6. CASE ActivateUser(v)
  <2>1. visits[v] \in VisitState /\ visits[v].found \in User
    BY <1>6 DEF ActivateUser, VisitState, VisitProgress
  <2>2. [visits[v].found EXCEPT !.verified = TRUE] \in User
    BY <2>1 DEF User
  <2>3. [visits[v] EXCEPT !.phase = "clear"] \in VisitState
    BY <2>1 DEF VisitState
  <2> QED
    BY <1>6, <2>2, <2>3 DEF ActivateUser
<1>7. CASE DropPendingUser(v)
  BY <1>7 DEF DropPendingUser, VisitState
<1>8. CASE DropToken(v)
  BY <1>8 DEF DropToken, VisitState
<1> QED
  BY <1>1, <1>2, <1>3, <1>4, <1>5, <1>6, <1>7, <1>8 DEF VisitNext

LEMMA ChangeTyped ==
  ASSUME TypeOK, NEW c \in Change, ChangeNext(c)
  PROVE  TypeOK'
<1> USE SiteAuthAssumption DEF TypeOK, At
<1>1. CASE StartChange(c)
  BY <1>1 DEF StartChange, ChangeState
<1>2. CASE ReadUser(c)
  <2> DEFINE user == users[changes[c].email]
  <2>1. changes[c] \in ChangeState /\ user \in User \cup {None}
    BY <1>2 DEF ReadUser, ChangeState
  <2>2. /\ [changes[c] EXCEPT !.phase = "refused"] \in ChangeState
        /\ [changes[c] EXCEPT !.phase = "write", !.found = user] \in ChangeState
    BY <2>1 DEF ChangeState
  <2>3. \/ changes' = [changes EXCEPT ![c].phase = "refused"]
        \/ changes' = [changes EXCEPT ![c].phase = "write", ![c].found = user]
    BY <1>2 DEF ReadUser
  <2> QED
    BY <1>2, <2>2, <2>3 DEF ReadUser
<1>3. CASE WriteUser(c)
  BY <1>3 DEF WriteUser, ChangeState, User
<1> QED
  BY <1>1, <1>2, <1>3 DEF ChangeNext

-----------------------------------------------------------------------------
(* What no step undoes.                                                    *)

\* Accounts never vanish, requests keep their contents and only advance.
Advances ==
  /\ now' >= now
  /\ \A e \in Email : users[e] # None => users'[e] # None
  /\ \A s \in SignUp : signUps[s] # None =>
       /\ signUps'[s] # None
       /\ signUps'[s].email = signUps[s].email
       /\ signUps'[s].expiresAt = signUps[s].expiresAt
       /\ signUps'[s].late = signUps[s].late
       /\ signUps[s].mailed => signUps'[s].mailed
       /\ signUps[s].phase \in Stored => signUps'[s].phase \in Stored
       /\ signUps[s].phase = "created" => signUps'[s].phase = "created"
       /\ signUps[s].phase \notin {"check", "refused"} =>
            signUps'[s].phase \notin {"check", "refused"}
  /\ \A l \in Link : links[l] # None =>
       links'[l] # None /\ (links[l].mailed => links'[l].mailed)
  /\ \A v \in Visit : visits[v] # None =>
       /\ visits'[v] # None
       /\ visits'[v].token = visits[v].token
       /\ visits'[v].email = visits[v].email
       /\ visits[v].phase \in {"clear", "drop", "answered"} =>
            visits'[v].phase \in {"clear", "drop", "answered"}

\* The records requests write are records.
LEMMA RecordsAreUsers ==
  ASSUME TypeOK
  PROVE  /\ \A s \in SignUp : signUps[s] # None =>
              NewUser(s, TRUE) # None /\ NewUser(s, FALSE) # None
         /\ \A c \in Change : changes[c] # None =>
              /\ [origin |-> c, password |-> changes[c].new, verified |-> FALSE] # None
              /\ changes[c].found # None =>
                   [changes[c].found EXCEPT !.password = changes[c].new] # None
<1>1. ASSUME NEW s \in SignUp, signUps[s] # None
      PROVE  NewUser(s, TRUE) \in User /\ NewUser(s, FALSE) \in User
  <2>1. signUps[s].password \in Password
    BY <1>1 DEF TypeOK, SignUpState
  <2> QED
    BY <2>1 DEF NewUser, User
<1>2. ASSUME NEW c \in Change, changes[c] # None
      PROVE  /\ [origin |-> c, password |-> changes[c].new, verified |-> FALSE] \in User
             /\ changes[c].found # None =>
                  [changes[c].found EXCEPT !.password = changes[c].new] \in User
  <2>1. changes[c].new \in Password /\ changes[c].found \in User \cup {None}
    BY <1>2 DEF TypeOK, ChangeState
  <2> QED
    BY <2>1 DEF User
<1> QED
  BY <1>1, <1>2, SiteAuthAssumption

LEMMA SignUpAdvances ==
  ASSUME IInv, NEW s \in SignUp, SignUpNext(s)
  PROVE  Advances
<1> USE SiteAuthAssumption DEF IInv, TypeOK, At, Advances
<1>1. CASE StartSignUp(s)
  BY <1>1 DEF StartSignUp
<1>2. CASE CheckUser(s)
  BY <1>2 DEF CheckUser, SignUpState, Stored
<1>3. CASE PutToken(s)
  BY <1>3 DEF PutToken, SignUpState, Stored
<1>4. CASE PutPendingUser(s)
  BY <1>4 DEF PutPendingUser, SignUpState, Stored
<1>5. CASE SendMail(s)
  <2>1. ~ signUps[s].mailed
    BY <1>5 DEF SendMail, TokensOfRequests, Stored
  <2> QED
    BY <1>5, <2>1 DEF SendMail, SignUpState, Stored
<1>6. CASE SendMailFails(s)
  <2>1. \/ signUps' = [signUps EXCEPT ![s].phase = "create", ![s].mailed = TRUE]
        \/ signUps' = [signUps EXCEPT ![s].phase = "create", ![s].mailed = FALSE]
    BY <1>6, Zenon DEF SendMailFails
  <2>2. ~ signUps[s].mailed
    BY <1>6 DEF SendMailFails, TokensOfRequests, Stored
  <2> QED
    BY <1>6, <2>1, <2>2 DEF SendMailFails, SignUpState, Stored
<1>7. CASE CreateUser(s)
  <2>1. NewUser(s, TRUE) # None
    BY <1>7, RecordsAreUsers DEF CreateUser
  <2>2. \A e \in Email : users[e] # None => users'[e] # None
    BY <1>7, <2>1 DEF CreateUser
  <2>3. /\ signUps' = [signUps EXCEPT ![s].phase = "created"]
        /\ signUps[s] \in SignUpState /\ signUps[s].phase = "create"
        /\ UNCHANGED <<now, links, visits>>
    BY <1>7 DEF CreateUser
  <2> QED
    BY <2>2, <2>3 DEF SignUpState, Stored
<1> QED
  BY <1>1, <1>2, <1>3, <1>4, <1>5, <1>6, <1>7 DEF SignUpNext

LEMMA LinkAdvances ==
  ASSUME IInv, NEW l \in Link, LinkNext(l)
  PROVE  Advances
<1> USE SiteAuthAssumption DEF IInv, TypeOK, At, Advances
<1>1. CASE StartLink(l)
  BY <1>1 DEF StartLink
<1>2. CASE PutLink(l)
  BY <1>2 DEF PutLink, LinkState
<1>3. CASE MailLink(l)
  <2>1. ~ links[l].mailed
    BY <1>3 DEF MailLink, TokensOfRequests
  <2> QED
    BY <1>3, <2>1 DEF MailLink, LinkState
<1> QED
  BY <1>1, <1>2, <1>3 DEF LinkNext

LEMMA VisitAdvances ==
  ASSUME IInv, NEW v \in Visit, VisitNext(v)
  PROVE  Advances
<1> USE SiteAuthAssumption DEF IInv, TypeOK, At, Advances
<1>1. CASE OpenLink(v)
  BY <1>1 DEF OpenLink
<1>2. CASE AcceptToken(v)
  BY <1>2 DEF AcceptToken, VisitState
<1>3. CASE RejectToken(v)
  BY <1>3 DEF RejectToken, VisitState
<1>4. CASE DropExpired(v)
  BY <1>4 DEF DropExpired, VisitState
<1>5. CASE GetPendingUser(v)
  BY <1>5 DEF GetPendingUser, VisitState
<1>6. CASE ActivateUser(v)
  <2>1. [visits[v].found EXCEPT !.verified = TRUE] # None
    BY <1>6 DEF ActivateUser, VisitState, VisitProgress, User
  <2> QED
    BY <1>6, <2>1 DEF ActivateUser, VisitState
<1>7. CASE DropPendingUser(v)
  BY <1>7 DEF DropPendingUser, VisitState
<1>8. CASE DropToken(v)
  BY <1>8 DEF DropToken, VisitState
<1> QED
  BY <1>1, <1>2, <1>3, <1>4, <1>5, <1>6, <1>7, <1>8 DEF VisitNext

LEMMA ChangeAdvances ==
  ASSUME TypeOK, NEW c \in Change, ChangeNext(c)
  PROVE  Advances
<1> USE SiteAuthAssumption DEF TypeOK, At, Advances
<1>1. CASE StartChange(c) \/ ReadUser(c)
  BY <1>1 DEF StartChange, ReadUser
<1>2. CASE WriteUser(c)
  <2> DEFINE written == IF changes[c].found = None
                          THEN [origin |-> c, password |-> changes[c].new,
                                verified |-> FALSE]
                          ELSE [changes[c].found EXCEPT !.password = changes[c].new]
  <2>1. written # None
    BY <1>2, RecordsAreUsers DEF WriteUser
  <2>2. users' = [users EXCEPT ![changes[c].email] = written]
    BY <1>2 DEF WriteUser
  <2> HIDE DEF written
  <2>3. \A e \in Email : users[e] # None => users'[e] # None
    BY <2>1, <2>2
  <2> QED
    BY <1>2, <2>3 DEF WriteUser
<1> QED
  BY <1>1, <1>2 DEF ChangeNext

LEMMA TimeAdvances ==
  ASSUME TypeOK, Tick \/ Expire
  PROVE  TypeOK' /\ Advances
<1> USE SiteAuthAssumption DEF TypeOK, Advances
<1>1. CASE Tick
  BY <1>1 DEF Tick
<1>2. CASE Expire
  BY <1>2 DEF Expire
<1> QED
  BY <1>1, <1>2

\* What is known of an address, a record or a token stays so.
LEMMA KnowledgeStays ==
  ASSUME Advances
  PROVE  /\ \A e \in Email : Proven(e) => Proven(e)'
         /\ \A o : Timely(o) => Timely(o)'
         /\ \A t \in Token : Mailed(t) => Mailed(t)'
BY DEF Advances, Proven, Verified, Timely, Mailed, Stored, Token

\* What a step keeps that leaves a part of the state alone.
LEMMA Undisturbed ==
  ASSUME IInv, TypeOK', Advances
  PROVE  /\ UNCHANGED visits =>
              AcceptedAddress' /\ VisitProgress' /\ AccountAfterVerification'
         /\ UNCHANGED changes => HeldVerification'
         /\ UNCHANGED users => VerifiedByItsOwner'
         /\ UNCHANGED <<visits, tokens>> => UsedTokensAreGone'
         /\ UNCHANGED signUps => LateIsRefused'
         /\ UNCHANGED <<users, pendingUsers, visits, changes>> => OriginsAreTimely'
         /\ UNCHANGED <<signUps, pendingUsers>> => AccountOrPending'
         /\ UNCHANGED <<signUps, links, tokens, visits>> => TokensOfRequests'
<1> USE DEF IInv
<1>0. now \in Nat /\ now' \in Nat /\ now' >= now
  BY DEF TypeOK, Advances
<1>1. ASSUME NEW v \in Visit, NEW s \in SignUp, visits[v] # None, visits[v].token = s
      PROVE  signUps[s] # None
  BY <1>1, SiteAuthAssumption DEF TokensOfRequests, Mailed
<1>2. ASSUME UNCHANGED visits
      PROVE  AcceptedAddress' /\ VisitProgress' /\ AccountAfterVerification'
  <2>1. /\ \A v \in Visit : visits[v] # None =>
               visits[v].email \in Email /\ visits[v].token \in Token
        /\ \A s \in SignUp : signUps[s] # None => signUps[s].expiresAt \in Nat
    BY DEF TypeOK, VisitState, SignUpState
  <2>2. AcceptedAddress'
    BY <1>1, <1>2 DEF Advances, AcceptedAddress
  <2>3. VisitProgress'
    BY <1>0, <1>1, <1>2, <2>1 DEF Advances, VisitProgress
  <2>4. AccountAfterVerification'
    BY <1>0, <1>1, <1>2, <2>1 DEF Advances, AccountAfterVerification, At
  <2> QED
    BY <2>2, <2>3, <2>4
<1>3. ASSUME UNCHANGED changes PROVE HeldVerification'
  <2>1. \A c \in Change : changes[c] # None => changes[c].email \in Email
    BY DEF TypeOK, ChangeState
  <2> QED
    BY <1>3, <2>1, KnowledgeStays DEF HeldVerification
<1>4. ASSUME UNCHANGED users PROVE VerifiedByItsOwner'
  BY <1>4, KnowledgeStays DEF VerifiedByItsOwner
<1>5. ASSUME UNCHANGED <<visits, tokens>> PROVE UsedTokensAreGone'
  BY <1>5 DEF UsedTokensAreGone, At
<1>6. ASSUME UNCHANGED signUps PROVE LateIsRefused'
  <2>1. \A s \in SignUp : signUps[s] # None => signUps[s].email \in Email
    BY DEF TypeOK, SignUpState
  <2> QED
    BY <1>6, <2>1 DEF Advances, LateIsRefused
<1>7. ASSUME UNCHANGED <<users, pendingUsers, visits, changes>> PROVE OriginsAreTimely'
  BY <1>7, KnowledgeStays DEF OriginsAreTimely
<1>8. ASSUME UNCHANGED <<signUps, pendingUsers>> PROVE AccountOrPending'
  <2>1. \A s \in SignUp : signUps[s] # None =>
          signUps[s].email \in Email /\ signUps[s].expiresAt \in Nat
    BY DEF TypeOK, SignUpState
  <2>2. pendingUsers \in [Email -> PendingUser \cup {None}]
    BY DEF TypeOK
  <2> QED
    BY <1>0, <1>8, <2>1, <2>2 DEF Advances, AccountOrPending
<1>9. ASSUME UNCHANGED <<signUps, links, tokens, visits>> PROVE TokensOfRequests'
  <2>1. \A s \in SignUp : signUps[s] # None => signUps[s].expiresAt \in Nat
    BY DEF TypeOK, SignUpState
  <2>2. \A s \in SignUp : signUps[s] # None =>
          signUps[s].expiresAt <= now' + SignUpLife
    BY <1>0, <2>1, SiteAuthAssumption DEF TokensOfRequests
  <2> QED
    BY <1>9, <2>2 DEF TokensOfRequests, Mailed
<1> QED
  BY <1>2, <1>3, <1>4, <1>5, <1>6, <1>7, <1>8, <1>9

-----------------------------------------------------------------------------
(* The inductive invariant, handler by handler.                            *)

\* A sign-up past its check keeps the token's promises if it stores at most the
\* token it generated.
LEMMA SignUpKeepsTokens ==
  ASSUME IInv, TypeOK', Advances, UNCHANGED <<now, links, visits>>,
         NEW s \in SignUp, signUps[s] # None,
         \A r \in SignUp : r # s => signUps'[r] = signUps[r] /\ tokens'[r] = tokens[r],
         signUps'[s].phase \in Stored \cup {"pending"},
         signUps'[s].mailed => signUps'[s].phase \in Stored \ {"mail"},
         tokens'[s] # None =>
           /\ tokens'[s].email = signUps[s].email
           /\ tokens'[s].expiresAt = signUps[s].expiresAt
  PROVE  TokensOfRequests'
<1>1. /\ signUps'[s] # None
      /\ signUps'[s].email = signUps[s].email
      /\ signUps'[s].expiresAt = signUps[s].expiresAt
  BY DEF Advances
<1>2. \A r \in SignUp : tokens'[r] # None =>
        /\ signUps'[r] # None
        /\ signUps'[r].phase \in Stored \cup {"pending"}
        /\ tokens'[r].email = signUps'[r].email
        /\ tokens'[r].expiresAt = signUps'[r].expiresAt
  BY <1>1 DEF IInv, TokensOfRequests
<1>3. \A r \in SignUp : signUps'[r] # None =>
        /\ signUps'[r].expiresAt <= now' + SignUpLife
        /\ signUps'[r].mailed => signUps'[r].phase \in Stored \ {"mail"}
  BY <1>1 DEF IInv, TokensOfRequests
<1>4. \A v \in Visit : visits[v] # None => Mailed(visits[v].token)'
  <2>1. \A v \in Visit : visits[v] # None => visits[v].token \in Token
    BY DEF IInv, TypeOK, VisitState
  <2> QED
    BY <2>1, KnowledgeStays DEF IInv, TokensOfRequests
<1>5. \A l \in Link : links'[l] # None /\ links'[l].mailed => links'[l].phase = "answered"
  BY DEF IInv, TokensOfRequests
<1> QED
  BY <1>2, <1>3, <1>4, <1>5 DEF TokensOfRequests

\* A sign-up stores its token before the mail leaves and a pending user that
\* outlives every earlier token of the address.
LEMMA SignUpKeepsIInv ==
  ASSUME IInv, NEW s \in SignUp, SignUpNext(s)
  PROVE  IInv'
<1>1. TypeOK' /\ Advances
  BY SignUpTyped, SignUpAdvances DEF IInv
<1>2. UNCHANGED <<now, links, visits, changes>>
  BY DEF SignUpNext, StartSignUp, CheckUser, PutToken, PutPendingUser, SendMail,
         SendMailFails, CreateUser
<1>3. \A r \in SignUp : r # s => signUps'[r] = signUps[r]
  BY DEF SignUpNext, StartSignUp, CheckUser, PutToken, PutPendingUser, SendMail,
         SendMailFails, CreateUser, IInv, TypeOK
<1>4. AcceptedAddress' /\ VisitProgress' /\ AccountAfterVerification' /\ HeldVerification'
  BY <1>1, <1>2, Undisturbed
<1>5. CASE StartSignUp(s)
  <2> PICK e \in Email, p \in Password :
        signUps' = [signUps EXCEPT ![s] =
                     [phase |-> "check", email |-> e, password |-> p,
                      expiresAt |-> now + SignUpLife, mailed |-> FALSE,
                      late |-> users[e] # None]]
    BY <1>5 DEF StartSignUp
  <2>1. /\ signUps[s] = None
        /\ UNCHANGED <<users, pendingUsers, tokens>>
    BY <1>5 DEF StartSignUp
  <2>2. /\ signUps'[s].phase = "check"
        /\ signUps'[s].email = e
        /\ signUps'[s].expiresAt = now + SignUpLife
        /\ signUps'[s].mailed = FALSE
        /\ signUps'[s].late = (users[e] # None)
    BY DEF IInv, TypeOK
  <2>3. TokensOfRequests'
    <3>1. \A t \in Token : Mailed(t) => Mailed(t)'
      BY <1>1, KnowledgeStays
    <3> QED
      BY <1>2, <1>3, <2>1, <2>2, <3>1, SiteAuthAssumption
      DEF IInv, TypeOK, TokensOfRequests, VisitState
  <2>4. AccountOrPending'
    BY <1>2, <1>3, <2>1, <2>2 DEF IInv, AccountOrPending, Stored
  <2>5. LateIsRefused'
    BY <1>3, <2>1, <2>2 DEF IInv, LateIsRefused
  <2> QED
    BY <1>1, <1>2, <1>4, <2>1, <2>3, <2>4, <2>5, Undisturbed DEF IInv
<1>6. CASE ~ StartSignUp(s)
  <2>1. signUps[s] # None /\ signUps[s] \in SignUpState
    BY <1>6 DEF SignUpNext, CheckUser, PutToken, PutPendingUser, SendMail,
                SendMailFails, CreateUser, At, IInv, TypeOK
  <2>2. /\ signUps'[s].email = signUps[s].email
        /\ signUps'[s].expiresAt = signUps[s].expiresAt
        /\ signUps'[s].late = signUps[s].late
        /\ signUps[s].email \in Email
        /\ signUps[s].expiresAt \in Nat
    BY <1>1, <2>1 DEF Advances, SignUpState
  <2>3. CASE CheckUser(s)
    <3>1. signUps'[s].phase = IF users[signUps[s].email] # None
                                THEN "refused" ELSE "token"
      BY <2>1, <2>3 DEF CheckUser, SignUpState, IInv, TypeOK
    <3>2. signUps'[s].mailed = signUps[s].mailed /\ signUps[s].phase = "check"
      BY <2>1, <2>3 DEF CheckUser, SignUpState, IInv, TypeOK, At
    <3>3. UNCHANGED <<users, pendingUsers, tokens>>
      BY <2>3 DEF CheckUser
    <3>4. TokensOfRequests'
      <4>1. \A t \in Token : Mailed(t) => Mailed(t)'
        BY <1>1, KnowledgeStays
      <4> QED
        BY <1>2, <1>3, <2>1, <2>2, <3>1, <3>2, <3>3, <4>1
        DEF IInv, TypeOK, TokensOfRequests, VisitState, Stored
    <3>5. AccountOrPending'
      BY <1>2, <1>3, <3>1, <3>3 DEF IInv, AccountOrPending, Stored
    <3>6. LateIsRefused'
      BY <1>3, <2>1, <2>2, <3>1, <3>2, <3>3 DEF IInv, LateIsRefused
    <3> QED
      BY <1>1, <1>2, <1>4, <3>3, <3>4, <3>5, <3>6, Undisturbed DEF IInv
  <2>4. CASE ~ CheckUser(s)
    <3>1. signUps[s].phase \notin {"check", "refused"}
      BY <1>6, <2>4 DEF SignUpNext, PutToken, PutPendingUser, SendMail,
                        SendMailFails, CreateUser, At
    <3>2. LateIsRefused'
      <4>1. ~ signUps[s].late
        BY <2>1, <3>1 DEF IInv, LateIsRefused
      <4> QED
        BY <1>1, <1>3, <2>2, <4>1 DEF IInv, LateIsRefused, Advances, TypeOK, SignUpState
    <3>3. \A t \in Token : Mailed(t) => Mailed(t)'
      BY <1>1, KnowledgeStays
    <3>4. CASE PutToken(s)
      <4>1. /\ signUps[s].phase = "token"
            /\ signUps'[s].phase = "pending"
            /\ signUps'[s].mailed = signUps[s].mailed
            /\ tokens' = [tokens EXCEPT ![s] =
                            [email |-> signUps[s].email,
                             expiresAt |-> signUps[s].expiresAt,
                             until |-> now + SignUpLife]]
            /\ UNCHANGED <<users, pendingUsers>>
        BY <2>1, <3>4 DEF PutToken, At, SignUpState, IInv, TypeOK
      <4>2. TokensOfRequests'
        <5>1. /\ \A t \in Token \ {s} : tokens'[t] = tokens[t]
              /\ tokens'[s].email = signUps[s].email
              /\ tokens'[s].expiresAt = signUps[s].expiresAt
          BY <4>1 DEF IInv, TypeOK, Token
        <5>2. ~ signUps[s].mailed
          BY <2>1, <4>1 DEF IInv, TokensOfRequests, Stored
        <5> QED
          BY <1>1, <1>2, <1>3, <2>1, <4>1, <5>1, <5>2, SignUpKeepsTokens DEF Token
      <4>3. UsedTokensAreGone'
        <5>1. ~ Mailed(s)
          BY <2>1, <4>1, SiteAuthAssumption DEF IInv, TokensOfRequests, Stored, Mailed
        <5>2. \A v \in Visit : visits[v] # None => visits[v].token # s
          BY <5>1 DEF IInv, TokensOfRequests
        <5>3. \A t \in Token \ {s} : tokens'[t] = tokens[t]
          BY <4>1
        <5>4. \A v \in Visit : visits[v] # None => visits[v].token \in Token
          BY DEF IInv, TypeOK, VisitState
        <5> QED
          BY <1>2, <5>2, <5>3, <5>4 DEF IInv, UsedTokensAreGone, At
      <4>4. AccountOrPending'
        BY <1>2, <1>3, <4>1 DEF IInv, AccountOrPending, Stored
      <4> QED
        BY <1>1, <1>2, <1>4, <3>2, <4>1, <4>2, <4>3, <4>4, Undisturbed DEF IInv
    <3>5. CASE PutPendingUser(s)
      <4>1. /\ signUps[s].phase = "pending"
            /\ signUps'[s].phase = "mail"
            /\ signUps'[s].mailed = signUps[s].mailed
            /\ UNCHANGED <<users, tokens>>
        BY <2>1, <3>5 DEF PutPendingUser, At, SignUpState, IInv, TypeOK
      <4>2. LET e == signUps[s].email IN
            /\ pendingUsers'[e] # None
            /\ pendingUsers'[e].until = now + SignUpLife
            /\ pendingUsers'[e].user.origin = s
            /\ \A d \in Email \ {e} : pendingUsers'[d] = pendingUsers[d]
        <5>1. pendingUsers' = [pendingUsers EXCEPT ![signUps[s].email] =
                                [user |-> NewUser(s, FALSE), until |-> now + SignUpLife]]
          BY <3>5 DEF PutPendingUser
        <5>2. [user |-> NewUser(s, FALSE), until |-> now + SignUpLife] # None
          <6>1. NewUser(s, FALSE) \in User
            BY <2>1 DEF NewUser, User, SignUpState
          <6>2. now + SignUpLife \in Nat
            BY SiteAuthAssumption DEF IInv, TypeOK
          <6>3. [user |-> NewUser(s, FALSE), until |-> now + SignUpLife] \in PendingUser
            BY <6>1, <6>2 DEF PendingUser
          <6> QED
            BY <6>3, SiteAuthAssumption
        <5> QED
          BY <2>2, <5>1, <5>2 DEF IInv, TypeOK, NewUser
      <4>3. TokensOfRequests'
        <5>1. ~ signUps[s].mailed
          BY <2>1, <4>1 DEF IInv, TokensOfRequests, Stored
        <5>2. tokens[s] # None =>
                /\ tokens[s].email = signUps[s].email
                /\ tokens[s].expiresAt = signUps[s].expiresAt
          BY DEF IInv, TokensOfRequests
        <5> QED
          BY <1>1, <1>2, <1>3, <2>1, <4>1, <5>1, <5>2, SignUpKeepsTokens DEF Stored
      <4>4. AccountOrPending'
        <5>1. \A r \in SignUp : signUps[r] # None =>
                /\ signUps[r].email \in Email
                /\ signUps[r].expiresAt <= now + SignUpLife
          BY DEF IInv, TypeOK, SignUpState, TokensOfRequests
        <5> QED
          BY <1>2, <1>3, <2>1, <2>2, <4>1, <4>2, <5>1 DEF IInv, AccountOrPending
      <4>5. OriginsAreTimely'
        <5>1. Timely(s)'
          BY <1>1, <2>1, <4>1 DEF Timely, Advances
        <5> QED
          BY <1>1, <1>2, <2>2, <4>1, <4>2, <5>1, KnowledgeStays DEF IInv, OriginsAreTimely
      <4> QED
        BY <1>1, <1>2, <1>4, <3>2, <4>1, <4>3, <4>4, <4>5, Undisturbed DEF IInv
    <3>6. CASE SendMail(s) \/ SendMailFails(s)
      <4>1. /\ signUps[s].phase = "mail"
            /\ signUps'[s].phase \in {"mailed", "create"}
            /\ UNCHANGED <<users, pendingUsers, tokens>>
        BY <2>1, <3>6 DEF SendMail, SendMailFails, At, SignUpState, IInv, TypeOK
      <4>2. TokensOfRequests'
        <5>1. tokens[s] # None =>
                /\ tokens[s].email = signUps[s].email
                /\ tokens[s].expiresAt = signUps[s].expiresAt
          BY DEF IInv, TokensOfRequests
        <5> QED
          BY <1>1, <1>2, <1>3, <2>1, <4>1, <5>1, SignUpKeepsTokens DEF Stored
      <4>3. AccountOrPending'
        BY <1>2, <1>3, <2>1, <2>2, <4>1 DEF IInv, AccountOrPending, Stored
      <4> QED
        BY <1>1, <1>2, <1>4, <3>2, <4>1, <4>2, <4>3, Undisturbed DEF IInv
    <3>7. CASE CreateUser(s)
      <4>1. /\ signUps[s].phase = "create"
            /\ signUps'[s].phase = "created"
            /\ signUps'[s].mailed = signUps[s].mailed
            /\ users' = [users EXCEPT ![signUps[s].email] = NewUser(s, TRUE)]
            /\ UNCHANGED <<pendingUsers, tokens>>
        BY <2>1, <3>7 DEF CreateUser, At, SignUpState, IInv, TypeOK
      <4>2. TokensOfRequests'
        <5>1. tokens[s] # None =>
                /\ tokens[s].email = signUps[s].email
                /\ tokens[s].expiresAt = signUps[s].expiresAt
          BY DEF IInv, TokensOfRequests
        <5> QED
          BY <1>1, <1>2, <1>3, <2>1, <4>1, <5>1, SignUpKeepsTokens DEF Stored
      <4>3. AccountOrPending'
        <5>1. users'[signUps[s].email] # None
          BY <2>1, <2>2, <4>1, RecordsAreUsers DEF IInv, TypeOK
        <5>2. \A r \in SignUp : signUps[r] # None => signUps[r].email \in Email
          BY DEF IInv, TypeOK, SignUpState
        <5>3. \A r \in SignUp : r # s => signUps'[r] = signUps[r]
          BY <1>3
        <5>4. \A e \in Email : users[e] # None => users'[e] # None
          BY <1>1 DEF Advances
        <5> QED
          BY <1>2, <2>2, <4>1, <5>1, <5>2, <5>3, <5>4 DEF IInv, AccountOrPending
      <4>4. OriginsAreTimely'
        <5>1. Timely(s)'
          BY <1>1, <2>1, <4>1 DEF Timely, Advances
        <5> QED
          BY <1>1, <1>2, <4>1, <5>1, KnowledgeStays
          DEF IInv, TypeOK, OriginsAreTimely, NewUser
      <4>5. VerifiedByItsOwner'
        <5>1. ASSUME NEW e \in Email, e = signUps[s].email
              PROVE  Proven(e)'
          BY <1>1, <2>1, <2>2, <4>1, <5>1 DEF Proven, Advances
        <5>2. \A e \in Email : e # signUps[s].email => users'[e] = users[e]
          BY <4>1 DEF IInv, TypeOK
        <5> QED
          BY <1>1, <5>1, <5>2, KnowledgeStays DEF IInv, VerifiedByItsOwner
      <4> QED
        BY <1>1, <1>2, <1>4, <3>2, <4>1, <4>2, <4>3, <4>4, <4>5, Undisturbed DEF IInv
    <3> QED
      BY <1>6, <2>4, <3>4, <3>5, <3>6, <3>7 DEF SignUpNext
  <2> QED
    BY <2>3, <2>4
<1> QED
  BY <1>5, <1>6

\* Only mailed tokens are presented; deleting tokens is harmless.
LEMMA FewerTokens ==
  ASSUME IInv, TypeOK', Advances, UNCHANGED <<signUps, links>>,
         \A t \in Token : tokens'[t] \in {tokens[t], None},
         \A v \in Visit : visits'[v] # None => Mailed(visits'[v].token)
  PROVE  TokensOfRequests'
<1>1. now \in Nat /\ now' \in Nat /\ now' >= now
  BY DEF IInv, TypeOK, Advances
<1>2. \A s \in SignUp : signUps[s] # None =>
        /\ signUps[s].expiresAt <= now' + SignUpLife
        /\ signUps[s].mailed => signUps[s].phase \in Stored \ {"mail"}
  <2>1. \A s \in SignUp : signUps[s] # None => signUps[s].expiresAt \in Nat
    BY DEF IInv, TypeOK, SignUpState
  <2> QED
    BY <1>1, <2>1, SiteAuthAssumption DEF IInv, TokensOfRequests
<1>3. \A s \in SignUp : tokens'[s] # None => tokens'[s] = tokens[s]
  BY DEF Token
<1> QED
  BY <1>2, <1>3 DEF IInv, TokensOfRequests, Mailed

LEMMA TimeKeepsIInv ==
  ASSUME IInv, Tick \/ Expire
  PROVE  IInv'
<1>1. TypeOK' /\ Advances
  BY TimeAdvances DEF IInv
<1>2. UNCHANGED <<users, signUps, links, visits, changes>>
  BY DEF Tick, Expire
<1>3. TokensOfRequests'
  <2>1. \A t \in Token : tokens'[t] \in {tokens[t], None}
    BY DEF Tick, Expire, IInv, TypeOK
  <2>2. \A v \in Visit : visits'[v] # None => Mailed(visits'[v].token)
    BY <1>2 DEF IInv, TokensOfRequests
  <2> QED
    BY <1>1, <1>2, <2>1, <2>2, FewerTokens
<1>4. UsedTokensAreGone'
  <2>1. \A v \in Visit : visits[v] # None => visits[v].token \in Token
    BY DEF IInv, TypeOK, VisitState
  <2> QED
    BY <1>2, <2>1 DEF Tick, Expire, IInv, TypeOK, UsedTokensAreGone, At
<1>5. CASE Tick
  BY <1>1, <1>2, <1>3, <1>4, <1>5, Undisturbed DEF Tick, IInv
<1>6. CASE Expire
  <2>1. AccountOrPending'
    <3>1. \A s \in SignUp : signUps[s] # None =>
            signUps[s].email \in Email /\ signUps[s].expiresAt \in Nat
      BY DEF IInv, TypeOK, SignUpState
    <3>2. \A e \in Email : pendingUsers[e] # None => pendingUsers[e].until \in Nat
      BY DEF IInv, TypeOK, PendingUser
    <3>3. now \in Nat /\ now' = now
      BY <1>6 DEF IInv, TypeOK, Expire
    <3>4. \A e \in Email : \/ pendingUsers'[e] = pendingUsers[e]
                           \/ pendingUsers[e] # None /\ now >= pendingUsers[e].until
      BY <1>6 DEF IInv, TypeOK, Expire
    <3> QED
      BY <1>2, <3>1, <3>2, <3>3, <3>4 DEF IInv, AccountOrPending
  <2>2. OriginsAreTimely'
    <3>1. \A e \in Email : pendingUsers'[e] \in {pendingUsers[e], None}
      BY <1>6 DEF IInv, TypeOK, Expire
    <3> QED
      BY <1>1, <1>2, <3>1, KnowledgeStays DEF IInv, OriginsAreTimely
  <2> QED
    BY <1>1, <1>2, <1>3, <1>4, <2>1, <2>2, Undisturbed DEF IInv
<1> QED
  BY <1>5, <1>6

\* A link is stored before it is mailed, so no visit has used it yet.
LEMMA LinkKeepsIInv ==
  ASSUME IInv, NEW l \in Link, LinkNext(l)
  PROVE  IInv'
<1>1. TypeOK' /\ Advances
  BY LinkTyped, LinkAdvances DEF IInv
<1>2. UNCHANGED <<now, users, pendingUsers, signUps, visits, changes>>
  BY DEF LinkNext, StartLink, PutLink, MailLink
<1>3. \A k \in Token \ {l} : tokens'[k] = tokens[k]
  BY DEF LinkNext, StartLink, PutLink, MailLink, IInv, TypeOK
<1>4. \A k \in Link : links'[k] # None /\ links'[k].mailed => links'[k].phase = "answered"
  <2>1. \A k \in Link : k # l => links'[k] = links[k]
    BY DEF LinkNext, StartLink, PutLink, MailLink, IInv, TypeOK
  <2>2. links'[l].mailed => links'[l].phase = "answered"
    BY DEF LinkNext, StartLink, PutLink, MailLink, IInv, TypeOK, LinkState, At,
           TokensOfRequests
  <2> QED
    BY <2>1, <2>2 DEF IInv, TokensOfRequests
<1>5. TokensOfRequests'
  <2>1. \A v \in Visit : visits[v] # None => Mailed(visits[v].token)'
    <3>1. \A v \in Visit : visits[v] # None => visits[v].token \in Token
      BY DEF IInv, TypeOK, VisitState
    <3> QED
      BY <1>1, <1>2, <3>1, KnowledgeStays DEF IInv, TokensOfRequests
  <2>2. \A s \in SignUp : tokens'[s] = tokens[s]
    BY <1>3, SiteAuthAssumption DEF Token
  <2> QED
    BY <1>2, <1>4, <2>1, <2>2 DEF IInv, TokensOfRequests
<1>6. UsedTokensAreGone'
  <2>1. \A v \in Visit : visits[v] # None => visits[v].token \in Token
    BY DEF IInv, TypeOK, VisitState
  <2>2. tokens'[l] = tokens[l] \/ ~ Mailed(l)
    BY SiteAuthAssumption
    DEF LinkNext, StartLink, PutLink, MailLink, IInv, TokensOfRequests, Mailed, At
  <2> QED
    BY <1>2, <1>3, <2>1, <2>2 DEF IInv, UsedTokensAreGone, TokensOfRequests, At
<1> QED
  BY <1>1, <1>2, <1>5, <1>6, Undisturbed DEF IInv

\* Set-password writes back what was true of the record when it was read and
\* cannot become false.
LEMMA ChangeKeepsIInv ==
  ASSUME IInv, NEW c \in Change, ChangeNext(c)
  PROVE  IInv'
<1>1. TypeOK' /\ Advances
  BY ChangeTyped, ChangeAdvances DEF IInv
<1>2. UNCHANGED <<now, pendingUsers, tokens, signUps, links, visits>>
  BY DEF ChangeNext, StartChange, ReadUser, WriteUser
<1>3. \A d \in Change : d # c => changes'[d] = changes[d]
  BY DEF ChangeNext, StartChange, ReadUser, WriteUser, IInv, TypeOK
<1>4. \A d \in Change : changes[d] # None => changes[d].email \in Email
  BY DEF IInv, TypeOK, ChangeState
<1>5. SUFFICES HeldVerification' /\ VerifiedByItsOwner' /\ OriginsAreTimely'
  BY <1>1, <1>2, Undisturbed DEF IInv
<1>6. CASE StartChange(c)
  <2>1. changes'[c].found = None /\ UNCHANGED users
    BY <1>6 DEF StartChange, IInv, TypeOK
  <2> QED
    BY <1>1, <1>2, <1>3, <1>4, <2>1, KnowledgeStays, Undisturbed
    DEF IInv, HeldVerification, OriginsAreTimely
<1>7. CASE ReadUser(c)
  <2>1. /\ changes[c] # None
        /\ changes'[c].email = changes[c].email
        /\ changes'[c].found \in {changes[c].found, users[changes[c].email]}
        /\ UNCHANGED users
    BY <1>7 DEF ReadUser, At, IInv, TypeOK, ChangeState
  <2> QED
    BY <1>1, <1>2, <1>3, <1>4, <2>1, KnowledgeStays, Undisturbed
    DEF IInv, HeldVerification, VerifiedByItsOwner, OriginsAreTimely
<1>8. CASE WriteUser(c)
  <2> DEFINE e == changes[c].email
             f == changes[c].found
  <2>1. /\ changes[c] # None
        /\ changes'[c].email = e
        /\ changes'[c].found = f
        /\ e \in Email
        /\ f \in User \cup {None}
    BY <1>8 DEF WriteUser, At, IInv, TypeOK, ChangeState
  <2>2. /\ f = None => users'[e].origin = c /\ users'[e].verified = FALSE
        /\ f # None => /\ users'[e].origin = f.origin
                       /\ users'[e].verified = f.verified
    <3>1. users' = [users EXCEPT ![e] =
                      IF f = None
                        THEN [origin |-> c, password |-> changes[c].new,
                              verified |-> FALSE]
                        ELSE [f EXCEPT !.password = changes[c].new]]
      BY <1>8 DEF WriteUser
    <3> HIDE DEF e, f
    <3> QED
      BY <2>1, <3>1 DEF IInv, TypeOK, User
  <2>3. \A d \in Email : d # e => users'[d] = users[d]
    BY <1>8 DEF WriteUser, IInv, TypeOK
  <2> HIDE DEF e, f
  <2>4. HeldVerification'
    BY <1>1, <1>3, <1>4, <2>1, KnowledgeStays DEF IInv, HeldVerification, e, f
  <2>5. VerifiedByItsOwner'
    <3>1. users'[e].verified => f # None /\ f.verified
      BY <2>2
    <3>2. ASSUME NEW d \in Email, d = e, users'[e].verified PROVE Proven(d)'
      BY <1>1, <2>1, <3>1, <3>2, KnowledgeStays DEF IInv, HeldVerification, e, f
    <3> QED
      BY <1>1, <2>3, <3>2, KnowledgeStays DEF IInv, VerifiedByItsOwner
  <2>6. OriginsAreTimely'
    <3>1. \A o : Timely(o) => Timely(o)'
      BY <1>1, KnowledgeStays
    <3>2. ASSUME NEW o, o = users'[e].origin PROVE Timely(o)'
      <4>1. CASE f = None
        BY <2>2, <3>2, <4>1, SiteAuthAssumption DEF Timely
      <4>2. CASE f # None
        BY <2>1, <2>2, <3>1, <3>2, <4>2 DEF IInv, OriginsAreTimely, f
      <4> QED
        BY <4>1, <4>2
    <3>3. \A d \in Email : users'[d] # None => \A o : o = users'[d].origin => Timely(o)'
      BY <2>3, <3>1, <3>2 DEF IInv, OriginsAreTimely
    <3>4. \A d \in Change : changes'[d] # None /\ changes'[d].found # None =>
            \A o : o = changes'[d].found.origin => Timely(o)'
      BY <1>3, <2>1, <3>1 DEF IInv, OriginsAreTimely, f
    <3> QED
      BY <1>2, <3>1, <3>3, <3>4 DEF IInv, OriginsAreTimely
  <2> QED
    BY <2>4, <2>5, <2>6
<1> QED
  BY <1>6, <1>7, <1>8 DEF ChangeNext

\* A visit clears the pending user only once the account is there, and deletes
\* its token last.
LEMMA VisitKeepsIInv ==
  ASSUME IInv, NEW v \in Visit, VisitNext(v)
  PROVE  IInv'
<1> DEFINE t == visits'[v].token
           e == visits'[v].email
<1>1. TypeOK' /\ Advances
  BY VisitTyped, VisitAdvances DEF IInv
<1>2. UNCHANGED <<now, signUps, links, changes>>
  BY DEF VisitNext, OpenLink, AcceptToken, RejectToken, DropExpired, GetPendingUser,
         ActivateUser, DropPendingUser, DropToken
<1>3. \A u \in Visit : u # v => visits'[u] = visits[u]
  BY DEF VisitNext, OpenLink, AcceptToken, RejectToken, DropExpired, GetPendingUser,
         ActivateUser, DropPendingUser, DropToken, IInv, TypeOK
<1>4. \A k \in Token : tokens'[k] \in {tokens[k], None}
  BY DEF VisitNext, OpenLink, AcceptToken, RejectToken, DropExpired, GetPendingUser,
         ActivateUser, DropPendingUser, DropToken, IInv, TypeOK
<1>5. visits'[v] # None /\ Mailed(t)
  <2>1. CASE visits[v] # None
    BY <1>1, <2>1 DEF Advances, IInv, TokensOfRequests
  <2>2. CASE visits[v] = None
    <3> PICK k \in Token, d \in Email :
          /\ Mailed(k)
          /\ visits' = [visits EXCEPT ![v] =
                          [phase |-> "token", token |-> k, email |-> d, found |-> None]]
      BY <2>2 DEF VisitNext, OpenLink, AcceptToken, RejectToken, DropExpired,
                  GetPendingUser, ActivateUser, DropPendingUser, DropToken, At
    <3>1. [phase |-> "token", token |-> k, email |-> d, found |-> None] \in VisitState
      BY DEF VisitState
    <3> QED
      BY <3>1, SiteAuthAssumption DEF IInv, TypeOK
  <2> QED
    BY <2>1, <2>2
<1>6. /\ visits'[v] \in VisitState
      /\ t \in Token
      /\ e \in Email
      /\ t \in SignUp => signUps[t] # None
  <2>1. visits'[v] \in VisitState
    BY <1>1, <1>5 DEF TypeOK
  <2> QED
    BY <1>5, <2>1, SiteAuthAssumption DEF VisitState, Mailed
<1>7. TokensOfRequests'
  <2>1. \A u \in Visit : visits'[u] # None => Mailed(visits'[u].token)
    BY <1>3, <1>5 DEF IInv, TokensOfRequests
  <2> QED
    BY <1>1, <1>2, <1>4, <2>1, FewerTokens
<1>8. HeldVerification' /\ LateIsRefused'
  BY <1>1, <1>2, Undisturbed
<1>9. UsedTokensAreGone'
  <2>1. visits'[v].phase = "answered" => tokens'[t] = None
    BY <1>6 DEF VisitNext, OpenLink, AcceptToken, RejectToken, DropExpired,
      GetPendingUser, ActivateUser, DropPendingUser, DropToken, At, IInv, TypeOK,
      VisitState
  <2>2. \A u \in Visit : visits[u] # None => visits[u].token \in Token
    BY DEF IInv, TypeOK, VisitState
  <2> QED
    BY <1>3, <1>4, <2>1, <2>2 DEF IInv, UsedTokensAreGone, At
<1>10. /\ \A d \in Email : users[d] # None => users'[d] # None
       /\ \A u \in Visit : visits[u] # None =>
            visits[u].email \in Email /\ visits[u].token \in Token
  BY <1>1 DEF Advances, IInv, TypeOK, VisitState
<1>11. SUFFICES /\ AcceptedAddress'
               /\ VisitProgress'
               /\ AccountAfterVerification'
               /\ AccountOrPending'
               /\ OriginsAreTimely'
               /\ VerifiedByItsOwner'
  BY <1>1, <1>7, <1>8, <1>9 DEF IInv
<1>12. AcceptedAddress'
  <2>1. t \in SignUp /\ visits'[v].phase \notin {"token", "expired", "rejected"} =>
          e = signUps[t].email
    <3>1. CASE AcceptToken(v)
      BY <1>6, <3>1 DEF AcceptToken, Accepted, TokenFor, IInv, TypeOK, VisitState,
                        TokensOfRequests
    <3>2. CASE OpenLink(v) \/ RejectToken(v) \/ DropExpired(v)
      BY <3>2 DEF OpenLink, RejectToken, DropExpired, At, IInv, TypeOK, VisitState
    <3>3. CASE GetPendingUser(v) \/ ActivateUser(v) \/ DropPendingUser(v) \/ DropToken(v)
      <4>1. /\ visits[v] # None
            /\ visits[v].phase \notin {"token", "expired", "rejected"}
        BY <3>3 DEF GetPendingUser, ActivateUser, DropPendingUser, DropToken, At
      <4> QED
        BY <1>1, <4>1 DEF Advances, IInv, AcceptedAddress
    <3> QED
      BY <3>1, <3>2, <3>3 DEF VisitNext
  <2> QED
    BY <1>2, <1>3, <2>1 DEF IInv, AcceptedAddress
<1>13. \A u \in Visit : u # v /\ visits'[u] # None =>
         LET k == visits[u].token
             d == visits[u].email IN
         /\ visits[u].phase \in {"pending", "activate"} => k \in SignUp
         /\ visits[u].phase = "activate" => visits[u].found # None
         /\ visits[u].phase = "clear" => users'[d] # None
         /\ visits[u].phase = "drop" /\ k \in SignUp =>
              users'[d] # None \/ now >= signUps[k].expiresAt
         /\ visits[u].phase = "answered" /\ k \in SignUp =>
              users'[d] # None \/ now >= signUps[k].expiresAt
  BY <1>3, <1>10 DEF IInv, VisitProgress, AccountAfterVerification, At
<1>14. SUFFICES
         /\ /\ visits'[v].phase \in {"pending", "activate"} => t \in SignUp
            /\ visits'[v].phase = "activate" => visits'[v].found # None
            /\ visits'[v].phase = "clear" => users'[e] # None
            /\ visits'[v].phase \in {"drop", "answered"} /\ t \in SignUp =>
                 users'[e] # None \/ now >= signUps[t].expiresAt
         /\ AccountOrPending'
         /\ OriginsAreTimely'
         /\ VerifiedByItsOwner'
  <2>1. VisitProgress'
    BY <1>2, <1>3, <1>13, <1>14 DEF VisitProgress
  <2>2. AccountAfterVerification'
    BY <1>2, <1>3, <1>13, <1>14 DEF AccountAfterVerification, At
  <2> QED
    BY <1>12, <1>14, <2>1, <2>2
<1>15. CASE OpenLink(v)
  <2>1. /\ visits'[v].phase = "token" /\ visits'[v].found = None
        /\ UNCHANGED <<users, pendingUsers>>
    BY <1>15 DEF OpenLink, IInv, TypeOK
  <2>2. OriginsAreTimely'
    BY <1>1, <1>2, <1>3, <2>1, KnowledgeStays DEF IInv, OriginsAreTimely
  <2> QED
    BY <1>1, <1>2, <2>1, <2>2, Undisturbed
<1>16. CASE AcceptToken(v) \/ RejectToken(v) \/ DropExpired(v)
  <2>1. /\ visits'[v].phase \in {"pending", "drop", "expired", "rejected"}
        /\ visits'[v].phase = "pending" => t \in SignUp
        /\ visits'[v].phase = "drop" => t \notin SignUp
        /\ visits[v] # None
        /\ visits'[v].found = visits[v].found
        /\ UNCHANGED <<users, pendingUsers>>
    BY <1>16 DEF AcceptToken, RejectToken, DropExpired, At, IInv, TypeOK, VisitState
  <2>2. OriginsAreTimely'
    BY <1>1, <1>2, <1>3, <2>1, KnowledgeStays DEF IInv, OriginsAreTimely
  <2> QED
    BY <1>1, <1>2, <2>1, <2>2, Undisturbed
<1>17. CASE GetPendingUser(v)
  <2>1. /\ visits[v] # None /\ visits[v].phase = "pending"
        /\ visits[v].token = t /\ visits[v].email = e
        /\ UNCHANGED <<users, pendingUsers>>
    BY <1>1, <1>17 DEF GetPendingUser, At, Advances
  <2>2. /\ t \in SignUp
        /\ signUps[t] # None
        /\ signUps[t].phase \in Stored
        /\ signUps[t].email = e
    BY <1>6, <2>1, SiteAuthAssumption
    DEF IInv, VisitProgress, TokensOfRequests, Mailed, AcceptedAddress
  <2>3. CASE pendingUsers[e] = None
    <3>1. visits'[v].phase = "drop" /\ visits'[v].found = visits[v].found
      BY <1>17, <2>1, <2>3 DEF GetPendingUser, IInv, TypeOK, VisitState
    <3>2. users[e] # None \/ now >= signUps[t].expiresAt
      BY <2>2, <2>3 DEF IInv, AccountOrPending
    <3>3. OriginsAreTimely'
      BY <1>1, <1>2, <1>3, <2>1, <3>1, KnowledgeStays DEF IInv, OriginsAreTimely
    <3> QED
      BY <1>1, <1>2, <2>1, <3>1, <3>2, <3>3, Undisturbed
  <2>4. CASE pendingUsers[e] # None
    <3>1. /\ visits'[v].phase = "activate"
          /\ visits'[v].found = pendingUsers[e].user
      BY <1>17, <2>1, <2>4 DEF GetPendingUser, IInv, TypeOK, VisitState
    <3>2. pendingUsers[e].user \in User
      BY <1>6, <2>4 DEF IInv, TypeOK, PendingUser
    <3>3. OriginsAreTimely'
      BY <1>1, <1>2, <1>3, <1>6, <2>1, <2>4, <3>1, KnowledgeStays
      DEF IInv, OriginsAreTimely
    <3> QED
      BY <1>1, <1>2, <2>1, <2>2, <3>1, <3>2, <3>3, Undisturbed, SiteAuthAssumption
  <2> QED
    BY <2>3, <2>4
<1>18. CASE ActivateUser(v)
  <2>1. /\ visits[v] # None /\ visits[v].phase = "activate"
        /\ visits[v].token = t /\ visits[v].email = e
        /\ visits'[v].phase = "clear"
        /\ visits'[v].found = visits[v].found
        /\ visits[v].found \in User
        /\ UNCHANGED pendingUsers
    BY <1>1, <1>18 DEF ActivateUser, At, Advances, IInv, TypeOK, VisitState, VisitProgress
  <2>2. /\ users'[e] # None
        /\ users'[e].origin = visits[v].found.origin
    <3>1. [visits[v].found EXCEPT !.verified = TRUE] \in User
      BY <2>1 DEF User
    <3>2. users' = [users EXCEPT ![e] = [visits[v].found EXCEPT !.verified = TRUE]]
      BY <1>18, <2>1 DEF ActivateUser
    <3> QED
      BY <1>6, <2>1, <3>1, <3>2, SiteAuthAssumption DEF IInv, TypeOK, User
  <2>3. \A d \in Email : d # e => users'[d] = users[d]
    BY <1>18, <2>1 DEF ActivateUser, IInv, TypeOK
  <2>4. AccountOrPending'
    <3>1. \A s \in SignUp : signUps[s] # None => signUps[s].email \in Email
      BY DEF IInv, TypeOK, SignUpState
    <3> QED
      BY <1>2, <1>10, <2>1, <3>1 DEF IInv, AccountOrPending
  <2>5. OriginsAreTimely'
    BY <1>1, <1>2, <1>3, <2>1, <2>2, <2>3, SiteAuthAssumption, KnowledgeStays
    DEF IInv, OriginsAreTimely
  <2>6. VerifiedByItsOwner'
    <3>1. ASSUME NEW d \in Email, d = e PROVE Proven(d)'
      <4>1. t \in SignUp /\ signUps[t] # None /\ signUps[t].email = e
        BY <1>6, <2>1 DEF IInv, VisitProgress, AcceptedAddress
      <4>2. PICK k \in SignUp : k = t
        BY <4>1
      <4>3. Verified(v, k)'
        BY <1>5, <2>1, <4>2 DEF Verified
      <4> QED
        BY <1>2, <3>1, <4>1, <4>2, <4>3 DEF Proven
    <3> QED
      BY <1>1, <2>3, <3>1, KnowledgeStays DEF IInv, VerifiedByItsOwner
  <2> QED
    BY <2>1, <2>2, <2>4, <2>5, <2>6
<1>19. CASE DropPendingUser(v)
  <2>1. /\ visits[v] # None /\ visits[v].phase = "clear"
        /\ visits[v].token = t /\ visits[v].email = e
        /\ visits'[v].phase = "drop"
        /\ visits'[v].found = visits[v].found
        /\ users[e] # None
        /\ UNCHANGED users
    BY <1>1, <1>19 DEF DropPendingUser, At, Advances, IInv, TypeOK, VisitState, VisitProgress
  <2>2. pendingUsers' = [pendingUsers EXCEPT ![e] = None]
    BY <1>19, <2>1 DEF DropPendingUser
  <2>3. AccountOrPending'
    <3>1. \A s \in SignUp : signUps[s] # None => signUps[s].email \in Email
      BY DEF IInv, TypeOK, SignUpState
    <3>2. \A d \in Email : d # e => pendingUsers'[d] = pendingUsers[d]
      BY <2>2 DEF IInv, TypeOK
    <3> QED
      BY <1>2, <2>1, <3>1, <3>2 DEF IInv, AccountOrPending
  <2>4. OriginsAreTimely'
    <3>1. \A d \in Email : pendingUsers'[d] \in {pendingUsers[d], None}
      BY <2>2 DEF IInv, TypeOK
    <3> QED
      BY <1>1, <1>2, <1>3, <2>1, <3>1, KnowledgeStays DEF IInv, OriginsAreTimely
  <2> QED
    BY <1>1, <2>1, <2>3, <2>4, Undisturbed
<1>20. CASE DropToken(v)
  <2>1. /\ visits[v] # None /\ visits[v].phase = "drop"
        /\ visits[v].token = t /\ visits[v].email = e
        /\ visits'[v].phase = "answered"
        /\ visits'[v].found = visits[v].found
        /\ UNCHANGED <<users, pendingUsers>>
    BY <1>1, <1>20 DEF DropToken, At, Advances, IInv, TypeOK, VisitState
  <2>2. t \in SignUp => users[e] # None \/ now >= signUps[t].expiresAt
    BY <2>1 DEF IInv, VisitProgress
  <2>3. OriginsAreTimely'
    BY <1>1, <1>2, <1>3, <2>1, KnowledgeStays DEF IInv, OriginsAreTimely
  <2> QED
    BY <1>1, <1>2, <2>1, <2>2, <2>3, Undisturbed
<1> QED
  BY <1>15, <1>16, <1>17, <1>18, <1>19, <1>20 DEF VisitNext

-----------------------------------------------------------------------------
(* The theorems.                                                           *)

THEOREM Invariance == Spec => []IInv
<1>1. Init => IInv
  BY InitHolds
<1>2. IInv /\ [Next]_vars => IInv'
  <2> SUFFICES ASSUME IInv, [Next]_vars PROVE IInv'
    OBVIOUS
  <2>1. CASE Tick \/ Expire
    BY <2>1, TimeKeepsIInv
  <2>2. ASSUME NEW s \in SignUp, SignUpNext(s) PROVE IInv'
    BY <2>2, SignUpKeepsIInv
  <2>3. ASSUME NEW l \in Link, LinkNext(l) PROVE IInv'
    BY <2>3, LinkKeepsIInv
  <2>4. ASSUME NEW v \in Visit, VisitNext(v) PROVE IInv'
    BY <2>4, VisitKeepsIInv
  <2>5. ASSUME NEW c \in Change, ChangeNext(c) PROVE IInv'
    BY <2>5, ChangeKeepsIInv
  <2>6. CASE UNCHANGED vars
    BY <2>6 DEF vars, IInv, TypeOK, TokensOfRequests, AcceptedAddress, AccountOrPending,
      VisitProgress, HeldVerification, LateIsRefused, OriginsAreTimely, Timely,
      AccountAfterVerification, VerifiedByItsOwner, Proven, Verified, Mailed,
      UsedTokensAreGone, At
  <2> QED
    BY <2>1, <2>2, <2>3, <2>4, <2>5, <2>6 DEF Next
<1> QED
  BY <1>1, <1>2, PTL DEF Spec

\* Who verify told to sign in has an account, unless the token ended meanwhile.
THEOREM VerifiedUsersHaveAccounts == Spec => []AccountAfterVerification
<1>1. IInv => AccountAfterVerification
  BY DEF IInv
<1> QED
  BY <1>1, Invariance, PTL

\* Accounts are verified only for proven addresses.
THEOREM AccountsAreVerifiedByOwners == Spec => []VerifiedByItsOwner
<1>1. IInv => VerifiedByItsOwner
  BY DEF IInv
<1> QED
  BY <1>1, Invariance, PTL

\* A sign-up for an address with an account stores nothing: it is refused, and
\* whatever is stored stems from sign-ups that were not.
THEOREM LateSignUpsLeaveNoTrace == Spec => []LateSignUpLeavesNoTrace
<1>1. IInv => LateSignUpLeavesNoTrace
  BY DEF IInv, LateIsRefused, OriginsAreTimely, Timely, TokensOfRequests, Stored,
         LateSignUpLeavesNoTrace
<1> QED
  BY <1>1, Invariance, PTL

\* A used token never comes back.
THEOREM TokensAreUsedUp == Spec => []UsedTokensAreGone
<1>1. IInv => UsedTokensAreGone
  BY DEF IInv
<1> QED
  BY <1>1, Invariance, PTL
=============================================================================
