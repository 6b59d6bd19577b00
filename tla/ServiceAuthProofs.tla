-------------------------- MODULE ServiceAuthProofs --------------------------
(***************************************************************************)
(* The billing service's sign-in links implement one-time links, a deleted *)
(* API key admits nobody and a service without keys signs nobody in: for   *)
(* any number of addresses, keys and concurrent requests.  MagicLinks and  *)
(* ApiKeys are proved about one at a time; ServiceAuth implements both.    *)
(***************************************************************************)
EXTENDS ServiceAuth, TLAPS

-----------------------------------------------------------------------------
(* Sign-in links.                                                          *)

\* What a step of a send does, for the lemmas below.
SendStep(s) == StartSend(s) \/ StoreLink(s) \/ StoreFails(s) \/ MailLink(s)

VisitStep(v) ==
  OpenLink(v) \/ SelectLink(v) \/ RejectLink(v) \/ CheckExpiry(v) \/ DeleteLink(v)

LEMMA SendKeepsTypes ==
  ASSUME LinksInv, NEW s \in Send, SendStep(s)
  PROVE  LinksTypeOK'
<1> USE MagicLinksAssumption DEF LinksInv, LinksTypeOK, At
<1>1. CASE StartSend(s)
  BY <1>1 DEF StartSend, SendState
<1>2. sends[s] # None => [token |-> s, expiresAt |-> sends[s].expiresAt] \in Row
  BY DEF SendState, Row
<1>3. CASE StoreLink(s)
  BY <1>2, <1>3 DEF StoreLink, Upsert, SendState
<1>4. CASE StoreFails(s)
  <2>1. sends[s] \in SendState
    BY <1>4 DEF StoreFails
  <2>2. /\ [sends[s] EXCEPT !.phase = "retry"] \in SendState
        /\ [sends[s] EXCEPT !.phase = "refused"] \in SendState
    BY <2>1 DEF SendState
  <2> QED
    BY <1>2, <1>4, <2>1, <2>2 DEF StoreFails, Upsert, SendState
<1>5. CASE MailLink(s)
  <2>1. PICK left \in BOOLEAN :
          sends' = [sends EXCEPT ![s].phase = "answered", ![s].mailed = left]
    BY <1>5 DEF MailLink
  <2>2. [sends[s] EXCEPT !.phase = "answered", !.mailed = left] \in SendState
    BY <1>5 DEF MailLink, SendState
  <2> QED
    BY <1>5, <2>1, <2>2 DEF MailLink
<1> QED
  BY <1>1, <1>3, <1>4, <1>5 DEF SendStep

LEMMA VisitKeepsTypes ==
  ASSUME LinksInv, NEW v \in Visit, VisitStep(v)
  PROVE  LinksTypeOK'
<1> USE MagicLinksAssumption DEF LinksInv, LinksTypeOK, At
<1>1. CASE OpenLink(v)
  <2>1. PICK t \in Send, e \in Email :
          visits' = [visits EXCEPT ![v] =
                       [phase |-> "select", token |-> t, email |-> e,
                        found |-> None, late |-> ~Stored(t)]]
    BY <1>1 DEF OpenLink
  <2>2. [phase |-> "select", token |-> t, email |-> e,
         found |-> None, late |-> ~Stored(t)] \in VisitState
    BY DEF VisitState
  <2> QED
    BY <1>1, <2>1, <2>2 DEF OpenLink
<1>2. CASE SelectLink(v)
  <2>1. visits[v] \in VisitState /\ links[visits[v].email] \in Row
    BY <1>2 DEF SelectLink, VisitState
  <2>2. [visits[v] EXCEPT !.phase = "check", !.found = links[visits[v].email]]
          \in VisitState
    BY <2>1 DEF VisitState
  <2> QED
    BY <1>2, <2>1, <2>2 DEF SelectLink
<1>3. CASE RejectLink(v)
  BY <1>3 DEF RejectLink, VisitState
<1>4. CASE CheckExpiry(v)
  BY <1>4 DEF CheckExpiry, VisitState
<1>5. CASE DeleteLink(v)
  BY <1>5 DEF DeleteLink, VisitState
<1> QED
  BY <1>1, <1>2, <1>3, <1>4, <1>5 DEF VisitStep

\* A row is the one its send made, whichever send overwrites it.
LEMMA RowsAreOfSends ==
  ASSUME LinksInv, LinksTypeOK',
         \/ \E s \in Send : SendStep(s)
         \/ \E v \in Visit : VisitStep(v)
  PROVE  RowsOfSends'
<1> USE MagicLinksAssumption DEF LinksInv, LinksTypeOK, RowsOfSends, At
<1>1. ASSUME NEW s \in Send, SendStep(s) PROVE RowsOfSends'
  <2>1. CASE StartSend(s)
    BY <2>1 DEF StartSend, Row
  <2>2. CASE StoreLink(s)
    BY <2>2 DEF StoreLink, Upsert, Row, SendState
  <2>3. CASE StoreFails(s)
    BY <2>3 DEF StoreFails, Upsert, Row, SendState
  <2>4. CASE MailLink(s)
    BY <2>4 DEF MailLink, Row, SendState
  <2> QED
    BY <1>1, <2>1, <2>2, <2>3, <2>4 DEF SendStep
<1>2. ASSUME NEW v \in Visit, VisitStep(v) PROVE RowsOfSends'
  BY <1>2 DEF VisitStep, OpenLink, SelectLink, RejectLink, CheckExpiry, DeleteLink
<1> QED
  BY <1>1, <1>2

\* Once a link was mailed its send is over.
LEMMA MailsComeLast ==
  ASSUME LinksInv, LinksTypeOK',
         \/ \E s \in Send : SendStep(s)
         \/ \E v \in Visit : VisitStep(v)
  PROVE  VisitsAfterMail'
<1> USE MagicLinksAssumption DEF LinksInv, LinksTypeOK, VisitsAfterMail, At
<1>1. ASSUME NEW s \in Send, SendStep(s) PROVE VisitsAfterMail'
  <2>1. CASE StartSend(s)
    BY <2>1 DEF StartSend, VisitState
  <2>2. CASE StoreLink(s)
    BY <2>2 DEF StoreLink, VisitState, SendState
  <2>3. CASE StoreFails(s)
    BY <2>3 DEF StoreFails, VisitState, SendState
  <2>4. CASE MailLink(s)
    BY <2>4 DEF MailLink, VisitState, SendState
  <2> QED
    BY <1>1, <2>1, <2>2, <2>3, <2>4 DEF SendStep
<1>2. ASSUME NEW v \in Visit, VisitStep(v) PROVE VisitsAfterMail'
  BY <1>2 DEF VisitStep, OpenLink, SelectLink, RejectLink, CheckExpiry, DeleteLink,
              VisitState
<1> QED
  BY <1>1, <1>2

LEMMA AcceptedVisitsStay ==
  ASSUME LinksInv, LinksTypeOK',
         \/ \E s \in Send : SendStep(s)
         \/ \E v \in Visit : VisitStep(v)
  PROVE  AcceptedVisits'
<1> USE MagicLinksAssumption DEF LinksInv, LinksTypeOK, AcceptedVisits, At
<1>1. ASSUME NEW s \in Send, SendStep(s) PROVE AcceptedVisits'
  <2>1. /\ UNCHANGED visits
        /\ \A r \in Send : sends[r] # None => sends'[r].email = sends[r].email
    BY <1>1 DEF SendStep, StartSend, StoreLink, StoreFails, MailLink, SendState
  <2> QED
    BY <2>1 DEF VisitsAfterMail, VisitState
<1>2. ASSUME NEW v \in Visit, VisitStep(v) PROVE AcceptedVisits'
  <2>1. CASE SelectLink(v)
    BY <2>1 DEF SelectLink, RowsOfSends, VisitState
  <2>2. CASE OpenLink(v) \/ RejectLink(v) \/ CheckExpiry(v) \/ DeleteLink(v)
    BY <2>2 DEF OpenLink, RejectLink, CheckExpiry, DeleteLink, VisitState
  <2> QED
    BY <1>2, <2>1, <2>2 DEF VisitStep
<1> QED
  BY <1>1, <1>2

\* The token of a visit is not stored again, so a late visit stays late, finds
\* no row of its token and is rejected.
LEMMA LateVisitsStayLate ==
  ASSUME LinksInv, LinksTypeOK',
         \/ \E s \in Send : SendStep(s)
         \/ \E v \in Visit : VisitStep(v)
  PROVE  LateVisits' /\ GoneLinksAreRejected'
<1> USE MagicLinksAssumption
    DEF LinksInv, LinksTypeOK, LateVisits, GoneLinksAreRejected, Stored, At
<1>1. ASSUME NEW s \in Send, SendStep(s) PROVE LateVisits' /\ GoneLinksAreRejected'
  <2>1. UNCHANGED visits
    BY <1>1 DEF SendStep, StartSend, StoreLink, StoreFails, MailLink
  <2>2. ASSUME NEW w \in Visit, visits[w] # None,
               NEW e \in Email, links'[e] # None, links'[e].token = visits[w].token
        PROVE  links[e] # None /\ links[e].token = visits[w].token
    <3>1. CASE visits[w].token = s
      <4>1. ~At(sends[s], "store") /\ ~At(sends[s], "retry")
        BY <2>2, <3>1 DEF VisitsAfterMail
      <4> QED
        BY <1>1, <2>2, <4>1 DEF SendStep, StartSend, StoreLink, StoreFails, MailLink
    <3>2. CASE visits[w].token # s
      BY <1>1, <2>2, <3>2
      DEF SendStep, StartSend, StoreLink, StoreFails, MailLink, Upsert
    <3> QED
      BY <3>1, <3>2
  <2> QED
    BY <2>1, <2>2
<1>2. ASSUME NEW v \in Visit, VisitStep(v) PROVE LateVisits' /\ GoneLinksAreRejected'
  <2>1. CASE OpenLink(v)
    <3>1. PICK t \in Send, e \in Email :
            visits' = [visits EXCEPT ![v] =
                         [phase |-> "select", token |-> t, email |-> e,
                          found |-> None, late |-> ~Stored(t)]]
      BY <2>1 DEF OpenLink
    <3>2. UNCHANGED links
      BY <2>1 DEF OpenLink
    <3> DEFINE gone == ~Stored(t)
    <3>3. gone => \A f \in Email : ~(links[f] # None /\ links[f].token = t)
      BY DEF Stored
    <3> HIDE DEF gone
    <3>4. /\ visits'[v].token = t /\ visits'[v].phase = "select"
          /\ visits'[v].late => gone
          /\ \A w \in Visit \ {v} : visits'[w] = visits[w]
      BY <3>1 DEF gone
    <3> QED
      BY <3>2, <3>3, <3>4
  <2>2. CASE SelectLink(v)
    BY <2>2 DEF SelectLink, VisitState
  <2>3. CASE RejectLink(v) \/ CheckExpiry(v)
    BY <2>3 DEF RejectLink, CheckExpiry, VisitState
  <2>4. CASE DeleteLink(v)
    BY <2>4 DEF DeleteLink, VisitState
  <2> QED
    BY <1>2, <2>1, <2>2, <2>3, <2>4 DEF VisitStep
<1> QED
  BY <1>1, <1>2

\* A row, a send and a visit tell the same story at every step.
THEOREM LinksInvariance == LinksSpec => []LinksInv
<1>1. LinksInit => LinksInv
  <2> SUFFICES ASSUME LinksInit PROVE LinksInv
    OBVIOUS
  <2> QED
    BY DEF LinksInit, LinksInv, LinksTypeOK, RowsOfSends, VisitsAfterMail,
           AcceptedVisits, LateVisits, GoneLinksAreRejected
<1>2. LinksInv /\ [LinksNext]_<<now, linkVars>> => LinksInv'
  <2> SUFFICES ASSUME LinksInv, [LinksNext]_<<now, linkVars>> PROVE LinksInv'
    OBVIOUS
  <2>1. CASE UNCHANGED linkVars /\ (Tick \/ UNCHANGED now)
    BY <2>1 DEF linkVars, Tick, LinksInv, LinksTypeOK, RowsOfSends, VisitsAfterMail,
                AcceptedVisits, LateVisits, Stored, GoneLinksAreRejected
  <2>2. CASE (\E s \in Send : SendStep(s)) \/ (\E v \in Visit : VisitStep(v))
    <3>1. LinksTypeOK'
      BY <2>2, SendKeepsTypes, VisitKeepsTypes
    <3>2. RowsOfSends' /\ VisitsAfterMail' /\ AcceptedVisits'
      BY <2>2, <3>1, RowsAreOfSends, MailsComeLast, AcceptedVisitsStay
    <3>3. LateVisits' /\ GoneLinksAreRejected'
      BY <2>2, <3>1, LateVisitsStayLate
    <3> QED
      BY <3>1, <3>2, <3>3 DEF LinksInv
  <2> QED
    BY <2>1, <2>2 DEF LinksNext, LinksStep, SendStep, VisitStep, linkVars
<1> QED
  BY <1>1, <1>2, PTL DEF LinksSpec

\* A link that is gone when it is opened signs nobody in.
THEOREM GoneLinksStayGone == LinksSpec => []GoneLinksAreRejected
<1>1. LinksInv => GoneLinksAreRejected
  BY DEF LinksInv
<1> QED
  BY LinksInvariance, <1>1, PTL

\* The token each address has, and what each visit was told.
Current == [e \in Email |-> IF links[e] = None THEN None ELSE links[e].token]

PassOf(visit) ==
  IF visit = None \/ At(visit, "select")
    THEN None
    ELSE [phase |-> Decision(visit.phase), token |-> visit.token,
          email |-> visit.email]

Passes == [v \in Visit |-> PassOf(visits[v])]

\* A step of one visit changes its pass only.
LEMMA PassMoves ==
  ASSUME LinksInv, NEW v \in Visit, NEW visit \in VisitState,
         visits' = [visits EXCEPT ![v] = visit]
  PROVE  Passes' = [Passes EXCEPT ![v] = PassOf(visit)]
BY DEF Passes, LinksInv, LinksTypeOK

\* The pass of a visit whose row was looked for.
LEMMA PassOfDecided ==
  ASSUME NEW visit \in VisitState, visit.phase # "select"
  PROVE  PassOf(visit) = [phase |-> Decision(visit.phase),
                          token |-> visit.token, email |-> visit.email]
BY MagicLinksAssumption DEF PassOf, At

\* Each step is a step of one-time links or leaves tokens and passes be.
LEMMA StepRefinesOneTimeLinks ==
  ASSUME LinksInv, LinksInv', [LinksNext]_<<now, linkVars>>
  PROVE  [OneTime!OneTimeLinksNext]_<<Current, Passes>>
<1> USE MagicLinksAssumption DEF At
<1>1. CASE UNCHANGED linkVars
  BY <1>1 DEF linkVars, Current, Passes
<1>2. ASSUME NEW s \in Send, SendStep(s)
      PROVE  [OneTime!OneTimeLinksNext]_<<Current, Passes>>
  <2>1. UNCHANGED Passes
    BY <1>2 DEF SendStep, StartSend, StoreLink, StoreFails, MailLink, Passes
  <2>2. CASE UNCHANGED links
    BY <2>1, <2>2 DEF Current
  <2>3. CASE Upsert(s) /\ (At(sends[s], "store") \/ At(sends[s], "retry"))
    <3> DEFINE e == sends[s].email
    <3>1. e \in Email
      BY <2>3 DEF LinksInv, LinksTypeOK, SendState
    <3>2. \A v \in Visit : visits[v] # None => visits[v].token # s
      BY <2>3 DEF LinksInv, VisitsAfterMail
    <3>3. \A v \in Visit : Passes[v] # None => Passes[v].token # s
      BY <3>2 DEF Passes, PassOf
    <3>4. Current' = [Current EXCEPT ![e] = s]
      <4>1. [token |-> s, expiresAt |-> sends[s].expiresAt] \in Row
        BY <2>3 DEF LinksInv, LinksTypeOK, SendState, Row
      <4> QED
        BY <2>3, <3>1, <4>1 DEF Upsert, Current, LinksInv, LinksTypeOK
    <3>5. OneTime!Issue(e, s)
      BY <2>1, <3>3, <3>4 DEF OneTime!Issue, Current, Passes, PassOf
    <3> QED
      BY <3>1, <3>5 DEF OneTime!OneTimeLinksNext
  <2> QED
    BY <1>2, <2>2, <2>3 DEF SendStep, StartSend, StoreLink, StoreFails, MailLink
<1>3. ASSUME NEW v \in Visit, VisitStep(v)
      PROVE  [OneTime!OneTimeLinksNext]_<<Current, Passes>>
  <2> DEFINE e == visits[v].email
             t == visits[v].token
  <2>1. CASE OpenLink(v)
    <3>1. UNCHANGED Passes
      BY <2>1 DEF OpenLink, Passes, PassOf, LinksInv, LinksTypeOK
    <3> QED
      BY <2>1, <3>1 DEF OpenLink, Current
  <2>2. CASE SelectLink(v)
    <3>1. e \in Email /\ links[e] # None /\ links[e].token = t
      BY <2>2 DEF SelectLink, LinksInv, LinksTypeOK, VisitState
    <3>2. Passes' = [Passes EXCEPT ![v] =
                       [phase |-> "granted", token |-> t, email |-> e]]
      <4> DEFINE visit == [visits[v] EXCEPT !.phase = "check", !.found = links[e]]
      <4>1. /\ visit \in VisitState /\ visit.phase = "check"
            /\ visit.token = t /\ visit.email = e
        BY <2>2 DEF SelectLink, LinksInv, LinksTypeOK, VisitState
      <4>2. visits' = [visits EXCEPT ![v] = visit]
        BY <2>2 DEF SelectLink
      <4> HIDE DEF visit
      <4> QED
        BY <4>1, <4>2, PassMoves, PassOfDecided DEF Decision
    <3>3. Passes[v] = None /\ Current[e] = t /\ Current[e] # None
      BY <2>2, <3>1 DEF SelectLink, Passes, PassOf, Current, LinksInv, LinksTypeOK, Row
    <3>4. UNCHANGED Current
      BY <2>2 DEF SelectLink, Current
    <3>5. PICK f \in Email : f = e
      BY <3>1
    <3>6. OneTime!Grant(v, f)
      BY <3>2, <3>3, <3>4, <3>5 DEF OneTime!Grant, Current, Passes, PassOf
    <3> QED
      BY <3>6 DEF OneTime!OneTimeLinksNext
  <2>3. CASE RejectLink(v) \/ (CheckExpiry(v) /\ At(visits'[v], "rejected"))
    <3>1. e \in Email /\ t \in Send
      BY <2>3 DEF RejectLink, CheckExpiry, LinksInv, LinksTypeOK, VisitState
    <3>2. Passes' = [Passes EXCEPT ![v] =
                       [phase |-> "refused", token |-> t, email |-> e]]
      <4> DEFINE visit == [visits[v] EXCEPT !.phase = "rejected"]
      <4>1. /\ visit \in VisitState /\ visit.phase = "rejected"
            /\ visit.token = t /\ visit.email = e
        BY <2>3 DEF RejectLink, CheckExpiry, LinksInv, LinksTypeOK, VisitState
      <4>2. visits' = [visits EXCEPT ![v] = visit]
        BY <2>3 DEF RejectLink, CheckExpiry, LinksInv, LinksTypeOK, VisitState
      <4> HIDE DEF visit
      <4> QED
        BY <4>1, <4>2, PassMoves, PassOfDecided DEF Decision
    <3>3. Passes[v] \in {None, [phase |-> "granted", token |-> t, email |-> e]}
      BY <2>3 DEF RejectLink, CheckExpiry, Passes, PassOf, Decision
    <3>4. UNCHANGED Current
      BY <2>3 DEF RejectLink, CheckExpiry, Current
    <3>5. PICK f \in Email, i \in Send : f = e /\ i = t
      BY <3>1
    <3>6. OneTime!Refuse(v, f, i)
      BY <3>2, <3>3, <3>4, <3>5 DEF OneTime!Refuse, Current, Passes, PassOf
    <3> QED
      BY <3>6 DEF OneTime!OneTimeLinksNext
  <2>4. CASE CheckExpiry(v) /\ ~At(visits'[v], "rejected")
    <3>1. UNCHANGED Passes
      BY <2>4 DEF CheckExpiry, Passes, PassOf, Decision, LinksInv, LinksTypeOK, VisitState
    <3> QED
      BY <2>4, <3>1 DEF CheckExpiry, Current
  <2>5. CASE DeleteLink(v)
    <3>1. e \in Email /\ t \in Send
      BY <2>5 DEF DeleteLink, LinksInv, LinksTypeOK, VisitState
    <3>2. Passes[v] = [phase |-> "granted", token |-> t, email |-> e]
      BY <2>5 DEF DeleteLink, Passes, PassOf, Decision
    <3>3. Passes' = [Passes EXCEPT ![v] =
                       [phase |-> "in", token |-> t, email |-> e]]
      <4> DEFINE visit == [visits[v] EXCEPT !.phase = "answered"]
      <4>1. /\ visit \in VisitState /\ visit.phase = "answered"
            /\ visit.token = t /\ visit.email = e
        BY <2>5 DEF DeleteLink, LinksInv, LinksTypeOK, VisitState
      <4>2. visits' = [visits EXCEPT ![v] = visit]
        BY <2>5 DEF DeleteLink
      <4> HIDE DEF visit
      <4> QED
        BY <4>1, <4>2, PassMoves, PassOfDecided DEF Decision
    <3>4. Current' \in {Current, [Current EXCEPT ![e] = None]}
      BY <2>5, <3>1 DEF DeleteLink, Current, LinksInv, LinksTypeOK
    <3>5. PICK f \in Email, i \in Send : f = e /\ i = t
      BY <3>1
    <3>6. OneTime!SignIn(v, f, i)
      BY <3>2, <3>3, <3>4, <3>5 DEF OneTime!SignIn, Current, Passes, PassOf
    <3> QED
      BY <3>6 DEF OneTime!OneTimeLinksNext
  <2> QED
    BY <1>3, <2>1, <2>2, <2>3, <2>4, <2>5 DEF VisitStep
<1> QED
  BY <1>1, <1>2, <1>3 DEF LinksNext, LinksStep, SendStep, VisitStep, linkVars

\* The handlers implement one-time links.
THEOREM LinksAreOneTime == LinksSpec => ImplementsOneTimeLinks
<1>1. LinksInit => OneTime!OneTimeLinksInit
  BY DEF LinksInit, OneTime!OneTimeLinksInit
<1>2. LinksInv /\ LinksInv' /\ [LinksNext]_<<now, linkVars>>
        => [OneTime!OneTimeLinksNext]_<<Current, Passes>>
  BY StepRefinesOneTimeLinks
<1> QED
  BY LinksInvariance, <1>1, <1>2, PTL
  DEF LinksSpec, ImplementsOneTimeLinks, OneTime!OneTimeLinksSpec, Current, Passes, PassOf

-----------------------------------------------------------------------------
(* API keys.                                                               *)

LEMMA KeysKeepTypes ==
  ASSUME KeysInv, KeysStep
  PROVE  KeysTypeOK'
<1> USE ApiKeysAssumption DEF KeysInv, KeysTypeOK, At
<1>1. ASSUME NEW c \in Call, Arrive(c) PROVE KeysTypeOK'
  <2>1. PICK k \in Key \cup {None} :
          calls' = [calls EXCEPT ![c] =
                      [phase |-> "auth", key |-> k, row |-> None,
                       late |-> k = None \/ keys[k] = None]]
    BY <1>1 DEF Arrive
  <2>2. [phase |-> "auth", key |-> k, row |-> None,
         late |-> k = None \/ keys[k] = None] \in CallState
    BY DEF CallState
  <2> QED
    BY <1>1, <2>1, <2>2 DEF Arrive
<1>2. ASSUME NEW c \in Call, Admit(c) PROVE KeysTypeOK'
  <2>1. calls[c] \in CallState
    BY <1>2 DEF Admit
  <2>2. enableAuth => calls[c].key \in Key
    BY <1>2, <2>1 DEF Admit, Valid, CallState
  <2> QED
    BY <1>2, <2>1, <2>2 DEF Admit, CallState
<1>3. ASSUME NEW c \in Call, Refuse(c) PROVE KeysTypeOK'
  BY <1>3 DEF Refuse, CallState
<1>4. ASSUME NEW k \in Key, Touch(k) PROVE KeysTypeOK'
  <2>1. \A i \in Key : keys[i] # None => [keys[i] EXCEPT !.used = TRUE] \in KeyRow
    BY DEF KeyRow
  <2> QED
    BY <1>4, <2>1 DEF Touch
<1>5. ASSUME NEW c \in Create, EnsureOrganization(c) PROVE KeysTypeOK'
  <2>1. c \in Call /\ calls[c] \in CallState
    BY <1>5 DEF EnsureOrganization
  <2>2. PICK o \in Org, until \in {None, now + KeyLife} :
          /\ \/ organizations' = [organizations EXCEPT ![o] = "demo"]
             \/ UNCHANGED organizations
          /\ calls' = [calls EXCEPT ![c].phase = "insert",
                         ![c].row = [org |-> o, expiresAt |-> until, used |-> FALSE]]
    BY <1>5 DEF EnsureOrganization
  <2> DEFINE row == [org |-> o, expiresAt |-> until, used |-> FALSE]
  <2>3. row \in KeyRow
    BY DEF KeyRow
  <2> HIDE DEF row
  <2>4. [calls[c] EXCEPT !.phase = "insert", !.row = row] \in CallState
    BY <2>1, <2>3 DEF CallState
  <2>5. calls' \in [Call -> CallState \cup {None}]
    BY <2>1, <2>2, <2>4 DEF row
  <2>6. organizations' \in [Org -> Slug \cup {None}]
    BY <2>2 DEF Slug
  <2> QED
    BY <1>5, <2>5, <2>6 DEF EnsureOrganization
<1>6. ASSUME NEW c \in Create, InsertKey(c) \/ InsertKeyFails(c) PROVE KeysTypeOK'
  <2>1. /\ c \in Call /\ c \in Key /\ calls[c] \in CallState
        /\ calls[c].row \in KeyRow
    BY <1>6 DEF InsertKey, InsertKeyFails, KeysOfCalls, Key, CallState
  <2>2. /\ [calls[c] EXCEPT !.phase = "answered"] \in CallState
        /\ [calls[c] EXCEPT !.phase = "failed"] \in CallState
    BY <2>1 DEF CallState
  <2> QED
    BY <1>6, <2>1, <2>2 DEF InsertKey, InsertKeyFails
<1>7. ASSUME NEW c \in Delete, DeleteKey(c) \/ DeleteKeyFails(c) PROVE KeysTypeOK'
  <2>1. c \in Call /\ calls[c] \in CallState
    BY <1>7 DEF DeleteKey, DeleteKeyFails
  <2>2. /\ [calls[c] EXCEPT !.phase = "answered"] \in CallState
        /\ [calls[c] EXCEPT !.phase = "failed"] \in CallState
    BY <2>1 DEF CallState
  <2> QED
    BY <1>7, <2>1, <2>2 DEF DeleteKey, DeleteKeyFails
<1> QED
  BY <1>1, <1>2, <1>3, <1>4, <1>5, <1>6, <1>7 DEF KeysStep

\* A step leaves a call alone or is that call's own.
LEMMA StepsOfACall ==
  ASSUME KeysInv, KeysStep, NEW c \in Call
  PROVE  \/ calls'[c] = calls[c]
         \/ Arrive(c) \/ Admit(c) \/ Refuse(c)
         \/ c \in Create /\ (EnsureOrganization(c) \/ InsertKey(c) \/ InsertKeyFails(c))
         \/ c \in Delete /\ (DeleteKey(c) \/ DeleteKeyFails(c))
<1> USE ApiKeysAssumption DEF KeysInv, KeysTypeOK
<1>1. ASSUME NEW d \in Call, Arrive(d) \/ Admit(d) \/ Refuse(d), c # d
      PROVE  calls'[c] = calls[c]
  BY <1>1 DEF Arrive, Admit, Refuse
<1>2. ASSUME NEW k \in Key, Touch(k) PROVE calls'[c] = calls[c]
  BY <1>2 DEF Touch
<1>3. ASSUME NEW d \in Create, c # d,
             EnsureOrganization(d) \/ InsertKey(d) \/ InsertKeyFails(d)
      PROVE  calls'[c] = calls[c]
  BY <1>3 DEF EnsureOrganization, InsertKey, InsertKeyFails
<1>4. ASSUME NEW d \in Delete, DeleteKey(d) \/ DeleteKeyFails(d), c # d
      PROVE  calls'[c] = calls[c]
  BY <1>4 DEF DeleteKey, DeleteKeyFails
<1> QED
  BY <1>1, <1>2, <1>3, <1>4 DEF KeysStep

\* Calls only move on, and answered ones stay: a known key stays known.
LEMMA CallsMoveOn ==
  ASSUME KeysInv, KeysStep, NEW c \in Call, calls[c] # None
  PROVE  /\ calls'[c] # None
         /\ calls'[c].key = calls[c].key /\ calls'[c].late = calls[c].late
         /\ calls[c].phase \in {"answered", "failed", "refused"} => calls'[c] = calls[c]
<1> USE ApiKeysAssumption DEF KeysInv, KeysTypeOK, At, CallState
<1>1. CASE Arrive(c) \/ Admit(c) \/ Refuse(c)
  BY <1>1 DEF Arrive, Admit, Refuse
<1>2. CASE EnsureOrganization(c)
  <2>1. PICK o \in Org, until \in {None, now + KeyLife} :
          calls' = [calls EXCEPT ![c].phase = "insert",
                      ![c].row = [org |-> o, expiresAt |-> until, used |-> FALSE]]
    BY <1>2 DEF EnsureOrganization
  <2> DEFINE row == [org |-> o, expiresAt |-> until, used |-> FALSE]
  <2>2. row \in KeyRow
    BY DEF KeyRow
  <2> HIDE DEF row
  <2>3. calls[c].phase = "handler" /\ calls[c] \in CallState
    BY <1>2 DEF EnsureOrganization
  <2>4. [calls[c] EXCEPT !.phase = "insert", !.row = row] \in CallState
    BY <2>2, <2>3
  <2>5. calls'[c] = [calls[c] EXCEPT !.phase = "insert", !.row = row]
    BY <2>1 DEF row
  <2> QED
    BY <2>3, <2>4, <2>5
<1>3. CASE InsertKey(c) \/ InsertKeyFails(c)
  BY <1>3 DEF InsertKey, InsertKeyFails
<1>4. CASE DeleteKey(c) \/ DeleteKeyFails(c)
  BY <1>4 DEF DeleteKey, DeleteKeyFails
<1>5. CASE calls'[c] = calls[c]
  BY <1>5
<1> QED
  BY <1>1, <1>2, <1>3, <1>4, <1>5, StepsOfACall, Zenon

\* A row appears only when the call that generated its key inserts it.
LEMMA RowsAppearOnce ==
  ASSUME KeysInv, KeysTypeOK', KeysStep, NEW k \in Key, keys[k] = None, keys'[k] # None
  PROVE  k \in Create /\ calls[k] # None /\ calls[k].phase = "insert"
<1> USE ApiKeysAssumption DEF KeysInv, KeysTypeOK, At
<1>1. CASE \E d \in Call : Arrive(d) \/ Admit(d) \/ Refuse(d)
  BY <1>1 DEF Arrive, Admit, Refuse
<1>2. CASE \E i \in Key : Touch(i)
  BY <1>2 DEF Touch
<1>3. CASE \E d \in Create : EnsureOrganization(d) \/ InsertKey(d) \/ InsertKeyFails(d)
  BY <1>3 DEF EnsureOrganization, InsertKey, InsertKeyFails
<1>4. CASE \E d \in Delete : DeleteKey(d) \/ DeleteKeyFails(d)
  BY <1>4 DEF DeleteKey, DeleteKeyFails
<1> QED
  BY <1>1, <1>2, <1>3, <1>4 DEF KeysStep

\* A known key stays known, so a key that is gone when it is presented stays
\* gone.
LEMMA KeysComeOnce ==
  ASSUME KeysInv, KeysTypeOK', KeysStep
  PROVE  KeysOfCalls'
<1> USE ApiKeysAssumption DEF KeysInv, KeysTypeOK, At
<1>1. ASSUME NEW k \in Create, keys'[k] # None
      PROVE  calls'[k] # None /\ calls'[k].phase \in {"answered", "failed"}
  <2>1. k \in Call /\ k \in Key
    BY DEF Key
  <2>2. CASE keys[k] # None
    BY <2>1, <2>2, CallsMoveOn DEF KeysOfCalls
  <2>3. CASE keys[k] = None
    <3>1. calls[k] # None /\ calls[k].phase = "insert"
      BY <1>1, <2>1, <2>3, RowsAppearOnce
    <3>2. calls[k] \in CallState
      BY <2>1, <3>1
    <3>3. UNCHANGED keys \/ InsertKey(k) \/ InsertKeyFails(k)
      <4>1. CASE calls'[k] = calls[k]
        <5>1. ~InsertKey(k) /\ ~InsertKeyFails(k)
          BY <3>2, <4>1 DEF InsertKey, InsertKeyFails, CallState
        <5> QED
          BY <1>1, <2>1, <2>3, <5>1
          DEF KeysStep, Arrive, Admit, Refuse, Touch, EnsureOrganization, InsertKey,
              InsertKeyFails, DeleteKey, DeleteKeyFails
      <4> QED
        BY <2>1, <3>1, <3>2, <4>1, StepsOfACall
        DEF Arrive, Admit, Refuse, EnsureOrganization, DeleteKey, DeleteKeyFails
    <3> QED
      BY <1>1, <2>1, <2>3, <3>1, <3>2, <3>3 DEF InsertKey, InsertKeyFails, CallState
  <2> QED
    BY <2>2, <2>3
<1>2. \A k \in Key : Known(k) => Known(k)'
  BY CallsMoveOn DEF Known, Key
<1>3. ASSUME NEW c \in Call, calls'[c] # None, calls[c] = None
      PROVE  /\ calls'[c].phase = "auth"
             /\ calls'[c].key # None => Known(calls'[c].key)
             /\ calls'[c].late /\ calls'[c].key # None => keys[calls'[c].key] = None
             /\ UNCHANGED keys
  <2>1. Arrive(c)
    BY <1>3, StepsOfACall
    DEF Admit, Refuse, EnsureOrganization, InsertKey, InsertKeyFails, DeleteKey,
        DeleteKeyFails
  <2>2. PICK k \in {k \in Key : Known(k)} \cup {None} :
          calls' = [calls EXCEPT ![c] =
                      [phase |-> "auth", key |-> k, row |-> None,
                       late |-> k = None \/ keys[k] = None]]
    BY <2>1 DEF Arrive
  <2> DEFINE gone == k = None \/ keys[k] = None
  <2>3. gone /\ k # None => keys[k] = None
    OBVIOUS
  <2> HIDE DEF gone
  <2>4. calls'[c] = [phase |-> "auth", key |-> k, row |-> None, late |-> gone]
    BY <2>2 DEF gone
  <2>5. calls'[c].phase = "auth" /\ calls'[c].key = k /\ (calls'[c].late => gone)
    BY <2>4
  <2> QED
    BY <2>1, <2>2, <2>3, <2>5 DEF Arrive
<1>4. ASSUME NEW c \in Call, calls'[c] # None, calls'[c].phase = "insert"
      PROVE  c \in Create /\ calls'[c].row # None
  <2>1. calls[c] # None
    BY <1>3, <1>4
  <2>2. calls[c] \in CallState
    BY <2>1
  <2>3. CASE calls[c].phase = "insert"
    <3>1. ~InsertKey(c) /\ ~InsertKeyFails(c)
      BY <1>4, <2>1, <2>2 DEF InsertKey, InsertKeyFails, CallState
    <3>2. calls'[c] = calls[c]
      BY <2>1, <2>3, <3>1, StepsOfACall
      DEF Arrive, Admit, Refuse, EnsureOrganization, DeleteKey, DeleteKeyFails
    <3> QED
      BY <2>1, <2>3, <3>2 DEF KeysOfCalls
  <2>4. CASE calls[c].phase # "insert"
    <3>1. c \in Create /\ EnsureOrganization(c)
      BY <1>4, <2>1, <2>2, <2>4, StepsOfACall
      DEF Arrive, Admit, Refuse, InsertKey, InsertKeyFails, DeleteKey, DeleteKeyFails,
          CallState
    <3>2. PICK o \in Org, until \in {None, now + KeyLife} :
            calls' = [calls EXCEPT ![c].phase = "insert",
                        ![c].row = [org |-> o, expiresAt |-> until, used |-> FALSE]]
      BY <3>1 DEF EnsureOrganization
    <3>3. [org |-> o, expiresAt |-> until, used |-> FALSE] \in KeyRow
      BY DEF KeyRow
    <3>4. calls'[c].row = [org |-> o, expiresAt |-> until, used |-> FALSE]
      BY <2>2, <3>2 DEF CallState
    <3> QED
      BY <3>1, <3>3, <3>4
  <2> QED
    BY <2>3, <2>4
<1>5. ASSUME NEW c \in Call, calls'[c] # None, calls'[c].key # None
      PROVE  /\ Known(calls'[c].key)
             /\ calls'[c].key \in Key
             /\ calls'[c].late => keys'[calls'[c].key] = None
  <2>1. PICK k \in Key : k = calls'[c].key
    BY <1>5 DEF CallState
  <2>2. Known(k) /\ (calls'[c].late => keys[k] = None)
    BY <1>3, <1>5, <2>1, CallsMoveOn DEF KeysOfCalls
  <2>3. keys[k] = None => keys'[k] = None
    BY <2>2, RowsAppearOnce DEF Known, Key
  <2> QED
    BY <2>1, <2>2, <2>3
<1>6. ASSUME NEW c \in Call, calls'[c] # None, calls'[c].key # None
      PROVE  \/ calls'[c].key \in FirstKey
             \/ At(calls'[calls'[c].key], "answered")
  <2>1. PICK k \in Key : k = calls'[c].key
    BY <1>5, <1>6
  <2>2. Known(k)'
    BY <1>2, <1>5, <1>6, <2>1
  <2> QED
    BY <2>1, <2>2 DEF Known
<1> QED
  BY <1>1, <1>4, <1>5, <1>6 DEF KeysOfCalls, Known

\* Rows of organizations stay, and only one is made under the slug demo.
LEMMA OrganizationsStay ==
  ASSUME KeysInv, KeysTypeOK', KeysStep
  PROVE  KeysHaveOrganizations'
<1> USE ApiKeysAssumption DEF KeysInv, KeysTypeOK, KeysHaveOrganizations, At
<1>1. CASE \E d \in Call : Arrive(d) \/ Admit(d) \/ Refuse(d)
  BY <1>1 DEF Arrive, Admit, Refuse
<1>2. ASSUME NEW k \in Key, Touch(k) PROVE KeysHaveOrganizations'
  <2>1. \A i \in Key : keys'[i] # None => keys[i] # None /\ keys'[i].org = keys[i].org
    BY <1>2 DEF Touch, KeyRow
  <2> QED
    BY <1>2, <2>1 DEF Touch
<1>3. ASSUME NEW d \in Create, EnsureOrganization(d) PROVE KeysHaveOrganizations'
  <2>1. UNCHANGED keys
    BY <1>3 DEF EnsureOrganization
  <2>2. \/ UNCHANGED organizations
        \/ \E o \in Org :
             /\ \A p \in Org : organizations[p] # "demo"
             /\ organizations' = [organizations EXCEPT ![o] = "demo"]
    BY <1>3 DEF EnsureOrganization
  <2>3. "demo" # None
    BY DEF Slug
  <2>4. \A o \in Org : organizations[o] # None => organizations'[o] # None
    BY <2>2, <2>3
  <2>5. \A k \in Key : keys'[k] # None => keys'[k].org \in Org
    BY DEF KeyRow
  <2>6. \A k \in Key : keys'[k] # None => organizations'[keys'[k].org] # None
    BY <2>1, <2>4, <2>5
  <2>7. \A o, p \in Org :
          organizations'[o] = "demo" /\ organizations'[p] = "demo" => o = p
    BY <2>2
  <2> QED
    BY <2>6, <2>7
<1>4. ASSUME NEW d \in Create, InsertKey(d) \/ InsertKeyFails(d)
      PROVE  KeysHaveOrganizations'
  <2>1. /\ UNCHANGED organizations
        /\ \/ UNCHANGED keys
           \/ /\ organizations[calls[d].row.org] # None
              /\ keys' = [keys EXCEPT ![d] = calls[d].row]
    BY <1>4 DEF InsertKey, InsertKeyFails
  <2>2. CASE UNCHANGED keys
    BY <2>1, <2>2
  <2>3. CASE /\ organizations[calls[d].row.org] # None
             /\ keys' = [keys EXCEPT ![d] = calls[d].row]
    <3>1. ASSUME NEW k \in Key, keys'[k] # None PROVE organizations[keys'[k].org] # None
      <4>1. keys'[k] = calls[d].row \/ keys'[k] = keys[k]
        BY <2>3
      <4> QED
        BY <2>3, <3>1, <4>1
    <3> QED
      BY <2>1, <3>1
  <2> QED
    BY <2>1, <2>2, <2>3
<1>5. CASE \E d \in Delete : DeleteKey(d) \/ DeleteKeyFails(d)
  BY <1>5 DEF DeleteKey, DeleteKeyFails
<1> QED
  BY <1>1, <1>2, <1>3, <1>4, <1>5 DEF KeysStep

\* A late call is past its look-up only if it was refused.
LEMMA LateCallsAreRefused ==
  ASSUME KeysInv, KeysTypeOK', KeysStep
  PROVE  DeletedKeyAdmitsNobody'
<1> USE ApiKeysAssumption DEF KeysInv, KeysTypeOK, At
<1>1. UNCHANGED enableAuth
  BY DEF KeysStep, Arrive, Admit, Refuse, Touch, EnsureOrganization, InsertKey,
         InsertKeyFails, DeleteKey, DeleteKeyFails
<1>2. ASSUME NEW c \in Call, enableAuth, calls'[c] # None, calls'[c].late
      PROVE  calls'[c].phase \in {"auth", "refused"}
  <2>1. CASE calls[c] = None
    <3>1. Arrive(c)
      BY <1>2, <2>1, StepsOfACall
      DEF Admit, Refuse, EnsureOrganization, InsertKey, InsertKeyFails, DeleteKey,
          DeleteKeyFails
    <3> QED
      BY <3>1 DEF Arrive
  <2>2. CASE calls[c] # None
    <3>1. calls[c].late /\ calls[c].phase \in {"auth", "refused"}
      BY <1>2, <2>2, CallsMoveOn DEF DeletedKeyAdmitsNobody
    <3>2. ~Valid(c)
      BY <2>2, <3>1 DEF Valid, KeysOfCalls
    <3>3. calls'[c] = calls[c] \/ Refuse(c)
      BY <1>2, <2>2, <3>1, <3>2, StepsOfACall
      DEF Arrive, Admit, EnsureOrganization, InsertKey, InsertKeyFails, DeleteKey,
          DeleteKeyFails
    <3> QED
      BY <2>2, <3>1, <3>3 DEF Refuse, CallState
  <2> QED
    BY <2>1, <2>2
<1> QED
  BY <1>1, <1>2 DEF DeletedKeyAdmitsNobody

\* Serving a call ends it and disturbs no other.
LEMMA ServingKeeps ==
  ASSUME KeysInv, NEW c \in Call, Serve(c), UNCHANGED now
  PROVE  KeysInv'
<1> USE ApiKeysAssumption DEF KeysInv, KeysTypeOK, Serve, At
<1>1. KeysTypeOK'
  BY DEF CallState
<1>2. \A d \in Call : d # c => calls'[d] = calls[d]
  OBVIOUS
<1>3. /\ calls[c] \in CallState /\ calls'[c] # None /\ calls'[c].phase = "answered"
      /\ calls'[c].key = calls[c].key /\ calls'[c].late = calls[c].late
  BY DEF CallState
<1>4. \A k \in Key : Known(k) => Known(k)'
  BY <1>2, <1>3 DEF Known, Key
<1>5. ASSUME NEW d \in Call, calls'[d] # None
      PROVE  /\ calls'[d].phase = "insert" => d \in Create /\ calls'[d].row # None
             /\ calls'[d].key # None => \/ calls'[d].key \in FirstKey
                                        \/ At(calls'[calls'[d].key], "answered")
             /\ calls'[d].late /\ calls'[d].key # None => keys'[calls'[d].key] = None
  <2>1. calls[d] # None /\ calls'[d].key = calls[d].key /\ calls'[d].late = calls[d].late
    BY <1>2, <1>3, <1>5
  <2>2. calls'[d].phase = "insert" => calls'[d] = calls[d]
    BY <1>2, <1>3
  <2>3. ASSUME calls[d].key # None
        PROVE  calls[d].key \in FirstKey \/ At(calls'[calls[d].key], "answered")
    <3>1. PICK k \in Key : k = calls[d].key
      BY <2>1, <2>3 DEF CallState
    <3>2. Known(k)'
      BY <1>4, <2>1, <2>3, <3>1 DEF KeysOfCalls
    <3> QED
      BY <3>1, <3>2 DEF Known
  <2> QED
    BY <2>1, <2>2, <2>3 DEF KeysOfCalls
<1>6. ASSUME NEW k \in Create, keys'[k] # None
      PROVE  calls'[k] # None /\ calls'[k].phase \in {"answered", "failed"}
  BY <1>2, <1>6 DEF KeysOfCalls
<1>7. KeysOfCalls'
  BY <1>5, <1>6 DEF KeysOfCalls, Known
<1>8. KeysHaveOrganizations'
  BY DEF KeysHaveOrganizations
<1>9. DeletedKeyAdmitsNobody'
  BY <1>2, <1>3 DEF DeletedKeyAdmitsNobody
<1> QED
  BY <1>1, <1>7, <1>8, <1>9

\* The history of a call and the table of keys agree at every step.
THEOREM KeysInvariance == KeysSpec => []KeysInv
<1>1. KeysInit => KeysInv
  <2> SUFFICES ASSUME KeysInit PROVE KeysInv
    OBVIOUS
  <2> USE ApiKeysAssumption DEF KeysInit
  <2>1. KeysTypeOK
    <3>1. keys \in [Key -> KeyRow \cup {None}]
      BY DEF KeyRow
    <3> QED
      BY <3>1 DEF KeysTypeOK, Slug
  <2>2. KeysOfCalls /\ DeletedKeyAdmitsNobody
    BY DEF KeysOfCalls, DeletedKeyAdmitsNobody
  <2>3. KeysHaveOrganizations
    BY DEF KeysHaveOrganizations, Slug
  <2> QED
    BY <2>1, <2>2, <2>3 DEF KeysInv
<1>2. KeysInv /\ [KeysNext]_<<now, keyVars>> => KeysInv'
  <2> SUFFICES ASSUME KeysInv, [KeysNext]_<<now, keyVars>> PROVE KeysInv'
    OBVIOUS
  <2>1. CASE UNCHANGED keyVars /\ (Tick \/ UNCHANGED now)
    BY <2>1 DEF keyVars, Tick, KeysInv, KeysTypeOK, KeysOfCalls, Known,
                KeysHaveOrganizations, DeletedKeyAdmitsNobody
  <2>2. CASE KeysStep
    BY <2>2, KeysKeepTypes, KeysComeOnce, OrganizationsStay, LateCallsAreRefused
    DEF KeysInv
  <2>3. CASE \E c \in Call : Serve(c) /\ UNCHANGED now
    BY <2>3, ServingKeeps
  <2> QED
    BY <2>1, <2>2, <2>3 DEF KeysNext, keyVars
<1> QED
  BY <1>1, <1>2, PTL DEF KeysSpec

\* With authentication on, a key deleted before a call arrives does not admit it.
THEOREM DeletedKeysAdmitNobody == KeysSpec => []DeletedKeyAdmitsNobody
<1>1. KeysInv => DeletedKeyAdmitsNobody
  BY DEF KeysInv
<1> QED
  BY KeysInvariance, <1>1, PTL

-----------------------------------------------------------------------------
(* Both together.                                                          *)

\* The composed service implements each of its parts, so what was proved of them
\* holds of it.
THEOREM ImplementsParts == Spec => LinksSpec /\ KeysSpec
<1>1. Init => LinksInit /\ KeysInit
  BY DEF Init
<1>2. [Next]_serviceVars => [LinksNext]_<<now, linkVars>>
  <2> SUFFICES ASSUME [Next]_serviceVars PROVE [LinksNext]_<<now, linkVars>>
    OBVIOUS
  <2>1. ASSUME KeysStep PROVE UNCHANGED now
    BY <2>1 DEF KeysStep, Arrive, Admit, Refuse, Touch, EnsureOrganization, InsertKey,
                InsertKeyFails, DeleteKey, DeleteKeyFails
  <2> QED
    BY <2>1 DEF Next, LinksNext, linkVars, keyVars, serviceVars
<1>3. [Next]_serviceVars => [KeysNext]_<<now, keyVars>>
  <2> SUFFICES ASSUME [Next]_serviceVars PROVE [KeysNext]_<<now, keyVars>>
    OBVIOUS
  <2>1. ASSUME LinksStep PROVE UNCHANGED now
    BY <2>1 DEF LinksStep, StoreLink, StoreFails, MailLink, SelectLink, RejectLink,
                CheckExpiry, DeleteLink
  <2>2. ASSUME NEW s \in Send, StartSend(s), Serve(s)
        PROVE  s \in Call /\ UNCHANGED now
    BY <2>2, ServiceAuthAssumption DEF StartSend
  <2>3. ASSUME NEW v \in Visit, OpenLink(v), Serve(v)
        PROVE  v \in Call /\ UNCHANGED now
    BY <2>3, ServiceAuthAssumption DEF OpenLink
  <2> QED
    BY <2>1, <2>2, <2>3 DEF Next, KeysNext, linkVars, keyVars, serviceVars
<1> QED
  BY <1>1, <1>2, <1>3, PTL DEF Spec, LinksSpec, KeysSpec

\* The composed service implements one-time links.
THEOREM ServiceLinksAreOneTime == Spec => ImplementsOneTimeLinks
BY ImplementsParts, LinksAreOneTime, PTL
=============================================================================
