------------------------ MODULE BrowserSessionProofs ------------------------
(***************************************************************************)
(* Proofs about BrowserSession.                                            *)
(***************************************************************************)
EXTENDS BrowserSession, TLAPS

\* The steps that are not the answer to a sign-in.
OtherStep ==
  \/ \E t \in Tab : TabStep(t)
  \/ \E r \in SignIn : Send(r) \/ Fail(r)
  \/ \E c \in Change : SendChange(c) \/ AnswerChange(c)
  \/ ExpireCookie
  \/ UNCHANGED vars

AnswerStep(r) == AnswerLogin(r) \/ AnswerGoogle(r) \/ AnswerEmailLink(r)

\* Every step is one or the other.
LEMMA StepKinds ==
  ASSUME [Next]_vars
  PROVE  OtherStep \/ \E r \in SignIn : AnswerStep(r)
  BY Zenon DEF Next, SignInStep, OtherStep, AnswerStep

\* Every step keeps the types, and that what a tab has found it is about to
\* store.
Storing == \A t \in Tab : tabs[t].found # None => tabs[t].phase = "sync"

LEMMA TypesKept ==
  ASSUME TypeOK, Storing, [Next]_vars
  PROVE  TypeOK' /\ Storing'
<1> USE BrowserSessionAssumption DEF TypeOK, Storing, TabState, ChangeState
<1>1. ASSUME NEW t \in Tab, TabStep(t)
      PROVE  TypeOK' /\ Storing'
  <2>1. CASE Load(t)
    BY <2>1 DEF Load, Shows
  <2>2. CASE ReadCookie(t)
    BY <2>2 DEF ReadCookie, Shows
  <2>3. CASE SyncLocal(t)
    BY <2>3 DEF SyncLocal, Shows
  <2>4. CASE Logout(t)
    BY <2>4 DEF Logout
  <2>5. CASE DropCookie(t)
    BY <2>5 DEF DropCookie, Shows
  <2> QED
    BY <1>1, <2>1, <2>2, <2>3, <2>4, <2>5 DEF TabStep
<1>2. ASSUME NEW r \in SignIn, SignInStep(r)
      PROVE  TypeOK' /\ Storing'
  <2>1. CASE Send(r) \/ Fail(r)
    BY <2>1 DEF Send, Fail
  <2>2. CASE AnswerLogin(r) \/ AnswerGoogle(r)
    BY <2>2 DEF AnswerLogin, AnswerGoogle, Answer
  <2>3. CASE AnswerEmailLink(r)
    BY <2>3 DEF AnswerEmailLink, Answer
  <2> QED
    BY <1>2, <2>1, <2>2, <2>3 DEF SignInStep
<1>3. ASSUME NEW c \in Change, SendChange(c) \/ AnswerChange(c)
      PROVE  TypeOK' /\ Storing'
  BY <1>3 DEF SendChange, AnswerChange
<1>4. CASE ExpireCookie \/ UNCHANGED vars
  BY <1>4 DEF ExpireCookie, vars
<1> QED
  BY <1>1, <1>2, <1>3, <1>4 DEF Next

\* A step that is not the answer to a sign-in holds no session that was not
\* held before.
LEMMA OthersAddNoSession ==
  ASSUME TypeOK, OtherStep, NEW s \in SignIn, Held(s)'
  PROVE  Held(s)
<1> USE BrowserSessionAssumption DEF TypeOK, TabState, ChangeState, Held
<1>1. ASSUME NEW t \in Tab, TabStep(t)
      PROVE  Held(s)
  <2>1. CASE Load(t)
    BY <2>1 DEF Load, Shows
  <2>2. CASE ReadCookie(t)
    BY <2>2 DEF ReadCookie, Shows
  <2>3. CASE SyncLocal(t)
    BY <2>3 DEF SyncLocal, Shows
  <2>4. CASE Logout(t)
    BY <2>4 DEF Logout
  <2>5. CASE DropCookie(t)
    BY <2>5 DEF DropCookie, Shows
  <2> QED
    BY <1>1, <2>1, <2>2, <2>3, <2>4, <2>5 DEF TabStep
<1>2. ASSUME NEW r \in SignIn, Send(r) \/ Fail(r)
      PROVE  Held(s)
  BY <1>2 DEF Send, Fail
<1>3. ASSUME NEW c \in Change, SendChange(c) \/ AnswerChange(c)
      PROVE  Held(s)
  BY <1>3 DEF SendChange, AnswerChange
<1>4. CASE ExpireCookie \/ UNCHANGED vars
  BY <1>4 DEF ExpireCookie, vars
<1> QED
  BY <1>1, <1>2, <1>3, <1>4 DEF OtherStep

\* The answer to a sign-in adds that sign-in and no other session.
LEMMA AnswersAddOne ==
  ASSUME TypeOK, NEW r \in SignIn, AnswerStep(r), NEW s \in SignIn, Held(s)'
  PROVE  Held(s) \/ s = r
<1> USE BrowserSessionAssumption DEF TypeOK, TabState, ChangeState, Held
<1>1. CASE AnswerLogin(r) \/ AnswerGoogle(r)
  BY <1>1 DEF AnswerLogin, AnswerGoogle, Answer
<1>2. CASE AnswerEmailLink(r)
  BY <1>2 DEF AnswerEmailLink, Answer
<1> QED
  BY <1>1, <1>2 DEF AnswerStep

\* A sign-in that succeeded stays so, and one that is answered has succeeded.
LEMMA AnsweredForGood ==
  ASSUME TypeOK, [Next]_vars, NEW s \in SignIn, signIns[s] = "answered"
  PROVE  signIns'[s] = "answered"
<1> USE DEF TypeOK
<1>1. ASSUME NEW t \in Tab, TabStep(t)
      PROVE  signIns'[s] = "answered"
  BY <1>1 DEF TabStep, Load, ReadCookie, SyncLocal, Logout, DropCookie
<1>2. ASSUME NEW r \in SignIn, SignInStep(r)
      PROVE  signIns'[s] = "answered"
  BY <1>2 DEF SignInStep, Send, Fail, AnswerLogin, AnswerGoogle,
              AnswerEmailLink, Answer
<1>3. CASE \/ \E c \in Change : SendChange(c) \/ AnswerChange(c)
           \/ ExpireCookie
           \/ UNCHANGED vars
  BY <1>3 DEF SendChange, AnswerChange, ExpireCookie, vars
<1> QED
  BY <1>1, <1>2, <1>3 DEF Next

LEMMA AnswerSucceeds ==
  ASSUME TypeOK, NEW r \in SignIn, AnswerStep(r)
  PROVE  /\ signIns[r] = "sent"
         /\ signIns'[r] = "answered"
         /\ orderly' = (orderly /\ SignedOut)
  BY DEF AnswerStep, AnswerLogin, AnswerGoogle, AnswerEmailLink, Answer, TypeOK

\* What a page shows after a step is a session, a sign-in just answered, or
\* what some page showed before.
LEMMA UsersShown ==
  ASSUME TypeOK, [Next]_vars, NEW t \in Tab, NEW s \in SignIn,
         tabs'[t].user = s
  PROVE  \/ Held(s)
         \/ tabs[t].user = s
         \/ AnswerStep(s)
<1> USE BrowserSessionAssumption DEF TypeOK, TabState, Held
<1>1. ASSUME NEW u \in Tab, TabStep(u)
      PROVE  Held(s) \/ tabs[t].user = s
  BY <1>1 DEF TabStep, Load, ReadCookie, SyncLocal, Logout, DropCookie, Shows
<1>2. ASSUME NEW r \in SignIn, SignInStep(r)
      PROVE  tabs[t].user = s \/ AnswerStep(s)
  <2>1. CASE AnswerEmailLink(r)
    <3>1. tabs[t].user = s \/ s = r
      BY <2>1 DEF AnswerEmailLink
    <3> QED
      BY <2>1, <3>1 DEF AnswerStep
  <2>2. CASE Send(r) \/ Fail(r) \/ AnswerLogin(r) \/ AnswerGoogle(r)
    BY <2>2 DEF Send, Fail, AnswerLogin, AnswerGoogle
  <2> QED
    BY <1>2, <2>1, <2>2 DEF SignInStep
<1>3. CASE \/ \E c \in Change : SendChange(c) \/ AnswerChange(c)
           \/ ExpireCookie
           \/ UNCHANGED vars
  BY <1>3 DEF SendChange, AnswerChange, ExpireCookie, vars
<1> QED
  BY <1>1, <1>2, <1>3 DEF Next

-----------------------------------------------------------------------------

LEMMA InitIInv ==
  ASSUME Init
  PROVE  IInv /\ Sessions = {}
<1> USE BrowserSessionAssumption DEF Init, Shows
<1>1. TypeOK
  BY DEF TypeOK, TabState, ChangeState
<1>2. Sessions = {}
  BY DEF Sessions, Held
<1> QED
  BY <1>1, <1>2 DEF IInv, SuccessfulSignIns

LEMMA StepIInv ==
  ASSUME IInv, [Next]_vars
  PROVE  IInv'
<1>0. TypeOK /\ Storing /\ SuccessfulSignIns
  BY DEF IInv, Storing
<1>1. TypeOK' /\ Storing'
  BY <1>0, TypesKept
<1>2. ASSUME NEW s \in SignIn, Held(s)'
      PROVE  signIns'[s] = "answered"
  <2>1. CASE Held(s)
    <3>1. signIns[s] = "answered"
      BY <1>0, <2>1 DEF SuccessfulSignIns, Sessions
    <3> QED
      BY <1>0, <3>1, AnsweredForGood
  <2>2. CASE ~Held(s)
    <3>1. PICK r \in SignIn : AnswerStep(r)
      BY <1>0, <1>2, <2>2, StepKinds, OthersAddNoSession
    <3>2. s = r
      BY <1>0, <1>2, <2>2, <3>1, AnswersAddOne
    <3> QED
      BY <1>0, <3>1, <3>2, AnswerSucceeds
  <2> QED
    BY <2>1, <2>2
<1>3. ASSUME NEW t \in Tab, tabs'[t].user # None
      PROVE  signIns'[tabs'[t].user] = "answered"
  <2>1. PICK s \in SignIn : tabs'[t].user = s
    BY <1>1, <1>3 DEF TypeOK, TabState
  <2>2. CASE AnswerStep(s)
    BY <1>0, <2>1, <2>2, AnswerSucceeds
  <2>3. CASE Held(s) \/ tabs[t].user = s
    <3>1. signIns[s] = "answered"
      BY <1>0, <2>3, BrowserSessionAssumption DEF SuccessfulSignIns, Sessions
    <3> QED
      BY <1>0, <2>1, <3>1, AnsweredForGood
  <2> QED
    BY <1>0, <2>1, <2>2, <2>3, UsersShown
<1>4. SuccessfulSignIns'
  BY <1>2, <1>3 DEF SuccessfulSignIns, Sessions
<1> QED
  BY <1>1, <1>4 DEF IInv, Storing

\* Types, and no copy of a session without a sign-in that succeeded: an
\* invariant of every browser, whatever its tabs and requests.
THEOREM Invariance == Spec => []IInv
<1>1. Init => IInv
  BY InitIInv
<1>2. IInv /\ [Next]_vars => IInv'
  BY StepIInv
<1> QED
  BY <1>1, <1>2, PTL DEF Spec

\* Once no copy of a session is left, only a sign-in makes one again.
THEOREM SignedOutForGood == Spec => StaysSignedOut
<1>1. ASSUME IInv, [Next]_vars
      PROVE  SignedOut => \/ SignedOut'
                          \/ \E r \in SignIn :
                               signIns[r] = "sent" /\ signIns'[r] = "answered"
  <2>0. TypeOK
    BY <1>1 DEF IInv
  <2>1. ASSUME NEW r \in SignIn, AnswerStep(r)
        PROVE  signIns[r] = "sent" /\ signIns'[r] = "answered"
    BY <2>0, <2>1, AnswerSucceeds
  <2>2. ASSUME OtherStep, SignedOut
        PROVE  SignedOut'
    BY <2>0, <2>2, OthersAddNoSession DEF SignedOut, Sessions
  <2> QED
    BY <1>1, <2>1, <2>2, StepKinds
<1>2. IInv /\ [Next]_vars =>
        [SignedOut => \/ SignedOut'
                      \/ \E r \in SignIn :
                           signIns[r] = "sent" /\ signIns'[r] = "answered"]_vars
  BY <1>1
<1> QED
  BY Invariance, <1>2, PTL DEF Spec, StaysSignedOut

LEMMA StepOneSession ==
  ASSUME IInv, OneSession, [Next]_vars
  PROVE  OneSession'
<1>0. TypeOK
  BY DEF IInv
<1>1. CASE OtherStep
  <2>1. orderly' = orderly
    BY <1>1 DEF OtherStep, TabStep, Load, ReadCookie, SyncLocal, Logout,
                DropCookie, Send, Fail, SendChange, AnswerChange, ExpireCookie, vars
  <2>2. ASSUME NEW s \in SignIn, Held(s)'
        PROVE  Held(s)
    BY <1>0, <1>1, <2>2, OthersAddNoSession
  <2> QED
    BY <2>1, <2>2 DEF OneSession, Sessions
<1>2. ASSUME NEW r \in SignIn, AnswerStep(r)
      PROVE  OneSession'
  <2>1. orderly' => SignedOut
    BY <1>0, <1>2, AnswerSucceeds
  <2>2. ASSUME NEW s \in SignIn, Held(s)', SignedOut
        PROVE  s = r
    BY <1>0, <1>2, <2>2, AnswersAddOne DEF SignedOut, Sessions
  <2> QED
    BY <2>1, <2>2 DEF OneSession, Sessions
<1> QED
  BY <1>1, <1>2, StepKinds

\* All copies are of one sign-in as long as nobody signs in over a session.
THEOREM OneSessionAlways == Spec => []OneSession
<1>1. Init => OneSession
  BY InitIInv DEF OneSession
<1>2. IInv /\ OneSession /\ [Next]_vars => OneSession'
  BY StepOneSession
<1> QED
  BY <1>1, <1>2, Invariance, PTL DEF Spec
=============================================================================
