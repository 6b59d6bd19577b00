---------------------------- MODULE OneTimeLinks ----------------------------
(***************************************************************************)
(* What sign-in links promise, apart from time and failures: each address  *)
(* has at most one current token, a pass is granted only against it, a     *)
(* sign-in takes the current token away, and a token for which somebody    *)
(* asked for a pass is never issued again.  MagicLinks implements it.      *)
(***************************************************************************)
CONSTANTS Email, Token, Visit, None

VARIABLES
  current,  \* the token of each address, or None
  passes    \* what each visit was told, or None

Pass ==
  [phase : {"granted", "in", "refused"}, token : Token, email : Email]

OneTimeLinksTypeOK ==
  /\ current \in [Email -> Token \cup {None}]
  /\ passes \in [Visit -> Pass \cup {None}]

OneTimeLinksInit ==
  /\ current = [e \in Email |-> None]
  /\ passes = [v \in Visit |-> None]

\* A new token takes the place of the one before.
Issue(e, t) ==
  /\ \A v \in Visit : passes[v] # None => passes[v].token # t
  /\ current' = [current EXCEPT ![e] = t]
  /\ UNCHANGED passes

Grant(v, e) ==
  /\ passes[v] = None
  /\ current[e] # None
  /\ passes' = [passes EXCEPT ![v] =
                  [phase |-> "granted", token |-> current[e], email |-> e]]
  /\ UNCHANGED current

\* The address loses whatever token it has by now, or, when the store fails,
\* keeps it.
SignIn(v, e, t) ==
  /\ passes[v] = [phase |-> "granted", token |-> t, email |-> e]
  /\ current' \in {current, [current EXCEPT ![e] = None]}
  /\ passes' = [passes EXCEPT ![v] =
                  [phase |-> "in", token |-> t, email |-> e]]

Refuse(v, e, t) ==
  /\ \/ passes[v] = None
     \/ passes[v] = [phase |-> "granted", token |-> t, email |-> e]
  /\ passes' = [passes EXCEPT ![v] =
                  [phase |-> "refused", token |-> t, email |-> e]]
  /\ UNCHANGED current

OneTimeLinksNext ==
  \/ \E e \in Email, t \in Token : Issue(e, t)
  \/ \E v \in Visit, e \in Email : Grant(v, e)
  \/ \E v \in Visit, e \in Email, t \in Token : SignIn(v, e, t) \/ Refuse(v, e, t)

OneTimeLinksSpec == OneTimeLinksInit /\ [][OneTimeLinksNext]_<<current, passes>>
=============================================================================
