---------------------------- MODULE ServiceAuth ----------------------------
(***************************************************************************)
(* The billing service's sign-in behind its API keys: main.go registers    *)
(* the routes of MagicLinks on the router of which ApiKeys models the      *)
(* middleware, so a send or a visit begins when its call is admitted.      *)
(***************************************************************************)
EXTENDS MagicLinks, ApiKeys

ASSUME ServiceAuthAssumption ==
  /\ Send \cup Visit \subseteq Call \ (Create \cup Delete)
  /\ Send \cap Visit = {}

serviceVars == <<now, linkVars, keyVars>>

Init == LinksInit /\ KeysInit

Next ==
  \/ Tick /\ UNCHANGED <<linkVars, keyVars>>
  \/ \E s \in Send : StartSend(s) /\ Serve(s)
  \/ \E v \in Visit : OpenLink(v) /\ Serve(v)
  \/ LinksStep /\ UNCHANGED keyVars
  \/ KeysStep /\ UNCHANGED linkVars

Spec == Init /\ [][Next]_serviceVars

-----------------------------------------------------------------------------
(* What the repository says of these routes and the code does not do.      *)

\* billing-service/main.go:119, "Auth endpoints (public)": a request for a
\* sign-in link, or a visit with one, is not refused for having no API key.
PublicRoutesAreOpen ==
  \A c \in Send \cup Visit :
    calls[c] # None /\ calls[c].key = None => calls[c].phase # "refused"
=============================================================================
