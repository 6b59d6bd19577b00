--------------------------- MODULE MCSubscriptions ---------------------------
(***************************************************************************)
(* Small instances of Subscriptions.                                       *)
(***************************************************************************)
EXTENDS Subscriptions, TLC

CONSTANTS o1, o2, o3, s1, s2

MCTwoSlugs == o1 :> s1 @@ o2 :> s2

\* Two sign-ups for one name and a third for another.
MCThreeSignUps == o1 :> s1 @@ o2 :> s1 @@ o3 :> s2

\* The two sign-ups for one name are interchangeable, and so are the requests;
\* the properties checked, the refinement among them, are of safety only.
MCSymmetry == Permutations({o1, o2}) \cup Permutations(Update)

MCOneSlug == o1 :> s1

\* A price may be configured for a plan name the service does not list.
MCPlans == {"free", "essential", "legacy"}

MCPriced == {"essential", "legacy"}

MCLegacy == {"free", "legacy"}

MCLegacyPrice == {"legacy"}

MCTwoPlans == {"free", "essential"}

MCOnePrice == {"essential"}
=============================================================================
