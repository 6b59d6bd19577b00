----------------------- MODULE MCNamespaceProvisioning -----------------------
(***************************************************************************)
(* Small instances of NamespaceProvisioning: two requests compete for one  *)
(* name, a third one asks for a name of its own.                           *)
(***************************************************************************)
EXTENDS NamespaceProvisioning, TLC

CONSTANTS r1, r2, r3, n1, n2

MCNameOf == r1 :> n1 @@ r2 :> n1 @@ r3 :> n2

=============================================================================
