----------------------------- MODULE MCSiteAuth -----------------------------
(***************************************************************************)
(* Small instances of SiteAuth.                                            *)
(***************************************************************************)
EXTENDS SiteAuth, TLC

MCSymmetry ==
  Permutations(Email) \cup Permutations(SignUp) \cup Permutations(Visit)
=============================================================================
