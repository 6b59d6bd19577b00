-------------------------- MODULE MCBrowserSession --------------------------
(***************************************************************************)
(* Small instances of BrowserSession.                                      *)
(***************************************************************************)
EXTENDS BrowserSession, TLC

MCSymmetry == Permutations(Tab) \cup Permutations(LoginForm)
=============================================================================
