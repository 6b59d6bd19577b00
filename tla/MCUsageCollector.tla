-------------------------- MODULE MCUsageCollector --------------------------
(***************************************************************************)
(* Small instances of UsageCollector.                                      *)
(***************************************************************************)
EXTENDS UsageCollector, TLC

MCSymmetry == Permutations(Pod) \cup Permutations(Namespace)
=============================================================================
