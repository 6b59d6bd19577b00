--------------------------- MODULE MCServiceAuth ---------------------------
(***************************************************************************)
(* Small instances of ServiceAuth.                                         *)
(***************************************************************************)
EXTENDS ServiceAuth, TLC

\* All keys share one prefix, so every late update meets every row.
MCPrefixOf == [k \in Key |-> 0]

MCSymmetry ==
  Permutations(Send) \cup Permutations(Visit) \cup Permutations(Email)
    \cup Permutations(Org)
=============================================================================
