--------------------------- MODULE MCSystemProxy ---------------------------
(***************************************************************************)
(* SystemProxy on a small machine.  Settings, markers and tokens are only  *)
(* compared for equality, so states that differ by a renaming of them are  *)
(* the same.                                                               *)
(***************************************************************************)
EXTENDS SystemProxyLoan, TLC

Renamings == Permutations(Ids) \cup Permutations(Owners) \cup Permutations(Tokens)
=============================================================================
