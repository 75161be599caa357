--------------------------- MODULE MCKtuctlPeers ---------------------------
(***************************************************************************)
(* Two ktuctl processes at a time.                                         *)
(***************************************************************************)
EXTENDS KtuctlPeers, TLC

Symmetry ==
  Permutations(Procs) \cup Permutations(Ports) \cup Permutations(Uids)
    \cup Permutations(Keys)
=============================================================================
