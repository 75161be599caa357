----------------------------- MODULE MCNetlink -----------------------------
(***************************************************************************)
(* Two ktuctl processes with one call each at a time.                      *)
(***************************************************************************)
EXTENDS Netlink, TLC

Symmetry == Permutations(Callers) \cup Permutations(Items)
=============================================================================
