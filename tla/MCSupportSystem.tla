--------------------------- MODULE MCSupportSystem ---------------------------
(***************************************************************************)
(* Finite instances of SupportSystem.                                      *)
(***************************************************************************)
EXTENDS SupportSystem

CONSTANTS a1, a2, cu, pr, e1, d1, d2

\* Decisions are only compared.
MCSymmetry == Permutations({d1, d2})
=============================================================================
