-------------------------- MODULE MCDispatchSystem --------------------------
(***************************************************************************)
(* Finite instances of DispatchSystem.                                     *)
(***************************************************************************)
EXTENDS DispatchSystem, TLC

CONSTANTS t1, t2, v1, v2, h1, h2

Everywhere == [t \in Task |-> Provider]

Symmetry == Permutations(Handler) \cup Permutations(Provider)
=============================================================================
