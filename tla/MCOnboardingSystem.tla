------------------------- MODULE MCOnboardingSystem -------------------------
(***************************************************************************)
(* Finite instances of OnboardingSystem.                                   *)
(***************************************************************************)
EXTENDS OnboardingSystem

CONSTANTS v1, n1, n2

MCFirstPhone == [v \in {v1} |-> n1]
=============================================================================
