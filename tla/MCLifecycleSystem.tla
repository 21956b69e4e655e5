-------------------------- MODULE MCLifecycleSystem --------------------------
(***************************************************************************)
(* Finite instances of LifecycleSystem.                                    *)
(***************************************************************************)
EXTENDS LifecycleSystem

CONSTANTS t1, v1
=============================================================================
