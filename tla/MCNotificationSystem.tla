------------------------ MODULE MCNotificationSystem ------------------------
(***************************************************************************)
(* Finite instances of NotificationSystem.                                 *)
(***************************************************************************)
EXTENDS NotificationSystem

CONSTANTS u1, u2

MCReachable == [u \in User |-> IF u = u2 THEN Channel ELSE {}]
=============================================================================
