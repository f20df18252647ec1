-------------------------- MODULE MCNotifications --------------------------
(***************************************************************************)
(* Notifications for TLC.                                                  *)
(***************************************************************************)
EXTENDS Notifications

Delays == [n \in 1 .. MaxAttempts - 1 |-> 1]
=============================================================================
