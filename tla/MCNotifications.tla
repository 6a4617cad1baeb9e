----------------------------- MODULE MCNotifications -----------------------------
(***************************************************************************)
(* Instances of Notifications for TLC, with the SMS provider that can do   *)
(* all that the others can, and throw besides.                             *)
(***************************************************************************)
EXTENDS Notifications, TLC

CONSTANTS c1, c2

MCSmsProviders == {"kavenegar"}
=============================================================================
