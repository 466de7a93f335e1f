----------------------- MODULE MCNotificationService -----------------------
(* The notification service on a small instance.                           *)
EXTENDS NotificationService

CONSTANTS a1, a2, r1, r2

=============================================================================
