------------------------- MODULE MCNotificationSocket ------------------------
(***************************************************************************)
(* Small instances of NotificationSocket; the constants are in the .cfg    *)
(* files: one or two calls, enough sockets for every reconnect.            *)
(***************************************************************************)
EXTENDS NotificationSocket
==============================================================================
