----------------------------- MODULE MCDialogs -----------------------------
(* The dialogs of users of every role whose permissions differ. *)
EXTENDS Dialogs

AllRoles == {"USER", "PREVIEW", "ADMIN", "OWNER"}
=============================================================================
