---------------------------- MODULE MCAuthSessions ----------------------------
(* One browser and one server; the bounds are in the .cfg files.            *)
EXTENDS AuthSessions
=============================================================================
