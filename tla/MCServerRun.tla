----------------------------- MODULE MCServerRun -----------------------------
(* Two slots, one database connection, three clients.                       *)
EXTENDS ServerRun
=============================================================================
