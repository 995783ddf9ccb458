--------------------------- MODULE MCSocketTable ---------------------------
(* The socket table on a small instance: three threads, up to two local    *)
(* references each, two slots.                                             *)
EXTENDS SocketTable

CONSTANTS t1, t2, t3, entry, active_entry
=============================================================================
