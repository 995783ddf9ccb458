---------------------------- MODULE MCDebugClient ----------------------------
(* A small instance of DebugClient.                                        *)
EXTENDS DebugClient
=============================================================================
