------------------------ MODULE MCCommandConnections ------------------------
(* Small instances of CommandConnections.                                  *)
EXTENDS CommandConnections, TLC

CONSTANTS c1, c2

\* One client makes a second call, on the connection of its first or after losing it.
MCMaxCalls == c1 :> 2 @@ c2 :> 1
MCUses ==
    c1 :> {"send"} @@ c2 :> {"plain", "waits", "recv", "debug", "other", "unknown"}
=============================================================================
