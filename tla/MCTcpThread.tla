---------------------------- MODULE MCTcpThread ----------------------------
(* Small instances of TcpThread.                                           *)
EXTENDS TcpThread

CONSTANTS net, delivery, snd1, rcv
=============================================================================
