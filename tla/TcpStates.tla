----------------------------- MODULE TcpStates -----------------------------
(***************************************************************************)
(* The states of a TCP connection (include/chitcp/types.h) and the         *)
(* transitions between them.  The protocol (src/chitcpd/tcp.c) is left to  *)
(* its implementer: the handlers of the states are empty but for the       *)
(* events they expect, so the transitions are those of RFC 9293, which the *)
(* code refers to, without RST and without closing a connection that is    *)
(* not synchronized (the CLOSE handler refuses it).                        *)
(***************************************************************************)

TcpStates ==
    {"CLOSED", "LISTEN", "SYN_RCVD", "SYN_SENT", "ESTABLISHED", "FIN_WAIT_1",
     "FIN_WAIT_2", "CLOSE_WAIT", "CLOSING", "TIME_WAIT", "LAST_ACK"}

\* What a segment or a timer can cause.
NetworkTransitions ==
    {<<"LISTEN", "SYN_RCVD">>, <<"SYN_SENT", "SYN_RCVD">>, <<"SYN_SENT", "ESTABLISHED">>,
     <<"SYN_RCVD", "ESTABLISHED">>, <<"ESTABLISHED", "CLOSE_WAIT">>,
     <<"FIN_WAIT_1", "FIN_WAIT_2">>, <<"FIN_WAIT_1", "CLOSING">>, <<"FIN_WAIT_1", "TIME_WAIT">>,
     <<"FIN_WAIT_2", "TIME_WAIT">>, <<"CLOSING", "TIME_WAIT">>, <<"LAST_ACK", "CLOSED">>,
     <<"TIME_WAIT", "CLOSED">>}

\* What APPLICATION_CLOSE and APPLICATION_CONNECT cause.
CloseTransitions == {<<"ESTABLISHED", "FIN_WAIT_1">>, <<"CLOSE_WAIT", "LAST_ACK">>}
ConnectTransitions == {<<"CLOSED", "SYN_SENT">>}
=============================================================================
