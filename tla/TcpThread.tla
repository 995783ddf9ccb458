----------------------------- MODULE TcpThread -----------------------------
(***************************************************************************)
(* The event loop of one active socket (src/chitcpd/tcp_thread.c) and the  *)
(* threads that feed it: the network and delivery threads that append a    *)
(* segment and raise net_recv (chitcpd_deliver_segment), the SEND, RECV    *)
(* and CLOSE handlers, the timers (chitcpd_timeout), and the handler that  *)
(* created the socket (CONNECT or ACCEPT).                                 *)
(*                                                                         *)
(* Each of them first changes what the socket works on, under one lock,    *)
(* and then raises a flag, under lock_event; the TCP thread clears the     *)
(* flag and then looks.  Nothing may fall between the two.  What the       *)
(* protocol does with an event is external: see Handle.                    *)
(***************************************************************************)
EXTENDS Integers, TcpStates

CONSTANTS
    Deliverers,     \* network threads and the delivery thread
    Senders,        \* handlers that call SEND
    Receivers,      \* handlers that call RECV
    MaxSegments,    \* bound on the segments delivered
    MaxCalls        \* bound on the calls of the applications and the timers

ASSUME TcpThreadAssumption ==
    /\ MaxSegments \in Nat /\ MaxCalls \in Nat
    /\ Deliverers \cap Senders = {}
    /\ Deliverers \cap Receivers = {}
    /\ Senders \cap Receivers = {}

VARIABLES
    tcp_state,
    flags,        \* the raised bits of tcp_flags_t
    pending,      \* number of segments in tcp_data.pending_segments
    unseen,       \* are there bytes in the send buffer the protocol has not seen?
    room,         \* has RECV made room the protocol has not seen?
    pc,           \* deliverers, senders, receivers
    starting,     \* the flag CONNECT or ACCEPT has yet to raise, or "none"
    tpc,          \* the TCP thread
    event,        \* the event the TCP thread dispatches
    freed,        \* has the entry been torn down?
    segments, calls

threadVars == <<tpc, event>>
budget == <<segments, calls>>
vars == <<tcp_state, flags, pending, unseen, room, pc, starting, threadVars, freed, budget>>

Clients == Deliverers \cup Senders \cup Receivers

\* In the order in which the event loop tests them.
Events == {"cleanup", "app_close", "app_connect", "app_recv", "app_send",
           "net_recv", "timeout_rtx", "timeout_pst"}
Priority == [cleanup |-> 0, app_close |-> 1, app_connect |-> 2, app_recv |-> 3,
             app_send |-> 4, net_recv |-> 5, timeout_rtx |-> 6, timeout_pst |-> 7]

TypeOK ==
    /\ tcp_state \in TcpStates
    /\ flags \in SUBSET Events
    /\ pending \in Nat
    /\ unseen \in BOOLEAN /\ room \in BOOLEAN
    /\ pc \in [Clients -> {"idle", "raise", "write", "notify", "read"}]
    /\ starting \in {"app_connect", "net_recv", "none"}
    /\ tpc \in {"loop", "dispatch", "look", "time_wait", "set_cleanup", "recheck",
                "reraise", "freeing", "done"}
    /\ event \in Events
    /\ freed \in BOOLEAN
    /\ segments \in 0..MaxSegments /\ calls \in 0..MaxCalls

\* CONNECT starts the thread on a CLOSED socket, ACCEPT on one in LISTEN that
\* has the initial segment queued.
Init ==
    /\ \/ tcp_state = "CLOSED" /\ pending = 0 /\ starting = "app_connect"
       \/ tcp_state = "LISTEN" /\ pending = 1 /\ starting = "net_recv"
    /\ flags = {}
    /\ unseen = FALSE /\ room = FALSE
    /\ pc = [t \in Clients |-> "idle"]
    /\ tpc = "loop" /\ event = "cleanup"
    /\ freed = FALSE
    /\ segments = 0 /\ calls = 0

Goto(t, l) == pc' = [pc EXCEPT ![t] = l]
Raise(flag) == flags' = flags \cup {flag}

\* CONNECT and ACCEPT raise the first flag after they have started the thread.
Start ==
    /\ starting # "none"
    /\ Raise(starting)
    /\ starting' = "none"
    /\ UNCHANGED <<tcp_state, pending, unseen, room, pc, threadVars, freed, budget>>

-----------------------------------------------------------------------------
(* chitcpd_deliver_segment, for an active socket.  The caller has looked   *)
(* the entry up, so it is not freed in between.                            *)

Deliver(n) ==
    /\ pc[n] = "idle"
    /\ tpc \notin {"freeing", "done"}
    /\ segments < MaxSegments
    /\ segments' = segments + 1
    /\ pending' = pending + 1
    /\ Goto(n, "raise")
    /\ UNCHANGED <<tcp_state, flags, unseen, room, starting, threadVars, freed, calls>>

DeliverRaise(n) ==
    /\ pc[n] = "raise"
    /\ Raise("net_recv")
    /\ Goto(n, "idle")
    /\ UNCHANGED <<tcp_state, pending, unseen, room, starting, threadVars, freed, budget>>

-----------------------------------------------------------------------------
(* CHITCPD_MSG_CODE__SEND and CHITCPD_MSG_CODE__RECV hold neither a lock   *)
(* nor a reference between their steps.                                    *)

Call == ~freed /\ calls < MaxCalls /\ calls' = calls + 1

SendBegin(h) ==
    /\ pc[h] = "idle"
    /\ Call
    /\ tcp_state \in {"SYN_SENT", "SYN_RCVD", "ESTABLISHED", "CLOSE_WAIT"}
    /\ Goto(h, "write")
    /\ UNCHANGED <<tcp_state, flags, pending, unseen, room, starting, threadVars, freed, segments>>

\* circular_buffer_write, which may have blocked.
SendWrite(h) ==
    /\ pc[h] = "write"
    /\ ~freed
    /\ unseen' = TRUE
    /\ Goto(h, "notify")
    /\ UNCHANGED <<tcp_state, flags, pending, room, starting, threadVars, freed, budget>>

\* The state is read again, and the TCP thread notified if it is synchronized.
SendNotify(h) ==
    /\ pc[h] = "notify"
    /\ ~freed
    /\ Goto(h, IF tcp_state \in {"ESTABLISHED", "CLOSE_WAIT"} THEN "raise" ELSE "idle")
    /\ UNCHANGED <<tcp_state, flags, pending, unseen, room, starting, threadVars, freed, budget>>

SendRaise(h) ==
    /\ pc[h] = "raise"
    /\ ~freed
    /\ Raise("app_send")
    /\ Goto(h, "idle")
    /\ UNCHANGED <<tcp_state, pending, unseen, room, starting, threadVars, freed, budget>>

RecvBegin(h) ==
    /\ pc[h] = "idle"
    /\ Call
    /\ tcp_state \notin {"CLOSED", "LAST_ACK", "TIME_WAIT", "CLOSING"}
    /\ Goto(h, "read")
    /\ UNCHANGED <<tcp_state, flags, pending, unseen, room, starting, threadVars, freed, segments>>

\* circular_buffer_read returns data, which makes room, or finds the buffer
\* closed.  There is no data before the connection is synchronized.
RecvRead(h) ==
    /\ pc[h] = "read"
    /\ ~freed
    /\ \/ /\ tcp_state \notin {"LISTEN", "SYN_SENT", "SYN_RCVD"}
          /\ room' = TRUE
          /\ Goto(h, "notify")
       \/ room' = room /\ Goto(h, "idle")
    /\ UNCHANGED <<tcp_state, flags, pending, unseen, starting, threadVars, freed, budget>>

RecvNotify(h) ==
    /\ pc[h] = "notify"
    /\ ~freed
    /\ Goto(h, IF tcp_state \in {"ESTABLISHED", "FIN_WAIT_1", "FIN_WAIT_2"}
               THEN "raise" ELSE "idle")
    /\ UNCHANGED <<tcp_state, flags, pending, unseen, room, starting, threadVars, freed, budget>>

RecvRaise(h) ==
    /\ pc[h] = "raise"
    /\ ~freed
    /\ Raise("app_recv")
    /\ Goto(h, "idle")
    /\ UNCHANGED <<tcp_state, pending, unseen, room, starting, threadVars, freed, budget>>

\* CLOSE (its wait is in Handlers) and chitcpd_timeout.
CloseRaise ==
    /\ Call
    /\ tcp_state \in {"ESTABLISHED", "CLOSE_WAIT"}
    /\ Raise("app_close")
    /\ UNCHANGED <<tcp_state, pending, unseen, room, pc, starting, threadVars, freed, segments>>

Timeout(type) ==
    /\ Call
    /\ Raise(type)
    /\ UNCHANGED <<tcp_state, pending, unseen, room, pc, starting, threadVars, freed, segments>>

-----------------------------------------------------------------------------
(* chitcpd_tcp_thread_func                                                 *)

\* Mutation of PickEvent: app_recv is not cleared.
PickEventKeepsRecv ==
    /\ tpc = "loop"
    /\ flags # {}
    /\ \E e \in flags :
         /\ \A f \in flags : Priority[e] <= Priority[f]
         /\ event' = e
         /\ flags' = IF e \in {"cleanup", "app_recv"} THEN flags ELSE flags \ {e}
         /\ tpc' = IF e = "cleanup" THEN "freeing" ELSE "dispatch"
    /\ UNCHANGED <<tcp_state, pending, unseen, room, pc, starting, freed, budget>>

\* The flag of the event with the highest priority is cleared (cleanup is not:
\* the entry is about to go).
PickEvent ==
    /\ tpc = "loop"
    /\ flags # {}
    /\ \E e \in flags :
         /\ \A f \in flags : Priority[e] <= Priority[f]
         /\ event' = e
         /\ flags' = IF e = "cleanup" THEN flags ELSE flags \ {e}
         /\ tpc' = IF e = "cleanup" THEN "freeing" ELSE "dispatch"
    /\ UNCHANGED <<tcp_state, pending, unseen, room, pc, starting, freed, budget>>

\* The transitions an event may cause.
Causes(e, from, to) ==
    \/ e = "app_close" /\ <<from, to>> \in CloseTransitions
    \/ e = "app_connect" /\ <<from, to>> \in ConnectTransitions
    \/ e = "net_recv" /\ <<from, to>> \in NetworkTransitions

\* chitcpd_dispatch_tcp and the handler of the state.  All states but CLOSED
\* and TIME_WAIT take one segment off the queue on SEGMENT_ARRIVAL, if there is
\* one; the state may change.
NoSegment == event = "net_recv" /\ pending = 0

Popped ==
    IF event = "net_recv" /\ tcp_state \notin {"CLOSED", "TIME_WAIT"}
    THEN pending - 1 ELSE pending

Handle ==
    /\ tpc = "dispatch"
    /\ \/ /\ NoSegment
          /\ tpc' = "recheck"
          /\ UNCHANGED <<tcp_state, pending>>
       \/ /\ ~NoSegment
          /\ pending' = Popped
          /\ tpc' = "look"
          /\ UNCHANGED tcp_state
       \/ /\ ~NoSegment
          /\ pending' = Popped
          /\ \E st \in TcpStates :
               /\ Causes(event, tcp_state, st)
               /\ tcp_state' = st
               /\ tpc' = IF st = "TIME_WAIT" THEN "time_wait"
                         ELSE IF st = "CLOSED" THEN "set_cleanup" ELSE "look"
    /\ UNCHANGED <<flags, unseen, room, pc, starting, event, freed, budget>>

\* "Running handler for TIME_WAIT. This should not happen": the protocol moves
\* on to CLOSED as part of the same event.
LeaveTimeWait ==
    /\ tpc = "time_wait"
    /\ tcp_state' = "CLOSED"
    /\ tpc' = "set_cleanup"
    /\ UNCHANGED <<flags, pending, unseen, room, pc, starting, event, freed, budget>>

\* The end of chitcpd_update_tcp_state for CLOSED.
AfterEvent == IF event = "net_recv" THEN "recheck" ELSE "loop"

SetCleanup ==
    /\ tpc = "set_cleanup"
    /\ Raise("cleanup")
    /\ tpc' = AfterEvent
    /\ UNCHANGED <<tcp_state, pending, unseen, room, pc, starting, event, freed, budget>>

\* Having changed the state, the protocol sends what the send buffer holds
\* (on a segment, on APPLICATION_SEND, and before the FIN of APPLICATION_CLOSE),
\* if the state is synchronized, and on APPLICATION_RECEIVE it updates the
\* window.  Other states log the event as unexpected.
Look ==
    /\ tpc = "look"
    /\ unseen' = IF \/ /\ event \in {"app_send", "net_recv"}
                       /\ tcp_state \in {"ESTABLISHED", "CLOSE_WAIT"}
                    \/ event = "app_close"
                 THEN FALSE ELSE unseen
    /\ room' = IF event = "app_recv" /\ tcp_state \in {"ESTABLISHED", "FIN_WAIT_1", "FIN_WAIT_2"}
               THEN FALSE ELSE room
    /\ tpc' = AfterEvent
    /\ UNCHANGED <<tcp_state, flags, pending, pc, starting, event, freed, budget>>

\* Mutation of Recheck: one segment is handled for each flag.
RecheckOmitted ==
    /\ tpc = "recheck"
    /\ tpc' = "loop"
    /\ UNCHANGED <<tcp_state, flags, pending, unseen, room, pc, starting, event, freed, budget>>

\* After SEGMENT_ARRIVAL: are there more segments?
Recheck ==
    /\ tpc = "recheck"
    /\ tpc' = IF pending > 0 THEN "reraise" ELSE "loop"
    /\ UNCHANGED <<tcp_state, flags, pending, unseen, room, pc, starting, event, freed, budget>>

Reraise ==
    /\ tpc = "reraise"
    /\ Raise("net_recv")
    /\ tpc' = "loop"
    /\ UNCHANGED <<tcp_state, pending, unseen, room, pc, starting, event, freed, budget>>

\* chitcpd_free_socket_entry waits for those who looked the entry up.
Free ==
    /\ tpc = "freeing"
    /\ \A n \in Deliverers : pc[n] = "idle"
    /\ starting = "none"
    /\ freed' = TRUE
    /\ tpc' = "done"
    /\ UNCHANGED <<tcp_state, flags, pending, unseen, room, pc, starting, event, budget>>

-----------------------------------------------------------------------------

DelivererStep(n) == Deliver(n) \/ DeliverRaise(n)
SenderStep(h) == SendWrite(h) \/ SendNotify(h) \/ SendRaise(h)
ReceiverStep(h) == RecvNotify(h) \/ RecvRaise(h)
TcpStep ==
    PickEvent \/ Handle \/ LeaveTimeWait \/ SetCleanup \/ Look \/ Recheck \/ Reraise \/ Free

Next ==
    \/ Start
    \/ \E n \in Deliverers : DelivererStep(n)
    \/ \E h \in Senders : SendBegin(h) \/ SenderStep(h)
    \/ \E h \in Receivers : RecvBegin(h) \/ RecvRead(h) \/ ReceiverStep(h)
    \/ CloseRaise
    \/ \E type \in {"timeout_rtx", "timeout_pst"} : Timeout(type)
    \/ TcpStep

Spec == Init /\ [][Next]_vars

\* Every thread that can run does; a RECV may block for ever, and nobody is
\* obliged to call.
LiveSpec ==
    /\ Spec
    /\ WF_vars(Start) /\ WF_vars(TcpStep)
    /\ \A n \in Deliverers : WF_vars(DeliverRaise(n))
    /\ \A h \in Senders : WF_vars(SenderStep(h))
    /\ \A h \in Receivers : WF_vars(ReceiverStep(h))

-----------------------------------------------------------------------------
(* Properties                                                              *)

\* The TCP thread is handling a segment and will test the queue again.
Rechecks == event = "net_recv" /\ tpc \in {"dispatch", "look", "time_wait", "set_cleanup", "recheck"}

\* No segment is left behind: as long as one is queued, net_recv is raised or
\* some thread is on its way to raise it or to look at the queue again.
NoForgottenSegment ==
    pending > 0 =>
        \/ "net_recv" \in flags
        \/ starting = "net_recv"
        \/ \E n \in Deliverers : pc[n] = "raise"
        \/ Rechecks \/ tpc \in {"reraise", "freeing", "done"}

\* No byte is left behind: if the send buffer of a synchronized connection
\* holds bytes the protocol has not seen, app_send is raised, or the SEND that
\* wrote them has yet to read the state, or the TCP thread is about to look.
\* So it is enough that SEND does not notify it before the connection is
\* synchronized.
NoForgottenBytes ==
    unseen /\ tcp_state \in {"ESTABLISHED", "CLOSE_WAIT"} =>
        \/ "app_send" \in flags
        \/ \E h \in Senders : pc[h] \in {"notify", "raise"}
        \/ tpc = "dispatch" /\ event = "app_send"
        \/ tpc = "look" /\ event \in {"app_send", "net_recv", "app_close"}

\* Likewise for the room that RECV makes in the receive buffer, as long as the
\* peer can still send: the window will be updated.
NoForgottenRoom ==
    room /\ tcp_state \in {"ESTABLISHED", "FIN_WAIT_1", "FIN_WAIT_2"} =>
        \/ "app_recv" \in flags
        \/ \E h \in Receivers : pc[h] \in {"notify", "raise"}
        \/ tpc \in {"dispatch", "look"} /\ event = "app_recv"

\* Neither a segment, nor a byte to be sent, nor room in the receive buffer is forgotten
\* by the event loop, whichever of chitcpd_deliver_segment, SEND and RECV it is racing.
NothingForgotten == NoForgottenSegment /\ NoForgottenBytes /\ NoForgottenRoom

\* Every segment that chitcpd_deliver_segment queues is handled while the connection is
\* up, and the bytes that SEND puts in the send buffer of a synchronized connection are
\* seen by the TCP thread, although net_recv and app_send come after other flags.
InputHandled ==
    /\ pending > 0 ~> pending = 0 \/ tcp_state = "CLOSED"
    /\ unseen /\ tcp_state \in {"ESTABLISHED", "CLOSE_WAIT"} ~>
           ~unseen \/ tcp_state \notin {"ESTABLISHED", "CLOSE_WAIT"}
=============================================================================
