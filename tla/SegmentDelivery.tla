-------------------------- MODULE SegmentDelivery --------------------------
(***************************************************************************)
(* The path of a segment from the connection with a peer's daemon to a     *)
(* socket (src/chitcpd/connection.c): the connection threads               *)
(* (chitcpd_recv_tcp_segment), the delivery thread                         *)
(* (chitcpd_segment_delivery_thread_func) and the threads that draw a      *)
(* withheld segment when a socket changes state                            *)
(* (chitcpd_draw_withheld_segment).                                        *)
(*                                                                         *)
(* The path forks.  A debug client can have a segment dropped, withheld or *)
(* duplicated; with latency, or when the queue holds segments of the same  *)
(* connection, a segment goes through delivery_queue; otherwise the        *)
(* connection thread delivers it itself.  The question is whether the      *)
(* segments of a connection stay in order, and none is lost or doubled.    *)
(***************************************************************************)
EXTENDS Integers, Sequences, FiniteSets, Functions

CONSTANTS
    NetThreads,   \* the connection threads, one for each peer daemon
    Ports,        \* the port pairs used with each peer
    Listener,     \* the passive socket on the server's port
    MaxSegments,  \* bound on the segments a connection receives
    MaxDelayed,   \* the same bound for a daemon that adds latency
    NULL

\* A connection is a pair of addresses.  All its segments are received by the
\* thread of its peer.
Conns == NetThreads \X Ports
\* The active socket of a connection is named by the connection.
Sockets == Conns \cup {Listener}

\* A segment, and whether it is the copy made by DBG_RESP_DUPLICATE; route is
\* the log prefix: received as usual, or withheld and drawn.
Segment(c, n) == [conn |-> c, num |-> n, copy |-> FALSE, route |-> "rcvd"]
Segments == [conn : Conns, num : 1..MaxSegments, copy : BOOLEAN,
             route : {"rcvd", "withheld"}]

ASSUME DeliveryAssumption ==
    /\ MaxSegments \in Nat /\ MaxDelayed \in 0..MaxSegments
    /\ Listener \notin Conns
    /\ NULL \notin Sockets \cup Segments

VARIABLES
    latency,         \* is si->latency positive?  Set when the daemon starts
    status,          \* what chitcpd_lookup_socket sees of each socket
    withheld,        \* chisocketentry_t.withheld_segments
    delivery_queue,
    running,         \* si->state, CHITCPD_STATE_RUNNING or STOPPING
    arrived,         \* number of segments received, for each connection
    delivered,       \* segments delivered, in order, for each connection
    lost,            \* segments dropped or freed
    npc, entry,      \* connection threads: where they are, the entry they hold
    hand, drawn,     \* the segment received, and the withheld one drawn with it
    again,           \* the entry looked up for the segment drawn
    ahead,           \* (history) what was queued for the connection on arrival
    dpc, dentry,     \* the delivery thread, which holds lock_delivery in Holding
    sdraw            \* the segment a thread drew when the socket changed state

netVars == <<npc, entry, hand, drawn, again, ahead>>
deliveryVars == <<dpc, dentry>>
ends == <<delivered, lost>>
vars == <<latency, status, withheld, delivery_queue, running, arrived, ends, netVars,
          deliveryVars, sdraw>>

Statuses == {"free", "open", "freeing"}

TypeOK ==
    /\ latency \in BOOLEAN
    /\ status \in [Sockets -> Statuses]
    /\ \A s \in Sockets : Range(withheld[s]) \subseteq Segments
    /\ Range(delivery_queue) \subseteq Segments
    /\ running \in BOOLEAN
    /\ arrived \in [Conns -> 0..MaxSegments]
    /\ \A c \in Conns : Range(delivered[c]) \subseteq Segments
    /\ lost \subseteq Segments
    /\ npc \in [NetThreads -> {"idle", "breakpoint", "decide", "queue", "deliver",
                               "drawn", "drawn_deliver"}]
    /\ entry \in [NetThreads -> Sockets \cup {NULL}]
    /\ again \in [NetThreads -> Sockets \cup {NULL}]
    /\ \A n \in NetThreads : hand[n] \in Segments \cup {NULL}
    /\ \A n \in NetThreads : drawn[n] \in Segments \cup {NULL}
    /\ \A n \in NetThreads : ahead[n] \subseteq Segments
    /\ dpc \in {"check", "head", "deliver", "sleep", "timed_sleep", "woken", "exit"}
    /\ dentry \in Sockets \cup {NULL}
    /\ \A s \in Sockets : sdraw[s] \in Segments \cup {NULL}
    /\ \A n \in NetThreads :
          /\ entry[n] = NULL <=> npc[n] = "idle"
          /\ hand[n] = NULL <=> npc[n] \in {"idle", "drawn", "drawn_deliver"}
    /\ dentry = NULL <=> dpc # "deliver"

Init ==
    /\ latency \in BOOLEAN
    /\ status = [s \in Sockets |-> "free"]
    /\ withheld = [s \in Sockets |-> <<>>]
    /\ delivery_queue = <<>>
    /\ running = TRUE
    /\ arrived = [c \in Conns |-> 0]
    /\ delivered = [c \in Conns |-> <<>>]
    /\ lost = {}
    /\ npc = [n \in NetThreads |-> "idle"]
    /\ entry = [n \in NetThreads |-> NULL]
    /\ hand = [n \in NetThreads |-> NULL]
    /\ drawn = [n \in NetThreads |-> NULL]
    /\ again = [n \in NetThreads |-> NULL]
    /\ ahead = [n \in NetThreads |-> {}]
    /\ dpc = "check" /\ dentry = NULL
    /\ sdraw = [s \in Sockets |-> NULL]

-----------------------------------------------------------------------------
(* What the steps below share.                                             *)

\* chitcpd_lookup_socket: the active socket of the connection if there is one,
\* else the one on the server's port; never one that is being freed.  A socket
\* that is bound and not listening is found too, but chitcpd_recv_tcp_segment
\* and chitcpd_deliver_segment do nothing with it: as if there were none.
Lookup(c) ==
    IF status[c] = "open" THEN c
    ELSE IF status[Listener] = "open" THEN Listener
    ELSE NULL

\* chitcpd_deliver_segment appends to pending_segments of an active socket or
\* to pending_connections of a passive one.
DeliverSegment(seg) ==
    delivered' = [delivered EXCEPT ![seg.conn] = Append(@, seg)]

Holding == dpc \in {"check", "head", "deliver"}

QueuedFor(c) == {seg \in Range(delivery_queue) : seg.conn = c}

\* Mutation of QueueSegment: the delivery thread is not signalled.
QueueSilently(seg) ==
    /\ ~Holding
    /\ delivery_queue' = Append(delivery_queue, seg)
    /\ UNCHANGED dpc

\* chitcpd_queue_segment_delivery: under lock_delivery.
QueueSegment(seg) ==
    /\ ~Holding
    /\ delivery_queue' = Append(delivery_queue, seg)
    /\ dpc' = IF dpc \in {"sleep", "timed_sleep"} THEN "woken" ELSE dpc

\* The oldest withheld segment of a socket, under lock_withheld_segments.
Draw(s) ==
    [seg |-> [Head(withheld[s]) EXCEPT !.route = "withheld"],
     rest |-> Tail(withheld[s])]

-----------------------------------------------------------------------------
(* chitcpd_recv_tcp_segment, step by step.  The last step of each path     *)
(* includes chitcpd_release_socket.                                        *)

Finish(n) ==
    /\ npc' = [npc EXCEPT ![n] = "idle"]
    /\ entry' = [entry EXCEPT ![n] = NULL]
    /\ ahead' = [ahead EXCEPT ![n] = {}]

\* A segment for which there is no socket is not delivered.
Receive(n, c) ==
    /\ npc[n] = "idle"
    /\ c[1] = n
    /\ arrived[c] < (IF latency THEN MaxDelayed ELSE MaxSegments)
    /\ arrived' = [arrived EXCEPT ![c] = @ + 1]
    /\ LET seg == Segment(c, arrived[c] + 1)
           s == Lookup(c)
       IN IF s = NULL
          THEN /\ lost' = lost \cup {seg}
               /\ UNCHANGED netVars
          ELSE /\ entry' = [entry EXCEPT ![n] = s]
               /\ hand' = [hand EXCEPT ![n] = seg]
               /\ ahead' = [ahead EXCEPT ![n] = QueuedFor(c)]
               /\ npc' = [npc EXCEPT ![n] = "breakpoint"]
               /\ UNCHANGED <<lost, drawn, again>>
    /\ UNCHANGED <<latency, status, withheld, delivery_queue, running, delivered, deliveryVars, sdraw>>

\* The client answers DBG_RESP_DROP, or an answer this event does not have.
Drop(n) ==
    /\ npc[n] = "breakpoint"
    /\ lost' = lost \cup {hand[n]}
    /\ hand' = [hand EXCEPT ![n] = NULL]
    /\ Finish(n)
    /\ UNCHANGED <<latency, status, withheld, delivery_queue, running, arrived, delivered,
                   drawn, again, deliveryVars, sdraw>>

Withhold(n) ==
    /\ npc[n] = "breakpoint"
    /\ withheld' = [withheld EXCEPT ![entry[n]] = Append(@, hand[n])]
    /\ hand' = [hand EXCEPT ![n] = NULL]
    /\ Finish(n)
    /\ UNCHANGED <<latency, status, delivery_queue, running, arrived, ends, drawn, again,
                   deliveryVars, sdraw>>

\* Mutation of Duplicate: the list points to the segment itself.
DuplicateShared(n) ==
    /\ npc[n] = "breakpoint"
    /\ withheld' = [withheld EXCEPT ![entry[n]] = Append(@, hand[n])]
    /\ npc' = [npc EXCEPT ![n] = "decide"]
    /\ UNCHANGED <<latency, status, delivery_queue, running, arrived, ends, entry, hand, drawn,
                   again, ahead, deliveryVars, sdraw>>

Duplicate(n) ==
    /\ npc[n] = "breakpoint"
    /\ withheld' = [withheld EXCEPT ![entry[n]] = Append(@, [hand[n] EXCEPT !.copy = TRUE])]
    /\ npc' = [npc EXCEPT ![n] = "decide"]
    /\ UNCHANGED <<latency, status, delivery_queue, running, arrived, ends, entry, hand, drawn,
                   again, ahead, deliveryVars, sdraw>>

DrawWithReceived(n) ==
    /\ npc[n] = "breakpoint"
    /\ withheld[entry[n]] # <<>>
    /\ LET d == Draw(entry[n])
       IN /\ withheld' = [withheld EXCEPT ![entry[n]] = d.rest]
          /\ drawn' = [drawn EXCEPT ![n] = d.seg]
    /\ npc' = [npc EXCEPT ![n] = "decide"]
    /\ UNCHANGED <<latency, status, delivery_queue, running, arrived, ends, entry, hand, again,
                   ahead, deliveryVars, sdraw>>

\* DBG_RESP_NONE, or a draw when nothing is withheld.
NoAction(n) ==
    /\ npc[n] = "breakpoint"
    /\ npc' = [npc EXCEPT ![n] = "decide"]
    /\ UNCHANGED <<latency, status, withheld, delivery_queue, running, arrived, ends, entry, hand,
                   drawn, again, ahead, deliveryVars, sdraw>>

\* Mutation of Decide: only the latency is considered.
DecideByLatency(n) ==
    /\ npc[n] = "decide"
    /\ npc' = [npc EXCEPT ![n] = IF latency THEN "queue" ELSE "deliver"]
    /\ UNCHANGED <<latency, status, withheld, delivery_queue, running, arrived, ends, entry, hand,
                   drawn, again, ahead, deliveryVars, sdraw>>

\* Without latency, chitcpd_delivery_queue_has_segments looks under
\* lock_delivery, which it has released when the segment is then delivered.
Decide(n) ==
    /\ npc[n] = "decide"
    /\ latency \/ ~Holding
    /\ npc' = [npc EXCEPT ![n] =
                  IF latency \/ QueuedFor(hand[n].conn) # {} THEN "queue" ELSE "deliver"]
    /\ UNCHANGED <<latency, status, withheld, delivery_queue, running, arrived, ends, entry, hand,
                   drawn, again, ahead, deliveryVars, sdraw>>

AfterSegment(n) ==
    IF drawn[n] = NULL
    THEN Finish(n)
    ELSE npc' = [npc EXCEPT ![n] = "drawn"] /\ UNCHANGED <<entry, ahead>>

QueueReceived(n) ==
    /\ npc[n] = "queue"
    /\ QueueSegment(hand[n])
    /\ hand' = [hand EXCEPT ![n] = NULL]
    /\ AfterSegment(n)
    /\ UNCHANGED <<latency, status, withheld, running, arrived, ends, drawn, again, dentry,
                   sdraw>>

DeliverReceived(n) ==
    /\ npc[n] = "deliver"
    /\ DeliverSegment(hand[n])
    /\ hand' = [hand EXCEPT ![n] = NULL]
    /\ AfterSegment(n)
    /\ UNCHANGED <<latency, status, withheld, delivery_queue, running, arrived, lost, drawn,
                   again, deliveryVars, sdraw>>

\* The socket of the withheld segment is looked up again: queued with latency,
\* else the entry found is held until it has the segment.
Drawn(n) ==
    /\ npc[n] = "drawn"
    /\ LET s == Lookup(drawn[n].conn)
       IN \/ /\ latency
             /\ QueueSegment(drawn[n])
             /\ Finish(n)
             /\ drawn' = [drawn EXCEPT ![n] = NULL]
             /\ UNCHANGED <<lost, again>>
          \/ /\ ~latency /\ s = NULL
             /\ lost' = lost \cup {drawn[n]}
             /\ Finish(n)
             /\ drawn' = [drawn EXCEPT ![n] = NULL]
             /\ UNCHANGED <<delivery_queue, dpc, again>>
          \/ /\ ~latency /\ s # NULL
             /\ again' = [again EXCEPT ![n] = s]
             /\ npc' = [npc EXCEPT ![n] = "drawn_deliver"]
             /\ UNCHANGED <<lost, delivery_queue, dpc, drawn, entry, ahead>>
    /\ UNCHANGED <<latency, status, withheld, running, arrived, delivered, hand, dentry,
                   sdraw>>

DrawnDeliver(n) ==
    /\ npc[n] = "drawn_deliver"
    /\ DeliverSegment(drawn[n])
    /\ drawn' = [drawn EXCEPT ![n] = NULL]
    /\ again' = [again EXCEPT ![n] = NULL]
    /\ Finish(n)
    /\ UNCHANGED <<latency, status, withheld, delivery_queue, running, arrived, lost, hand, deliveryVars,
                   sdraw>>

-----------------------------------------------------------------------------
(* chitcpd_draw_withheld_segment, called when a socket changes state and   *)
(* the client asks for it.  Its caller is the socket's TCP thread, so the  *)
(* socket is not freed meanwhile; a passive socket changes state only      *)
(* before it can have received anything.                                   *)

DrawOnStateChange(c) ==
    /\ status[c] = "open"
    /\ sdraw[c] = NULL
    /\ withheld[c] # <<>>
    /\ LET d == Draw(c)
       IN /\ withheld' = [withheld EXCEPT ![c] = d.rest]
          /\ sdraw' = [sdraw EXCEPT ![c] = d.seg]
    /\ UNCHANGED <<latency, status, delivery_queue, running, arrived, ends, netVars, deliveryVars>>

QueueDrawn(c) ==
    /\ sdraw[c] # NULL
    /\ QueueSegment(sdraw[c])
    /\ sdraw' = [sdraw EXCEPT ![c] = NULL]
    /\ UNCHANGED <<latency, status, withheld, running, arrived, ends, netVars, dentry>>

-----------------------------------------------------------------------------
(* chitcpd_segment_delivery_thread_func.                                   *)

DeliveryCheck ==
    /\ dpc = "check"
    /\ dpc' = IF running THEN "head" ELSE "exit"
    /\ UNCHANGED <<latency, status, withheld, delivery_queue, running, arrived, ends, netVars,
                   dentry, sdraw>>

\* The head of the queue is due: always so without latency.
DeliveryLookup ==
    /\ dpc = "head"
    /\ delivery_queue # <<>>
    /\ LET s == Lookup(Head(delivery_queue).conn)
       IN IF s = NULL
          THEN /\ lost' = lost \cup {Head(delivery_queue)}
               /\ delivery_queue' = Tail(delivery_queue)
               /\ UNCHANGED deliveryVars
          ELSE /\ dentry' = s
               /\ dpc' = "deliver"
               /\ UNCHANGED <<lost, delivery_queue>>
    /\ UNCHANGED <<latency, status, withheld, running, arrived, delivered, netVars, sdraw>>

\* The segment is taken off the queue once it has been delivered.
DeliveryDeliver ==
    /\ dpc = "deliver"
    /\ DeliverSegment(Head(delivery_queue))
    /\ delivery_queue' = Tail(delivery_queue)
    /\ dentry' = NULL
    /\ dpc' = "head"
    /\ UNCHANGED <<latency, status, withheld, running, arrived, lost, netVars, sdraw>>

\* It sleeps, releasing lock_delivery, for as long as the queue is empty or
\* until its head is due.
DeliverySleep ==
    /\ dpc = "head"
    /\ \/ delivery_queue = <<>> /\ dpc' = "sleep"
       \/ delivery_queue # <<>> /\ latency /\ dpc' = "timed_sleep"
    /\ UNCHANGED <<latency, status, withheld, delivery_queue, running, arrived, ends, netVars,
                   dentry, sdraw>>

\* Woken by a signal or, in timed_sleep, by the time.
DeliveryWake ==
    /\ dpc \in {"woken", "timed_sleep"}
    /\ dpc' = "check"
    /\ UNCHANGED <<latency, status, withheld, delivery_queue, running, arrived, ends, netVars,
                   dentry, sdraw>>

-----------------------------------------------------------------------------
(* The sockets, as far as the path of a segment depends on them (Handlers  *)
(* has the rest), and chitcpd_server_stop.                                 *)

\* LISTEN opens the passive socket; CONNECT and ACCEPT make the active socket
\* of a connection.
Open(s) ==
    /\ status[s] = "free"
    /\ status' = [status EXCEPT ![s] = "open"]
    /\ UNCHANGED <<latency, withheld, delivery_queue, running, arrived, ends, netVars, deliveryVars,
                   sdraw>>

Referenced(s) ==
    \/ \E n \in NetThreads : s \in {entry[n], again[n]}
    \/ dentry = s

\* chitcpd_free_socket_entry takes the socket out of the lookups at once, and
\* frees the list of withheld segments when nobody holds the entry any more.
FreeBegin(s) ==
    /\ status[s] = "open"
    /\ sdraw[s] = NULL
    /\ status' = [status EXCEPT ![s] = "freeing"]
    /\ UNCHANGED <<latency, withheld, delivery_queue, running, arrived, ends, netVars, deliveryVars,
                   sdraw>>

FreeEnd(s) ==
    /\ status[s] = "freeing"
    /\ ~Referenced(s)
    /\ status' = [status EXCEPT ![s] = "free"]
    /\ lost' = lost \cup Range(withheld[s])
    /\ withheld' = [withheld EXCEPT ![s] = <<>>]
    /\ UNCHANGED <<latency, delivery_queue, running, arrived, delivered, netVars, deliveryVars, sdraw>>

\* chitcpd_server_stop broadcasts cv_state, and not cv_delivery.
Stop ==
    /\ running
    /\ running' = FALSE
    /\ UNCHANGED <<latency, status, withheld, delivery_queue, arrived, ends, netVars, deliveryVars,
                   sdraw>>

-----------------------------------------------------------------------------
RecvSegment(n) ==
    \/ Drop(n) \/ Withhold(n) \/ Duplicate(n) \/ DrawWithReceived(n) \/ NoAction(n)
    \/ Decide(n) \/ QueueReceived(n) \/ DeliverReceived(n)
    \/ Drawn(n) \/ DrawnDeliver(n)

DeliveryThread ==
    DeliveryCheck \/ DeliveryLookup \/ DeliveryDeliver \/ DeliverySleep \/ DeliveryWake

Next ==
    \/ \E n \in NetThreads : RecvSegment(n) \/ \E c \in Conns : Receive(n, c)
    \/ \E c \in Conns : DrawOnStateChange(c) \/ QueueDrawn(c)
    \/ DeliveryThread
    \/ \E s \in Sockets : Open(s) \/ FreeBegin(s) \/ FreeEnd(s)
    \/ Stop

Spec == Init /\ [][Next]_vars

-----------------------------------------------------------------------------
(* Properties.                                                             *)

\* The segments of a connection that no debug response held back are delivered
\* in the order in which they arrived, whether the connection thread or the
\* delivery thread delivers them (chitcpd_recv_tcp_segment, the comment at the
\* call of chitcpd_delivery_queue_has_segments).  And a connection thread that
\* is about to deliver a segment overtakes nothing that was queued for its
\* connection when the segment arrived, a drawn segment included, although the
\* queue is looked at and the segment delivered in two critical sections.
OrderKept ==
    /\ \A c \in Conns : \A i, j \in DOMAIN delivered[c] :
          i < j /\ delivered[c][i].route = "rcvd" /\ delivered[c][j].route = "rcvd"
             => delivered[c][i].num < delivered[c][j].num
    /\ \A n \in NetThreads :
          npc[n] = "deliver" => ahead[n] \cap Range(delivery_queue) = {}

Places(seg) ==
    LET same(x) == x # NULL /\ x.conn = seg.conn /\ x.num = seg.num /\ x.copy = seg.copy
        in(s) == Cardinality({i \in DOMAIN s : same(s[i])})
        held(f) == Cardinality({x \in DOMAIN f : same(f[x])})
        withheldIn == {s \in Sockets : in(withheld[s]) > 0}
    IN in(delivery_queue) + in(delivered[seg.conn])
       + held(hand) + held(drawn) + held(sdraw)
       + Cardinality(withheldIn)
       + Cardinality({x \in lost : same(x)})

\* Nothing is lost or doubled on any of the paths: a segment that has arrived
\* is in exactly one place (a thread's hand, a list, a socket, dropped), and so
\* is the copy made for DBG_RESP_DUPLICATE if there is one.  Whoever has the
\* segment is the one who frees it.
OnePlaceEach ==
    \A c \in Conns : \A k \in 1..MaxSegments :
        /\ Places(Segment(c, k)) = IF k <= arrived[c] THEN 1 ELSE 0
        /\ Places([Segment(c, k) EXCEPT !.copy = TRUE]) <= 1

\* The delivery thread never sleeps without a time limit on a queue that holds
\* segments, so that nothing is left there until the next segment arrives
\* (chitcpd_segment_delivery_thread_func looks at the queue and sleeps under
\* the lock under which chitcpd_queue_segment_delivery appends and signals).
QueueAttended == dpc = "sleep" => delivery_queue = <<>>
=============================================================================
