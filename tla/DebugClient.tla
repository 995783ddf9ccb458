---------------------------- MODULE DebugClient ----------------------------
(***************************************************************************)
(* The client's side of the debug protocol (src/libchitcp/debug_api.c).    *)
(* chitcpd_debug starts a detached debug thread, which receives the events *)
(* of the monitored socket and of the connections accepted on it, and runs *)
(* the user's handler: itself for a passive socket, in an active thread of *)
(* its own for every connection, with which it exchanges the event and the *)
(* response under a lock and one condition variable.                       *)
(*                                                                         *)
(* The daemon's side is DebugMonitor; here it is reduced to what a client  *)
(* sees: one event at a time, from the sockets attached to the monitor.    *)
(* Sockets are known by their numbers, which are given again once a socket *)
(* is freed.  The handler is the user's and may return anything.           *)
(***************************************************************************)
EXTENDS Integers

CONSTANTS
    MaxConns,     \* bound on the connections accepted
    Numbers,      \* numbers for their sockets
    MaxEvents,    \* bound on the events
    Responses,    \* what handlers return
    ThreadsMayFail,   \* whether pthread_create may fail
    NULL

AllResponses == {"NONE", "STOP", "ACCEPT_MONITOR", "DROP"}

ASSUME DebugClientAssumption ==
    /\ MaxConns \in Nat /\ MaxEvents \in Nat
    /\ Numbers \subseteq Nat \ {0}
    /\ Responses \subseteq AllResponses
    /\ ThreadsMayFail \in BOOLEAN
    /\ NULL \notin Nat \cup AllResponses \cup {"EVENT", "KILL"}

\* The monitored socket is 0, with the number 0; connections are counted.  An active
\* thread has the name of the socket it is created for, so that active_list is the set of
\* its threads: DL_APPEND keeps it in the order of the names.
Root == 0
Socks == 0 .. MaxConns
First(S) == CHOOSE i \in S : \A j \in S : i <= j

VARIABLES
    rootActive, open, number,      \* the daemon's sockets
    attached, up, event, answer,   \* its monitor: is there, outstanding event, its answer
    events,                        \* number of events so far
    dpc, cur, ret,                 \* the debug thread: event at hand, response
    passive, firstEvent, activeList, item,
    fd,                            \* its connection to the daemon
    apc, flag, response, asleep,   \* active threads; threads in pthread_cond_wait
    \* history
    given,                         \* what a handler returned for the event
    disagreed,                     \* connections accepted by the second call only
    unborn                         \* a thread in the list could not be created

daemonVars == <<rootActive, open, number, attached, up, event, answer, events>>
debugVars == <<dpc, cur, ret, passive, firstEvent, activeList, item, fd>>
activeVars == <<apc, flag, response, asleep>>
history == <<given, disagreed, unborn>>
vars == <<daemonVars, debugVars, activeVars, history>>

NoEvent == [sock |-> NULL, new |-> NULL]
IsPending(e) == e.new # NULL
IsActive(s) == s # Root \/ rootActive

Init ==
    /\ rootActive \in BOOLEAN
    /\ open = {Root} /\ number = [s \in Socks |-> 0]
    /\ attached = {Root} /\ up = TRUE /\ event = NoEvent /\ answer = NULL /\ events = 0
    /\ dpc = "recv" /\ cur = NoEvent /\ ret = "NONE" /\ passive = FALSE /\ firstEvent = TRUE
    /\ activeList = {} /\ item = NULL /\ fd = "open"
    /\ apc = [s \in Socks |-> "none"] /\ flag = [s \in Socks |-> NULL]
    /\ response = [s \in Socks |-> NULL] /\ asleep = {}
    /\ given = NULL /\ disagreed = {} /\ unborn = FALSE

-----------------------------------------------------------------------------
(* The daemon.                                                             *)

Breakpoint(s) ==
    /\ up /\ event = NoEvent /\ s \in attached /\ events < MaxEvents
    /\ event' = [sock |-> s, new |-> NULL]
    /\ events' = events + 1
    /\ UNCHANGED <<rootActive, open, number, attached, up, answer, debugVars, activeVars, history>>

\* A connection for the passive socket, with a socket in the first slot available.
PendingConnection ==
    LET later == {s \in Socks \ {Root} : number[s] = 0}
        k == First(later)
        free == Numbers \ {number[s] : s \in open}
    IN /\ up /\ event = NoEvent /\ ~rootActive /\ Root \in attached /\ events < MaxEvents
       /\ later # {} /\ free # {}
       /\ number' = [number EXCEPT ![k] = First(free)]
       /\ open' = open \cup {k}
       /\ event' = [sock |-> Root, new |-> k]
       /\ events' = events + 1
       /\ UNCHANGED <<rootActive, attached, up, answer, debugVars, activeVars, history>>

\* The monitor is destroyed with its last socket, and the connection closed.
Attach(S) == attached' = S /\ up' = (up /\ S # {})

Answered ==
    /\ answer # NULL
    /\ Attach(IF answer = "STOP" THEN attached \ {event.sock}
              ELSE IF answer = "ACCEPT_MONITOR" /\ IsPending(event) THEN attached \cup {event.new}
              ELSE attached)
    /\ event' = NoEvent /\ answer' = NULL
    /\ UNCHANGED <<rootActive, open, number, events, debugVars, activeVars, history>>

\* The exchange at a breakpoint fails.
ClientGone ==
    /\ fd = "closed" /\ event # NoEvent
    /\ Attach({}) /\ event' = NoEvent /\ answer' = NULL
    /\ UNCHANGED <<rootActive, open, number, events, debugVars, activeVars, history>>

\* A socket is freed, for which its monitor must not be in use.
Freed(s) ==
    /\ s \in open /\ s # event.new /\ (s \in attached => event = NoEvent)
    /\ open' = open \ {s} /\ Attach(attached \ {s})
    /\ UNCHANGED <<rootActive, number, event, answer, events, debugVars, activeVars, history>>

DaemonExits ==
    /\ up
    /\ open' = {} /\ Attach({}) /\ event' = NoEvent /\ answer' = NULL
    /\ UNCHANGED <<rootActive, number, events, debugVars, activeVars, history>>

-----------------------------------------------------------------------------
(* Active threads.                                                         *)

DebugThread == -1

\* pthread_cond_broadcast on the condition variable of an active thread.
Broadcast(t) == asleep' = asleep \ {t, DebugThread}

ActiveSleeps(t) ==
    /\ apc[t] = "wait" /\ t \notin asleep /\ flag[t] = NULL
    /\ asleep' = asleep \cup {t}
    /\ UNCHANGED <<daemonVars, debugVars, apc, flag, response, history>>

\* The thread keeps its lock while it gets the state of its socket and calls the handler.
ActiveTakes(t) ==
    /\ apc[t] = "wait" /\ t \notin asleep /\ flag[t] # NULL
    /\ apc' = [apc EXCEPT ![t] = "handling"]
    /\ UNCHANGED <<daemonVars, debugVars, flag, response, asleep, history>>

\* chitcpd_get_socket_state succeeds if the number is that of an active socket.
GotState(t) == \E s \in open : number[s] = number[t] /\ IsActive(s)

\* "any response but -1" to KILL, STOP without the state, or what the handler returns.
Outcomes(t) ==
    IF flag[t] = "KILL" THEN {"NONE"} ELSE IF GotState(t) THEN Responses ELSE {"STOP"}

ActiveAnswer(t) ==
    /\ apc[t] = "handling"
    /\ \E r \in Outcomes(t) :
          /\ response' = [response EXCEPT ![t] = r]
          /\ given' = r
          /\ apc' = [apc EXCEPT ![t] = IF r = "STOP" \/ flag[t] = "KILL" THEN "done" ELSE "wait"]
    /\ flag' = [flag EXCEPT ![t] = NULL]
    /\ UNCHANGED <<daemonVars, debugVars, disagreed, unborn>>

\* Mutation of ActiveResponds: without the broadcast.
ActiveRespondsSilently(t) == ActiveAnswer(t) /\ UNCHANGED asleep

ActiveResponds(t) == ActiveAnswer(t) /\ Broadcast(t)

ActiveExits(t) ==
    /\ apc[t] = "done"
    /\ apc' = [apc EXCEPT ![t] = "exited"]
    /\ UNCHANGED <<daemonVars, debugVars, flag, response, asleep, history>>

ActiveStep(t) == ActiveSleeps(t) \/ ActiveTakes(t) \/ ActiveResponds(t) \/ ActiveExits(t)

-----------------------------------------------------------------------------
(* The debug thread.                                                       *)

RecvEvent ==
    /\ dpc = "recv" /\ event # NoEvent /\ answer = NULL
    /\ cur' = event /\ given' = NULL
    /\ passive' = (passive \/ IsPending(event))
    /\ firstEvent' = (firstEvent /\ ~IsPending(event) /\ ~IsActive(event.sock))
    /\ dpc' = IF IsPending(event) THEN "offer"
              ELSE IF ~IsActive(event.sock) THEN "call"
              ELSE IF firstEvent THEN "create" ELSE "pass"
    /\ UNCHANGED <<daemonVars, ret, activeList, item, fd, activeVars, disagreed, unborn>>

\* chitcpd_recv_msg or chitcpd_send_msg fails.
ConnectionFails ==
    /\ dpc \in {"recv", "send"} /\ ~up
    /\ dpc' = "kill"
    /\ UNCHANGED <<daemonVars, cur, ret, passive, firstEvent, activeList, item, fd, activeVars,
                   history>>

\* The handler is told of a pending connection, with the number of its socket.
OfferConnection ==
    /\ dpc = "offer"
    /\ \E r \in Responses :
          /\ ret' = r
          /\ dpc' = CASE r = "STOP" -> "kill" [] r = "ACCEPT_MONITOR" -> "create" [] OTHER -> "call"
    /\ UNCHANGED <<daemonVars, cur, passive, firstEvent, activeList, item, fd, activeVars, history>>

\* A new item in the list.  pthread_create may fail, which the test of its result for a
\* negative value does not find.
CreateActive ==
    LET s == IF passive THEN cur.new ELSE cur.sock
    IN /\ dpc = "create"
       /\ activeList' = activeList \cup {s}
       /\ \/ apc' = [apc EXCEPT ![s] = "wait"] /\ UNCHANGED unborn
          \/ ThreadsMayFail /\ unborn' = TRUE /\ UNCHANGED apc
       /\ dpc' = IF IsActive(cur.sock) THEN "pass" ELSE "call"
       /\ UNCHANGED <<daemonVars, cur, ret, passive, firstEvent, item, fd, flag, response, asleep,
                      given, disagreed>>

NoMemory ==
    /\ dpc = "create"
    /\ dpc' = "kill"
    /\ UNCHANGED <<daemonVars, cur, ret, passive, firstEvent, activeList, item, fd, activeVars,
                   history>>

\* The handler is called for an event of the passive socket: for a pending connection
\* that is the second call, with new_sockfd -1, and its response is the one sent.
CallHandler ==
    /\ dpc = "call"
    /\ \E r \in Responses :
          /\ ret' = r /\ given' = r
          /\ dpc' = IF r = "STOP" THEN "kill" ELSE "send"
          /\ disagreed' = IF IsPending(cur) /\ r = "ACCEPT_MONITOR" /\ ret # r
                          THEN disagreed \cup {cur.new} ELSE disagreed
    /\ UNCHANGED <<daemonVars, cur, passive, firstEvent, activeList, item, fd, activeVars, unborn>>

\* send_and_get_from_active, up to its wait.
SendToActive(t, f) ==
    /\ item' = t
    /\ flag' = [flag EXCEPT ![t] = f]
    /\ Broadcast(t)
    /\ UNCHANGED <<apc, response>>

\* Mutation of PassEvent: to the thread created last.
PassEventToLast ==
    LET S == {t \in activeList : number[t] = number[cur.sock]}
    IN /\ dpc = "pass"
       /\ IF S = {}
          THEN dpc' = "send" /\ UNCHANGED <<item, activeVars>>
          ELSE dpc' = "await" /\ \E t \in activeList : (\A u \in activeList : u <= t) /\ SendToActive(t, "EVENT")
       /\ UNCHANGED <<daemonVars, cur, ret, passive, firstEvent, activeList, fd, history>>

\* DL_SEARCH_SCALAR finds the first thread in the list that has the socket's number.  If
\* there is none, what is sent is the response to an earlier event.
PassEvent ==
    LET S == {t \in activeList : number[t] = number[cur.sock]}
    IN /\ dpc = "pass"
       /\ IF S = {}
          THEN dpc' = "send" /\ UNCHANGED <<item, activeVars>>
          ELSE dpc' = "await" /\ SendToActive(First(S), "EVENT")
       /\ UNCHANGED <<daemonVars, cur, ret, passive, firstEvent, activeList, fd, history>>

DebugSleeps ==
    /\ dpc \in {"await", "killed"} /\ DebugThread \notin asleep /\ response[item] = NULL
    /\ asleep' = asleep \cup {DebugThread}
    /\ UNCHANGED <<daemonVars, debugVars, apc, flag, response, history>>

\* Mutation of GetFromActive: the response stays.
GetFromActiveKeeps ==
    /\ dpc = "await" /\ DebugThread \notin asleep /\ response[item] # NULL
    /\ ret' = response[item]
    /\ dpc' = IF ret' = "STOP" THEN "join" ELSE "send"
    /\ UNCHANGED <<daemonVars, cur, passive, firstEvent, activeList, item, fd, activeVars, history>>

GetFromActive ==
    /\ dpc = "await" /\ DebugThread \notin asleep /\ response[item] # NULL
    /\ ret' = response[item]
    /\ response' = [response EXCEPT ![item] = NULL]
    /\ dpc' = IF ret' = "STOP" THEN "join" ELSE "send"
    /\ UNCHANGED <<daemonVars, cur, passive, firstEvent, activeList, item, fd, apc, flag, asleep,
                   history>>

\* A thread whose handler returned STOP is joined.  Without a passive socket nothing more
\* is to come, and the connection is closed instead of an answer.
JoinStopped ==
    /\ dpc = "join" /\ apc[item] = "exited"
    /\ activeList' = activeList \ {item}
    /\ dpc' = IF passive THEN "send" ELSE "kill"
    /\ UNCHANGED <<daemonVars, cur, ret, passive, firstEvent, item, fd, activeVars, history>>

SendResponse ==
    /\ dpc = "send" /\ up
    /\ answer' = ret
    /\ dpc' = "recv" /\ cur' = NoEvent
    /\ UNCHANGED <<rootActive, open, number, attached, up, event, events, ret, passive, firstEvent,
                   activeList, item, fd, activeVars, history>>

\* Mutation of KillActive: threads are joined without being asked to stop.
KillActiveOmitted ==
    /\ dpc = "kill" /\ activeList # {}
    /\ dpc' = "reap" /\ item' = First(activeList)
    /\ UNCHANGED <<daemonVars, cur, ret, passive, firstEvent, activeList, fd, activeVars, history>>

KillActive ==
    /\ dpc = "kill" /\ activeList # {}
    /\ SendToActive(First(activeList), "KILL")
    /\ dpc' = "killed"
    /\ UNCHANGED <<daemonVars, cur, ret, passive, firstEvent, activeList, fd, history>>

KillAnswered ==
    /\ dpc = "killed" /\ DebugThread \notin asleep /\ response[item] # NULL
    /\ response' = [response EXCEPT ![item] = NULL]
    /\ dpc' = "reap"
    /\ UNCHANGED <<daemonVars, cur, ret, passive, firstEvent, activeList, item, fd, apc, flag,
                   asleep, history>>

Reap ==
    /\ dpc = "reap" /\ apc[item] = "exited"
    /\ activeList' = activeList \ {item}
    /\ dpc' = "kill"
    /\ UNCHANGED <<daemonVars, cur, ret, passive, firstEvent, item, fd, activeVars, history>>

CloseConnection ==
    /\ dpc = "kill" /\ activeList = {}
    /\ fd' = "closed" /\ dpc' = "exited"
    /\ UNCHANGED <<daemonVars, cur, ret, passive, firstEvent, activeList, item, activeVars, history>>

DebugStep ==
    \/ RecvEvent \/ ConnectionFails \/ OfferConnection \/ CreateActive \/ NoMemory \/ CallHandler
    \/ PassEvent \/ DebugSleeps \/ GetFromActive \/ JoinStopped \/ SendResponse \/ KillActive
    \/ KillAnswered \/ Reap \/ CloseConnection

-----------------------------------------------------------------------------
Next ==
    \/ \E s \in Socks : Breakpoint(s) \/ Freed(s) \/ ActiveStep(s)
    \/ PendingConnection \/ Answered \/ ClientGone \/ DaemonExits
    \/ DebugStep

Spec == Init /\ [][Next]_vars

\* Every thread of the client runs, and the user's handler returns.
FairSpec == Spec /\ WF_vars(DebugStep) /\ \A t \in Socks : WF_vars(ActiveStep(t))

-----------------------------------------------------------------------------
(* Properties.                                                             *)

\* The response that the debug thread sends is what the handler returned for this very
\* event.  The exception are connections that the handler accepted in the second of the
\* two calls for PENDING_CONNECTION and not in the first: no thread was created for them.
AnswerIsForEvent ==
    dpc = "send" => given = ret \/ cur.sock \in disagreed

\* The handler runs in the thread of the event's connection, so that the state it has
\* saved is that connection's; otherwise in the thread of an earlier connection whose
\* socket was freed and whose number the event's connection has been given.
HandledByItsThread ==
    \A t \in Socks :
        apc[t] = "handling" /\ flag[t] = "EVENT" /\ t # cur.sock =>
            t < cur.sock /\ number[t] = number[cur.sock] /\ t \notin open

\* A thread of the daemon that stopped at a breakpoint gets its answer, or the
\* connection is closed: it is not kept waiting by the client's threads, unless one of
\* them could not be created.
EventAnswered ==
    (event # NoEvent /\ answer = NULL)
        ~> (event = NoEvent \/ answer # NULL \/ fd = "closed" \/ unborn)

\* When the daemon has closed the connection all threads of the client exit, under the
\* same condition.
ThreadsEnd ==
    ~up ~> \/ unborn
           \/ dpc = "exited" /\ \A t \in Socks : apc[t] \in {"none", "exited"}
=============================================================================
