------------------------- MODULE CommandConnections -------------------------
(***************************************************************************)
(* The UNIX socket between applications and the daemon: the client library *)
(* (src/libchitcp/socket_api.c, daemon_api.c, and the loops of utils.c),   *)
(* the messages (src/chitcpd-protobuf/protobuf-wrapper.c), the daemon's    *)
(* server thread (server.c), the loop of a handler thread (handlers.c) and *)
(* the part of chitcpd_server_stop that ends them.                         *)
(*                                                                         *)
(* Each thread of an application has its own connection, served by a       *)
(* handler thread of its own.  A command is abstracted to what it does to  *)
(* this protocol: it returns at once ("plain"), it may wait for a peer     *)
(* ("waits"), or it also moves a number of bytes ("send", "recv").         *)
(***************************************************************************)
EXTENDS Integers, Sequences, FiniteSets

CONSTANTS
    Clients,        \* threads of applications
    MaxCalls,       \* bound on the calls of each client
    Uses,           \* the kinds of calls each client makes
    MayDie,         \* the clients that may end, at any time
    Lengths,        \* numbers of bytes a call may ask for
    CreateMayFail,  \* can pthread_create fail in the server thread?
    NULL

ASSUME CommandAssumption ==
    /\ IsFiniteSet(Clients) /\ MayDie \subseteq Clients
    /\ MaxCalls \in [Clients -> Nat] /\ Lengths \subseteq Nat \ {0}
    /\ Uses \in [Clients -> SUBSET {"plain", "waits", "send", "recv", "debug", "other", "unknown"}]
    /\ CreateMayFail \in BOOLEAN
    /\ NULL \notin Clients

\* A call makes at most one connection, which is named after it.
Conns == UNION {{<<c, n>> : n \in 1 .. MaxCalls[c]} : c \in Clients}
Owner(k) == k[1]
NoConn == <<>>

VARIABLES
    \* client threads
    cpc, op,
    key,            \* the thread's value of daemon_socket_key, or NoConn
    sock,           \* the connection the current call uses
    calls,          \* number of the current call
    left,           \* bytes the current call still has to move
    loop,           \* chitcp_socket_send, chitcp_socket_recv: go on until left is 0
    result,         \* of the last call: "none" (it is running), "done" or "lost"
    \* connections
    fd,             \* the state of the descriptor at each end
    pipe,           \* what each end has not yet read
    num,            \* number of the descriptor at the daemon's end
    backlog,
    \* daemon
    state, mpc,     \* chitcpd_state_t, chitcpd_server_stop
    srvsock, spc,   \* server_socket, the server thread
    scur, sreq,     \* the connection it initializes, its lead message
    handlers,       \* handler_thread_list
    hpc, hmsg,      \* handler threads, and the command or the response at hand
    owed            \* bytes the daemon moved for the client's current call that it has not counted

clientVars == <<cpc, op, key, sock, calls, left, loop, result>>
connVars == <<fd, pipe, num, backlog>>
serverVars == <<srvsock, spc, scur, sreq, handlers>>
handlerVars == <<hpc, hmsg, owed>>
stopVars == <<state, mpc>>
vars == <<clientVars, connVars, serverVars, handlerVars, stopVars>>

\* What a connection is made for, other than commands: events, or by a program
\* that does not use the library and whose first message is not INIT ("other") or
\* is an INIT of an unknown type ("unknown").
Leads == {"debug", "other", "unknown"}
MayBlock == {"waits", "send", "recv"}

Message(kind, c, n) == [kind |-> kind, by |-> c, id |-> calls[c], n |-> n]
Response(m, ret) == [m EXCEPT !.kind = "resp", !.n = ret]

Ends == {"client", "daemon"}
Other(s) == IF s = "client" THEN "daemon" ELSE "client"

Init ==
    /\ cpc = [c \in Clients |-> "idle"]
    /\ op = [c \in Clients |-> "none"]
    /\ key = [c \in Clients |-> NoConn]
    /\ sock = [c \in Clients |-> NoConn]
    /\ calls = [c \in Clients |-> 0]
    /\ left = [c \in Clients |-> 0]
    /\ loop = [c \in Clients |-> FALSE]
    /\ result = [c \in Clients |-> "none"]
    /\ fd = [k \in Conns |-> [s \in Ends |-> "none"]]
    /\ pipe = [k \in Conns |-> [s \in Ends |-> <<>>]]
    /\ num = [k \in Conns |-> 0]
    /\ backlog = <<>>
    /\ state = "RUNNING" /\ mpc = "run"
    /\ srvsock = "listening" /\ spc = "accept" /\ scur = NoConn /\ sreq = NULL
    /\ handlers = <<>>
    /\ hpc = [k \in Conns |-> "none"]
    /\ hmsg = [k \in Conns |-> NULL]
    /\ owed = [c \in Clients |-> 0]

-----------------------------------------------------------------------------
(* chitcpd_send_msg and chitcpd_recv_msg at end s of connection k.  A      *)
(* message, which is its length and then its contents, is written by one   *)
(* send() and read by two recv(): a reader gets it whole or, if the writer *)
(* died while it was sending, not at all ("cut").                          *)

\* Neither end has closed or shut down the connection.
CanSend(k, s) == fd[k][s] = "open" /\ fd[k][Other(s)] \in {"queued", "open"}

\* The message is sent, or EPIPE and the descriptor is closed, or EBADF on a
\* descriptor that was closed before.  (The daemon masks SIGPIPE; an application that
\* does not ends here, see Die.)
SendMsg(k, s, m) ==
    IF CanSend(k, s)
    THEN pipe' = [pipe EXCEPT ![k][Other(s)] = Append(@, m)] /\ UNCHANGED fd
    ELSE fd' = [fd EXCEPT ![k][s] = "closed"] /\ UNCHANGED pipe

Complete(k, s) == pipe[k][s] # <<>> /\ Head(pipe[k][s]).kind # "cut"

\* What arrived before the end of the connection is still read.
RecvMsg(k, s) ==
    /\ fd[k][s] # "closed"
    /\ Complete(k, s)
    /\ pipe' = [pipe EXCEPT ![k][s] = Tail(@)]

\* "Peer disconnected", and the descriptor is closed; or it was closed before; or the
\* part of a message that has come cannot be unpacked, and nothing is closed.
RecvFails(k, s) ==
    /\ fd[k][s] # "closed" => /\ ~Complete(k, s)
                              /\ fd[k][s] = "shut" \/ fd[k][Other(s)] \in {"shut", "closed"}
    /\ \/ fd' = [fd EXCEPT ![k][s] = "closed"]
       \/ pipe[k][s] # <<>> /\ UNCHANGED fd

\* shutdown(SHUT_RDWR) of the daemon's descriptors in the set.
Shutdown(S) ==
    fd' = [k \in Conns |-> IF k \in S /\ fd[k]["daemon"] = "open"
                           THEN [fd[k] EXCEPT !["daemon"] = "shut"] ELSE fd[k]]

-----------------------------------------------------------------------------
(* The client library.                                                     *)

CGoto(c, l) == cpc' = [cpc EXCEPT ![c] = l]
Set(f, c, x) == [f EXCEPT ![c] = x]

\* The call goes on at l.
Continues(c, l) == CGoto(c, l) /\ UNCHANGED <<op, sock, left, loop, result>>

\* The call returns: "lost" if it found the connection to the daemon closed.
Returns(c, r) ==
    /\ CGoto(c, "idle")
    /\ result' = Set(result, c, r)
    /\ op' = Set(op, c, "none") /\ sock' = Set(sock, c, NoConn)
    /\ left' = Set(left, c, 0) /\ loop' = Set(loop, c, FALSE)

\* Mutation of GetSocket: one connection for all the threads of a process.
GetSocketShared(c) ==
    IF \E d \in Clients : key[d] # NoConn THEN key[CHOOSE d \in Clients : key[d] # NoConn]
    ELSE NoConn

\* chitcpd_get_socket: the connection of the thread, if it has one.
GetSocket(c) == key[c]

\* A call begins.  chitcpd_debug makes a connection of its own.
Call(c, o, n, l) ==
    /\ cpc[c] = "idle"
    /\ calls[c] < MaxCalls[c] /\ o \in Uses[c]
    /\ calls' = Set(calls, c, calls[c] + 1)
    /\ op' = Set(op, c, o) /\ left' = Set(left, c, n) /\ loop' = Set(loop, c, l)
    /\ result' = Set(result, c, "none")
    /\ owed' = Set(owed, c, 0)
    /\ sock' = Set(sock, c, IF o \in Leads THEN NoConn ELSE GetSocket(c))
    /\ CGoto(c, IF sock'[c] = NoConn THEN "connect" ELSE "send")
    /\ UNCHANGED <<key, connVars, serverVars, hpc, hmsg, stopVars>>

chisocket_socket(c) == Call(c, "plain", 0, FALSE)
chisocket_bind(c) == Call(c, "plain", 0, FALSE)
chisocket_listen(c) == Call(c, "plain", 0, FALSE)
chisocket_close(c) == Call(c, "plain", 0, FALSE)
chisocket_connect(c) == Call(c, "waits", 0, FALSE)
chisocket_accept(c) == Call(c, "waits", 0, FALSE)
chitcpd_wait_for_state(c) == Call(c, "waits", 0, FALSE)
chisocket_send(c, n) == Call(c, "send", n, FALSE)
chisocket_recv(c, n) == Call(c, "recv", n, FALSE)
chitcp_socket_send(c, n) == Call(c, "send", n, TRUE)
chitcp_socket_recv(c, n) == Call(c, "recv", n, TRUE)
chitcpd_debug(c) == Call(c, "debug", 0, FALSE)
ForeignProgram(c) == \E o \in Leads \ {"debug"} : Call(c, o, 0, FALSE)

Calls(c) ==
    \/ chisocket_socket(c) \/ chisocket_bind(c) \/ chisocket_listen(c) \/ chisocket_close(c)
    \/ chisocket_connect(c) \/ chisocket_accept(c) \/ chitcpd_wait_for_state(c)
    \/ \E n \in Lengths :
          \/ chisocket_send(c, n) \/ chisocket_recv(c, n)
          \/ chitcp_socket_send(c, n) \/ chitcp_socket_recv(c, n)
    \/ chitcpd_debug(c) \/ ForeignProgram(c)

\* chitcpd_connect.
Connect(c) ==
    /\ cpc[c] = "connect"
    /\ IF srvsock = "listening"
       THEN LET k == <<c, calls[c]>>
            IN /\ fd' = [fd EXCEPT ![k] = [client |-> "open", daemon |-> "queued"]]
               /\ backlog' = Append(backlog, k)
               /\ sock' = Set(sock, c, k)
               /\ CGoto(c, "init")
               /\ UNCHANGED <<op, left, loop, result>>
       ELSE Returns(c, "done") /\ UNCHANGED <<fd, backlog>>
    /\ UNCHANGED <<key, calls, pipe, num, serverVars, handlerVars, stopVars>>

\* The send of chitcpd_send_and_recv_msg, for the first message of a connection
\* and for a command.
ClientSend(c) ==
    /\ cpc[c] \in {"init", "send"}
    /\ SendMsg(sock[c], "client",
               IF cpc[c] = "send" THEN Message(op[c], c, left[c])
               ELSE Message(IF op[c] \in Leads THEN op[c] ELSE "init", c, 0))
    /\ IF CanSend(sock[c], "client")
       THEN Continues(c, IF cpc[c] = "init" THEN "init_resp" ELSE "resp")
       ELSE Returns(c, "lost")
    /\ UNCHANGED <<key, calls, num, backlog, serverVars, handlerVars, stopVars>>

\* chitcpd_get_socket keeps the connection of a thread if the daemon accepts it;
\* chitcpd_debug gives it to the thread that will handle the events.
ClientInitAnswered(c) ==
    /\ cpc[c] = "init_resp"
    /\ RecvMsg(sock[c], "client")
    /\ LET ret == Head(pipe[sock[c]]["client"]).n
       IN \/ /\ ret < 0
             /\ Returns(c, "done") /\ UNCHANGED <<key, fd>>
          \/ /\ ret >= 0 /\ op[c] = "debug"
             /\ Returns(c, "done")
             /\ fd' = [fd EXCEPT ![sock[c]]["client"] = "handed"]
             /\ UNCHANGED key
          \/ /\ ret >= 0 /\ op[c] # "debug"
             /\ key' = Set(key, c, sock[c])
             /\ Continues(c, "send")
             /\ UNCHANGED fd
    /\ UNCHANGED <<calls, num, backlog, serverVars, handlerVars, stopVars>>

\* Mutation of ClientAnswered: the loops count what they asked for.
ClientAnsweredWhole(c) ==
    /\ cpc[c] = "resp"
    /\ RecvMsg(sock[c], "client")
    /\ Returns(c, "done")
    /\ owed' = Set(owed, c, owed[c] - left[c])
    /\ UNCHANGED <<key, calls, fd, num, backlog, serverVars, hpc, hmsg, stopVars>>

\* A command is answered: the call returns, or the loop of chitcp_socket_send or
\* chitcp_socket_recv makes the next one.
ClientAnswered(c) ==
    /\ cpc[c] = "resp"
    /\ RecvMsg(sock[c], "client")
    /\ LET ret == Head(pipe[sock[c]]["client"]).n
           eof == op[c] = "recv" /\ ret = 0
       IN \/ ret < 0 /\ Returns(c, "done") /\ UNCHANGED owed
          \/ /\ ret >= 0
             /\ owed' = Set(owed, c, owed[c] - ret)
             /\ IF loop[c] /\ left[c] > ret /\ ~eof
                THEN /\ left' = Set(left, c, left[c] - ret)
                     /\ CGoto(c, "send")
                     /\ UNCHANGED <<op, sock, loop, result>>
                ELSE Returns(c, "done")
    /\ UNCHANGED <<key, calls, fd, num, backlog, serverVars, hpc, hmsg, stopVars>>

\* "Daemon socket disconnected".  daemon_socket_key keeps its value.
ClientDisconnected(c) ==
    /\ cpc[c] \in {"init_resp", "resp"}
    /\ RecvFails(sock[c], "client")
    /\ Returns(c, "lost")
    /\ UNCHANGED <<key, calls, pipe, num, backlog, serverVars, handlerVars, stopVars>>

\* The application ends, perhaps in the middle of a send().
Die(c) ==
    /\ c \in MayDie /\ cpc[c] # "dead"
    /\ CGoto(c, "dead")
    /\ fd' = [k \in Conns |-> IF Owner(k) = c /\ fd[k]["client"] # "none"
                              THEN [fd[k] EXCEPT !["client"] = "closed"] ELSE fd[k]]
    /\ \/ UNCHANGED pipe
       \/ /\ cpc[c] \in {"init", "send"}
          /\ CanSend(sock[c], "client")
          /\ pipe' = [pipe EXCEPT ![sock[c]]["daemon"] = Append(@, Message("cut", c, 0))]
    /\ op' = Set(op, c, "none") /\ key' = Set(key, c, NoConn) /\ sock' = Set(sock, c, NoConn)
    /\ left' = Set(left, c, 0) /\ loop' = Set(loop, c, FALSE) /\ owed' = Set(owed, c, 0)
    /\ UNCHANGED <<calls, result, num, backlog, serverVars, hpc, hmsg, stopVars>>

ClientStep(c) ==
    \/ Connect(c) \/ ClientSend(c) \/ ClientInitAnswered(c)
    \/ ClientAnswered(c) \/ ClientDisconnected(c)

-----------------------------------------------------------------------------
(* The server thread.                                                      *)

SGoto(l) == spc' = l
ServerLoops == SGoto("accept") /\ scur' = NoConn /\ sreq' = NULL

\* The kernel gives a connection the least descriptor that is not in use.
LeastFree ==
    LET used == {num[k] : k \in {j \in Conns : fd[j]["daemon"] \in {"open", "shut", "handed"}}}
    IN CHOOSE n \in 1 .. Cardinality(Conns) : n \notin used /\ \A m \in 1 .. n - 1 : m \in used

\* accept() returns the connections made before the socket was shut down.
Accept ==
    /\ spc = "accept"
    /\ srvsock # "closed"
    /\ backlog # <<>>
    /\ scur' = Head(backlog)
    /\ backlog' = Tail(backlog)
    /\ num' = [num EXCEPT ![scur'] = LeastFree]
    /\ fd' = [fd EXCEPT ![scur']["daemon"] = "open"]
    /\ SGoto("recv")
    /\ UNCHANGED <<clientVars, pipe, srvsock, sreq, handlers, handlerVars, stopVars>>

AcceptFails ==
    /\ spc = "accept"
    /\ srvsock = "shut"
    /\ backlog = <<>>
    /\ state = "STOPPING"
    /\ SGoto("stopping")
    /\ UNCHANGED <<clientVars, connVars, srvsock, scur, sreq, handlers, handlerVars, stopVars>>

\* "We receive a single message, which has to be an INIT message."
ServerRecv ==
    /\ spc = "recv"
    /\ RecvMsg(scur, "daemon")
    /\ sreq' = Head(pipe[scur]["daemon"])
    /\ SGoto("init")
    /\ UNCHANGED <<clientVars, fd, num, backlog, srvsock, scur, handlers, handlerVars,
                   stopVars>>

\* A client that disconnects before its INIT ends the loop of a stopping daemon.
\* (Otherwise the connection of that client, which has gone, is shut down.)
ServerRecvFails ==
    /\ spc = "recv"
    /\ RecvFails(scur, "daemon")
    /\ scur' = NoConn
    /\ SGoto(IF state = "STOPPING" THEN "stopping" ELSE "accept")
    /\ UNCHANGED <<clientVars, pipe, num, backlog, srvsock, sreq, handlers, handlerVars,
                   stopVars>>

\* Mutation of StartHandler: a client is only told when its INIT is refused.
StartHandlerSilent ==
    /\ spc = "init" /\ sreq.kind = "init"
    /\ hpc' = [hpc EXCEPT ![scur] = "recv"]
    /\ handlers' = Append(handlers, scur)
    /\ ServerLoops
    /\ UNCHANGED <<clientVars, connVars, srvsock, hmsg, owed, stopVars>>

\* A handler thread is created.  It waits for the client's first command, which
\* follows the response.
StartHandler ==
    /\ spc = "init" /\ sreq.kind = "init"
    /\ hpc' = [hpc EXCEPT ![scur] = "recv"]
    /\ handlers' = Append(handlers, scur)
    /\ SendMsg(scur, "daemon", Response(sreq, 0))
    /\ ServerLoops
    /\ UNCHANGED <<clientVars, num, backlog, srvsock, hmsg, owed, stopVars>>

\* pthread_create fails: CHITCP_ETHREAD, and the thread exits.  ha is freed before
\* its client_socket is read, so that the connection may or may not be closed.
StartHandlerFails ==
    /\ CreateMayFail
    /\ spc = "init" /\ sreq.kind = "init"
    /\ pipe' = IF CanSend(scur, "daemon")
               THEN [pipe EXCEPT ![scur]["client"] = Append(@, Response(sreq, -1))]
               ELSE pipe
    /\ \E close \in {TRUE, ~CanSend(scur, "daemon")} :
          fd' = [k \in Conns |-> IF k \in {backlog[i] : i \in 1 .. Len(backlog)} \/ (k = scur /\ close)
                                 THEN [fd[k] EXCEPT !["daemon"] = "closed"] ELSE fd[k]]
    /\ backlog' = <<>>
    /\ srvsock' = "closed"
    /\ SGoto("exited")
    /\ UNCHANGED <<clientVars, num, scur, sreq, handlers, handlerVars, stopVars>>

\* chitcpd_init_debug_connection (see DebugMonitor) takes the connection, or not.
DebugConnection ==
    /\ spc = "init" /\ sreq.kind = "debug"
    /\ \E ok \in BOOLEAN :
          /\ pipe' = IF CanSend(scur, "daemon")
                     THEN [pipe EXCEPT ![scur]["client"] = Append(@, Response(sreq, IF ok THEN 0 ELSE -1))]
                     ELSE pipe
          /\ fd' = [fd EXCEPT ![scur]["daemon"] = IF ~CanSend(scur, "daemon") THEN "closed"
                                                  ELSE IF ok THEN "handed" ELSE "shut"]
    /\ ServerLoops
    /\ UNCHANGED <<clientVars, num, backlog, srvsock, handlers, handlerVars, stopVars>>

\* Not an INIT message, or one of an unknown type, which is answered.
RejectLead ==
    /\ spc = "init" /\ sreq.kind \in {"other", "unknown"}
    /\ pipe' = IF sreq.kind = "unknown" /\ CanSend(scur, "daemon")
               THEN [pipe EXCEPT ![scur]["client"] = Append(@, Response(sreq, -1))]
               ELSE pipe
    /\ fd' = [fd EXCEPT ![scur]["daemon"] = "shut"]
    /\ ServerLoops
    /\ UNCHANGED <<clientVars, num, backlog, srvsock, handlers, handlerVars, stopVars>>

\* A handler thread holds its handler_lock while it executes a command.
Locked(k) == hpc[k] \in {"run", "respond"}

\* Mutation of ShutdownHandler: the handler thread is joined, its socket left as it is.
ShutdownHandlerOmitted ==
    /\ spc = "stopping"
    /\ handlers # <<>>
    /\ ~Locked(Head(handlers))
    /\ SGoto("join")
    /\ UNCHANGED <<clientVars, connVars, srvsock, scur, sreq, handlers, handlerVars, stopVars>>

\* Mutation of ShutdownHandler: without handler_lock.
ShutdownHandlerUnlocked ==
    /\ spc = "stopping"
    /\ handlers # <<>>
    /\ Shutdown({k \in Conns : num[k] = num[Head(handlers)]})
    /\ SGoto("join")
    /\ UNCHANGED <<clientVars, pipe, num, backlog, srvsock, scur, sreq, handlers,
                   handlerVars, stopVars>>

\* The next handler thread of the list: its handler_lock is taken, the socket that
\* has the number of its handler_socket is shut down, and the lock is released.
ShutdownHandler ==
    /\ spc = "stopping"
    /\ handlers # <<>>
    /\ ~Locked(Head(handlers))
    /\ Shutdown({k \in Conns : num[k] = num[Head(handlers)]})
    /\ SGoto("join")
    /\ UNCHANGED <<clientVars, pipe, num, backlog, srvsock, scur, sreq, handlers,
                   handlerVars, stopVars>>

\* Mutation of JoinHandler: the thread is detached, as the TODO of the code suggests.
JoinHandlerDetached ==
    /\ spc = "join"
    /\ handlers' = Tail(handlers)
    /\ SGoto("stopping")
    /\ UNCHANGED <<clientVars, connVars, srvsock, scur, sreq, handlerVars, stopVars>>

JoinHandler ==
    /\ spc = "join"
    /\ hpc[Head(handlers)] = "exited"
    /\ handlers' = Tail(handlers)
    /\ SGoto("stopping")
    /\ UNCHANGED <<clientVars, connVars, srvsock, scur, sreq, handlerVars, stopVars>>

ServerExits ==
    /\ spc = "stopping"
    /\ handlers = <<>>
    /\ SGoto("exited")
    /\ UNCHANGED <<clientVars, connVars, srvsock, scur, sreq, handlers, handlerVars, stopVars>>

ServerStep ==
    \/ Accept \/ AcceptFails \/ ServerRecv \/ ServerRecvFails
    \/ StartHandler \/ StartHandlerFails \/ DebugConnection \/ RejectLead
    \/ ShutdownHandler \/ JoinHandler \/ ServerExits

-----------------------------------------------------------------------------
(* chitcpd_handler_dispatch.  A thread that leaves its loop frees the      *)
(* sockets of its client, which Handlers models, and exits.                *)

HGoto(k, l) == hpc' = [hpc EXCEPT ![k] = l]

HandlerRecv(k) ==
    /\ hpc[k] = "recv"
    /\ RecvMsg(k, "daemon")
    /\ hmsg' = [hmsg EXCEPT ![k] = Head(pipe[k]["daemon"])]
    /\ HGoto(k, "lock")
    /\ UNCHANGED <<clientVars, fd, num, backlog, serverVars, owed, stopVars>>

HandlerRecvFails(k) ==
    /\ hpc[k] = "recv"
    /\ RecvFails(k, "daemon")
    /\ HGoto(k, "exited")
    /\ UNCHANGED <<clientVars, pipe, num, backlog, serverVars, hmsg, owed, stopVars>>

\* "We have received a request, so we grab the handler lock to prevent a race
\* condition when the server is shutting down."
HandlerLock(k) ==
    /\ hpc[k] = "lock"
    /\ HGoto(k, "run")
    /\ UNCHANGED <<clientVars, connVars, serverVars, hmsg, owed, stopVars>>

\* What the command may return; see Handlers for what it does.  SEND and RECV
\* return 0 when the buffer is closed.
Answers(m) == {-1} \cup (IF m.kind \in {"send", "recv"} THEN 0 .. m.n ELSE {0})

HandlerRun(k) ==
    /\ hpc[k] = "run"
    /\ \E ret \in Answers(hmsg[k]) :
          /\ hmsg' = [hmsg EXCEPT ![k] = Response(@, ret)]
          /\ owed' = [owed EXCEPT ![hmsg[k].by] =
                         IF ret > 0 /\ cpc[hmsg[k].by] # "dead" /\ calls[hmsg[k].by] = hmsg[k].id
                         THEN @ + ret ELSE @]
    /\ HGoto(k, "respond")
    /\ UNCHANGED <<clientVars, connVars, serverVars, stopVars>>

\* The response is sent, and the lock released.
HandlerRespond(k) ==
    /\ hpc[k] = "respond"
    /\ SendMsg(k, "daemon", hmsg[k])
    /\ hmsg' = [hmsg EXCEPT ![k] = NULL]
    /\ HGoto(k, IF CanSend(k, "daemon") THEN "recv" ELSE "exited")
    /\ UNCHANGED <<clientVars, num, backlog, serverVars, owed, stopVars>>

HandlerStep(k) ==
    \/ HandlerRecv(k) \/ HandlerRecvFails(k) \/ HandlerLock(k)
    \/ HandlerRun(k) \/ HandlerRespond(k)

-----------------------------------------------------------------------------
(* chitcpd_server_stop, after the network thread has exited.               *)

StopServer ==
    /\ mpc = "run"
    /\ state' = "STOPPING"
    /\ mpc' = "shutdown"
    /\ UNCHANGED <<clientVars, connVars, serverVars, handlerVars>>

\* shutdown(server_socket) fails if the server thread has closed it.
ShutdownServerSocket ==
    /\ mpc = "shutdown"
    /\ IF srvsock = "closed" THEN mpc' = "esocket" /\ UNCHANGED srvsock
       ELSE mpc' = "join" /\ srvsock' = "shut"
    /\ UNCHANGED <<clientVars, connVars, spc, scur, sreq, handlers, handlerVars, state>>

JoinServerThread ==
    /\ mpc = "join"
    /\ spc = "exited"
    /\ state' = "STOPPED"
    /\ mpc' = "ok"
    /\ UNCHANGED <<clientVars, connVars, serverVars, handlerVars>>

-----------------------------------------------------------------------------
Next ==
    \/ \E c \in Clients : Calls(c) \/ ClientStep(c) \/ Die(c)
    \/ ServerStep
    \/ \E k \in Conns : HandlerStep(k)
    \/ StopServer \/ ShutdownServerSocket \/ JoinServerThread

Spec == Init /\ [][Next]_vars

\* A command that does not wait for a peer is executed.
PlainStep(k) == HandlerStep(k) /\ ~(hpc[k] = "run" /\ hmsg[k].kind \in MayBlock)

\* Every thread runs; pthread_create fails at most for want of memory, and commands
\* that wait for a peer may wait forever.
FairSpec ==
    /\ Spec
    /\ \A c \in Clients : WF_vars(ClientStep(c))
    /\ WF_vars(ServerStep)
    /\ \A k \in Conns : WF_vars(PlainStep(k))
    /\ WF_vars(ShutdownServerSocket \/ JoinServerThread)

-----------------------------------------------------------------------------
(* Properties.                                                             *)

\* A thread only reads the response to the request it has just sent, whatever was
\* cut off before: chitcpd_send_and_recv_msg warns that two threads on one socket
\* would read each other's responses.
AnswerIsOwn ==
    \A c \in Clients :
        cpc[c] \in {"init_resp", "resp"} =>
            \A i \in 1 .. Len(pipe[sock[c]]["client"]) :
                LET m == pipe[sock[c]]["client"][i] IN m.by = c /\ m.id = calls[c]

BlockedInCommand(k) == hpc[k] = "run" /\ hmsg[k].kind \in MayBlock

\* The server thread has left its loop and will not accept this connection.
Stranded(c) ==
    /\ sock[c] \in {backlog[i] : i \in 1 .. Len(backlog)}
    /\ spc \in {"stopping", "join", "exited"}

\* A call returns, also when the daemon stops meanwhile, unless the command waits
\* for a peer, or the server thread has left its loop on another client's failed
\* INIT with this client still in the backlog.
CallsReturn ==
    \A c \in Clients :
        cpc[c] # "idle" ~>
            \/ cpc[c] \in {"idle", "dead"}
            \/ Stranded(c)
            \/ sock[c] \in Conns /\ BlockedInCommand(sock[c])

\* chitcpd_server_stop returns, unless a command waits for a peer: its handler
\* thread holds the handler_lock that the server thread needs.
StopReturns ==
    mpc = "shutdown" ~> mpc \in {"ok", "esocket"} \/ \E k \in Conns : BlockedInCommand(k)

\* When the daemon is STOPPED there is no handler thread left that could use the
\* tables chitcpd_server_free frees, although connections are still accepted, and
\* handler threads created, while it is STOPPING; unless the server thread has ended
\* on a failed pthread_create.
StoppedMeansQuiet ==
    state = "STOPPED" /\ srvsock # "closed" => \A k \in Conns : hpc[k] \in {"none", "exited"}

\* What a call has counted when it returns or makes its next request is what the
\* daemon has moved for it, unless it was told that the connection was lost.
BytesAccounted ==
    \A c \in Clients : cpc[c] \in {"idle", "send"} /\ result[c] # "lost" => owed[c] = 0

\* "We don't want to shutdown the handler's socket if an operation is in progress.
\* The handler thread may have read a command, but not sent a response back yet"
\* (server.c): no command that is being executed or answered loses its connection.
\* One that has been read may, since chitcpd_handler_dispatch takes handler_lock only
\* after chitcpd_recv_msg has returned; and so may any, when the shutdown is meant for
\* another handler thread, whose socket is closed and its number given again.
ShutdownBetweenCommands ==
    [][\A k \in Conns :
          fd[k]["daemon"] = "open" /\ fd'[k]["daemon"] = "shut" =>
              \/ hpc[k] \notin {"run", "respond"}
              \/ fd[Head(handlers)]["daemon"] = "closed"]_vars
=============================================================================
