-------------------------- MODULE PeerConnections --------------------------
(***************************************************************************)
(* The TCP connections between chiTCP daemons: the connection table, its   *)
(* threads (src/chitcpd/connection.c), and the life of a daemon around     *)
(* them: chitcpd_server_start, _stop, _wait and _free, and the network     *)
(* thread (server.c), driven by main.c.                                    *)
(*                                                                         *)
(* All the chiTCP sockets of two daemons share one connection, which the   *)
(* first CONNECT makes and whose entry is never removed.  A daemon that    *)
(* connects to itself, at the loopback address, has both ends in one       *)
(* entry.  The handler threads, which execute CONNECT, and the network     *)
(* thread, which accepts, use the table with little synchronization.       *)
(***************************************************************************)
EXTENDS Integers, Sequences, FiniteSets

CONSTANTS
    Daemons,
    Connects,      \* CONNECT commands, each with its handler thread
    Home,          \* the daemon of each
    Targets,       \* addresses each may connect to: daemons, or Loopback
    Loopback,
    MaxConnects,   \* bound on the CONNECTs executed
    Slots,         \* connection_table_size of each daemon
    Running,       \* daemons that run from the beginning
    MayStop        \* daemons that may be stopped

ASSUME PeerAssumption ==
    /\ IsFiniteSet(Daemons) /\ IsFiniteSet(Connects) /\ Loopback \notin Daemons
    /\ Home \in [Connects -> Daemons]
    /\ Targets \in [Connects -> SUBSET (Daemons \cup {Loopback})]
    /\ Slots \in [Daemons -> Nat \ {0}] /\ MaxConnects \in Nat
    /\ Running \subseteq Daemons /\ MayStop \subseteq Daemons

\* The two sockets of the TCP connection that a CONNECT makes.
Sockets == Connects \X {"connecting", "accepted"}
NoSocket == <<>>
OtherEnd(s) == <<s[1], IF s[2] = "connecting" THEN "accepted" ELSE "connecting">>

VARIABLES
    state, mpc,          \* chitcpd_state_t; the thread that starts and stops the daemon
    wpc,                 \* the thread in chitcpd_server_wait, which then frees the daemon
    table,               \* connection_table
    netsock, backlog,    \* network_socket
    unixsock,            \* server_socket
    npc, nacc, nslot,    \* network thread: accepted connection, entry at hand
    hpc, target, hslot,  \* handler threads
    tcp,                 \* TCP thread of the connected socket
    conn,                \* TCP sockets
    tpc, tslot, tcur,    \* connection threads, by their socket: entry, socket being read
    \* history
    overlap,             \* pairs of addresses for which two setups have overlapped
    raced,               \* daemons where two threads have claimed the same entry
    late                 \* CONNECTs that set up a connection while the daemon stopped

mainVars == <<state, mpc, wpc>>
netVars == <<netsock, backlog, unixsock, npc, nacc, nslot>>
handlerVars == <<hpc, target, hslot, tcp>>
threadVars == <<tpc, tslot, tcur>>
history == <<overlap, raced, late>>
vars == <<mainVars, table, netVars, handlerVars, conn, threadVars, history>>

-----------------------------------------------------------------------------
(* Addresses.                                                              *)

\* The daemon that a CONNECT reaches, and the address it comes from.
Dest(h) == IF target[h] = Loopback THEN Home[h] ELSE target[h]
From(h) == IF target[h] = Loopback THEN Loopback ELSE Home[h]

Owner(s) == IF s[2] = "connecting" THEN Home[s[1]] ELSE Dest(s[1])
Pair(d, a) == {d, a}

\* The setup of a connection is under way until both daemons have it in their table.
UnderWay(h) ==
    \/ hpc[h] \in {"find", "claim", "connect", "thread", "assign"}
    \/ conn[<<h, "accepted">>] \in {"queued", "accepted"}

-----------------------------------------------------------------------------
(* The connection table.                                                   *)

FreeEntry == [available |-> TRUE, peer |-> NoSocket, send |-> NoSocket, recv |-> NoSocket,
              thread |-> NoSocket]

First(S) == CHOOSE i \in S : \A j \in S : i <= j
NoSlot == 0

\* chitcpd_get_connection.
GetConnection(d, a) ==
    LET S == {i \in 1 .. Slots[d] : ~table[d][i].available /\ table[d][i].peer = a}
    IN IF S = {} THEN NoSlot ELSE First(S)

\* chitcpd_get_available_connection_entry, which does not lock the table.
GetAvailable(d) ==
    LET S == {i \in 1 .. Slots[d] : table[d][i].available} IN IF S = {} THEN NoSlot ELSE First(S)

Entry(d, i, e) == table' = [table EXCEPT ![d][i] = e]

\* Two threads have found the same entry available.
Claims(d, i) == raced' = IF table[d][i].available THEN raced ELSE raced \cup {d}

\* chitcpd_create_connection_thread, up to the assignment to connection->thread.
CreateThread(s, i) ==
    /\ tpc' = [tpc EXCEPT ![s] = "start"]
    /\ tslot' = [tslot EXCEPT ![s] = i]
    /\ UNCHANGED tcur

Init ==
    /\ state = [d \in Daemons |-> IF d \in Running THEN "RUNNING" ELSE "READY"]
    /\ mpc = [d \in Daemons |-> IF d \in Running THEN "run" ELSE "start"]
    /\ wpc = [d \in Daemons |-> IF d \in Running THEN "wait" ELSE "main"]
    /\ table = [d \in Daemons |-> [i \in 1 .. Slots[d] |-> FreeEntry]]
    /\ netsock = [d \in Daemons |-> IF d \in Running THEN "listening" ELSE "none"]
    /\ unixsock = [d \in Daemons |-> IF d \in Running THEN "listening" ELSE "none"]
    /\ npc = [d \in Daemons |-> IF d \in Running THEN "accept" ELSE "none"]
    /\ backlog = [d \in Daemons |-> <<>>]
    /\ nacc = [d \in Daemons |-> NoSocket] /\ nslot = [d \in Daemons |-> NoSlot]
    /\ hpc = [h \in Connects |-> "idle"] /\ target = [h \in Connects |-> Loopback]
    /\ hslot = [h \in Connects |-> NoSlot] /\ tcp = [h \in Connects |-> "none"]
    /\ conn = [s \in Sockets |-> "none"]
    /\ tpc = [s \in Sockets |-> "none"] /\ tslot = [s \in Sockets |-> NoSlot]
    /\ tcur = [s \in Sockets |-> NoSocket]
    /\ overlap = {} /\ raced = {} /\ late = {}

-----------------------------------------------------------------------------
(* CONNECT, in a handler thread: chitcpd_get_connection, and               *)
(* chitcpd_create_connection if there is no connection to the peer.        *)

HGoto(h, l) == hpc' = [hpc EXCEPT ![h] = l]

\* Handler threads execute commands from before the network socket exists until the
\* server thread has ended them.
Serving(d) ==
    mpc[d] \in {"start_net", "run", "shutdown_net", "join_net", "shutdown_unix", "esocket"}

Lookup(h) ==
    /\ hpc[h] = "idle" /\ Serving(Home[h])
    /\ Cardinality({g \in Connects : hpc[g] # "idle"}) < MaxConnects
    /\ \E a \in Targets[h] :
          LET i == GetConnection(Home[h], a)
              others == {g \in Connects \ {h} : UnderWay(g) /\ Pair(Dest(g), From(g)) = Pair(Home[h], a)}
          IN /\ target' = [target EXCEPT ![h] = a]
             /\ hslot' = [hslot EXCEPT ![h] = i]
             /\ IF i # NoSlot
                THEN HGoto(h, "done") /\ tcp' = [tcp EXCEPT ![h] = "ready"] /\ UNCHANGED overlap
                ELSE /\ HGoto(h, "find") /\ UNCHANGED tcp
                     /\ overlap' = overlap \cup (IF others = {} THEN {} ELSE {Pair(Home[h], a)})
    /\ UNCHANGED <<mainVars, table, netVars, conn, threadVars, raced, late>>

\* The table may be full: CONNECT goes on without a connection.
FindEntry(h) ==
    /\ hpc[h] = "find"
    /\ hslot' = [hslot EXCEPT ![h] = GetAvailable(Home[h])]
    /\ HGoto(h, IF hslot'[h] = NoSlot THEN "done" ELSE "claim")
    /\ tcp' = [tcp EXCEPT ![h] = IF hslot'[h] = NoSlot THEN "ready" ELSE @]
    /\ UNCHANGED <<mainVars, table, netVars, target, conn, threadVars, history>>

ClaimEntry(h) ==
    /\ hpc[h] = "claim"
    /\ LET d == Home[h] i == hslot[h]
       IN /\ Claims(d, i)
          /\ Entry(d, i, [table[d][i] EXCEPT !.available = FALSE, !.peer = target[h],
                                             !.send = <<h, "connecting">>, !.recv = NoSocket])
    /\ HGoto(h, "connect")
    /\ UNCHANGED <<mainVars, netVars, target, hslot, tcp, conn, threadVars, overlap,
                   late>>

\* Mutation of ConnectPeer: the loopback address is not a special case.
ConnectPeerAnyAddress(h) ==
    /\ hpc[h] = "connect"
    /\ LET d == Dest(h)
       IN IF netsock[d] = "listening"
          THEN /\ conn' = [conn EXCEPT ![<<h, "connecting">>] = "open", ![<<h, "accepted">>] = "queued"]
               /\ backlog' = [backlog EXCEPT ![d] = Append(@, h)]
          ELSE conn' = [conn EXCEPT ![<<h, "connecting">>] = "refused"] /\ UNCHANGED backlog
    /\ HGoto(h, "thread")
    /\ UNCHANGED <<mainVars, table, netsock, unixsock, npc, nacc, nslot, target, hslot, tcp,
                   threadVars, history>>

\* connect(), whose result is not looked at.
ConnectPeer(h) ==
    /\ hpc[h] = "connect"
    /\ LET d == Dest(h)
       IN IF netsock[d] = "listening"
          THEN /\ conn' = [conn EXCEPT ![<<h, "connecting">>] = "open", ![<<h, "accepted">>] = "queued"]
               /\ backlog' = [backlog EXCEPT ![d] = Append(@, h)]
          ELSE conn' = [conn EXCEPT ![<<h, "connecting">>] = "refused"] /\ UNCHANGED backlog
    /\ HGoto(h, IF target[h] = Loopback THEN "done" ELSE "thread")
    /\ tcp' = [tcp EXCEPT ![h] = IF target[h] = Loopback THEN "ready" ELSE @]
    /\ UNCHANGED <<mainVars, table, netsock, unixsock, npc, nacc, nslot, target, hslot,
                   threadVars, history>>

\* "If we're connecting to the loopback address, the connection thread is created by
\* the network thread ... not here."
CreateThreadOf(h) ==
    /\ hpc[h] = "thread"
    /\ LET d == Home[h] i == hslot[h]
       IN /\ Entry(d, i, [table[d][i] EXCEPT !.recv = table[d][i].send])
          /\ CreateThread(<<h, "connecting">>, i)
    /\ HGoto(h, "assign")
    /\ UNCHANGED <<mainVars, netVars, target, hslot, tcp, conn, history>>

AssignThread(h) ==
    /\ hpc[h] = "assign"
    /\ LET d == Home[h] i == hslot[h]
       IN /\ Entry(d, i, [table[d][i] EXCEPT !.thread = <<h, "connecting">>])
          /\ late' = IF state[d] = "STOPPING" THEN late \cup {h} ELSE late
    /\ HGoto(h, "done")
    /\ tcp' = [tcp EXCEPT ![h] = "ready"]
    /\ UNCHANGED <<mainVars, netVars, target, hslot, conn, threadVars, overlap, raced>>

HandlerStep(h) ==
    /\ mpc[Home[h]] # "failed"
    /\ \/ FindEntry(h) \/ ClaimEntry(h) \/ ConnectPeer(h) \/ CreateThreadOf(h) \/ AssignThread(h)

-----------------------------------------------------------------------------
\* A TCP thread may exit at any time, which only matters to a daemon that stops.
TcpThreadExits(h) ==
    /\ tcp[h] = "ready" /\ mpc[Home[h]] \in {"await_tcp", "stopped"}
    /\ tcp' = [tcp EXCEPT ![h] = "exited"]
    /\ UNCHANGED <<mainVars, table, netVars, hpc, target, hslot, conn, threadVars, history>>

NumTcpThreads(d) == Cardinality({h \in Connects : Home[h] = d /\ tcp[h] = "ready"})

-----------------------------------------------------------------------------
(* chitcpd_connection_thread_func.  The thread s uses the entry tslot[s]   *)
(* without a lock, and looks up its realsocket_recv for every recv().      *)

EntryOf(s) == table[Owner(s)][tslot[s]]

ThreadStart(s) ==
    /\ tpc[s] = "start"
    /\ tpc' = [tpc EXCEPT ![s] = "recv"]
    /\ tcur' = [tcur EXCEPT ![s] = EntryOf(s).recv]
    /\ UNCHANGED <<mainVars, table, netVars, handlerVars, conn, tslot, history>>

CloseSocket(s) == conn' = IF s = NoSocket THEN conn ELSE [conn EXCEPT ![s] = "closed"]

ThreadExits(s) ==
    /\ CloseSocket(EntryOf(s).recv)
    /\ tpc' = [tpc EXCEPT ![s] = "exited"]
    /\ tcur' = [tcur EXCEPT ![s] = NoSocket]

\* Nothing more comes, or recv() fails.
Ended(s) ==
    conn[s] \in {"shut", "closed", "refused"} \/ conn[OtherEnd(s)] \in {"shut", "closed"}

ThreadEnds(s) ==
    /\ tpc[s] = "recv"
    /\ tcur[s] # NoSocket => Ended(tcur[s])
    /\ ThreadExits(s)
    /\ UNCHANGED <<mainVars, table, netVars, handlerVars, tslot, history>>

ThreadStep(s) == mpc[Owner(s)] # "failed" /\ (ThreadStart(s) \/ ThreadEnds(s))

-----------------------------------------------------------------------------
(* The network thread.                                                     *)

NGoto(d, l) == npc' = [npc EXCEPT ![d] = l]

NextAccept(d) ==
    /\ NGoto(d, "accept")
    /\ nacc' = [nacc EXCEPT ![d] = NoSocket]
    /\ nslot' = [nslot EXCEPT ![d] = NoSlot]

AcceptConnection(d) ==
    /\ npc[d] = "accept" /\ backlog[d] # <<>>
    /\ nacc' = [nacc EXCEPT ![d] = <<Head(backlog[d]), "accepted">>]
    /\ backlog' = [backlog EXCEPT ![d] = Tail(@)]
    /\ conn' = [conn EXCEPT ![nacc'[d]] = "accepted"]
    /\ NGoto(d, "lookup")
    /\ UNCHANGED <<mainVars, table, netsock, unixsock, nslot, handlerVars, threadVars, history>>

LookupPeer(d) ==
    /\ npc[d] = "lookup"
    /\ nslot' = [nslot EXCEPT ![d] = GetConnection(d, From(nacc[d][1]))]
    /\ NGoto(d, IF nslot'[d] = NoSlot THEN "find" ELSE "found")
    /\ UNCHANGED <<mainVars, table, netsock, backlog, unixsock, nacc, handlerVars, conn,
                   threadVars, history>>

\* The daemon's own connection: the entry gets its receiving socket and its thread.
CompleteLoopback(d) ==
    /\ npc[d] = "found" /\ From(nacc[d][1]) = Loopback
    /\ Entry(d, nslot[d], [table[d][nslot[d]] EXCEPT !.recv = nacc[d], !.thread = nacc[d]])
    /\ CreateThread(nacc[d], nslot[d])
    /\ conn' = [conn EXCEPT ![nacc[d]] = "open"]
    /\ NextAccept(d)
    /\ UNCHANGED <<mainVars, netsock, backlog, unixsock, handlerVars, history>>

\* "The peer chiTCP daemon tried to create a second connection, which shouldn't
\* happen": the thread exits, and closes server_socket.
RejectSecond(d) ==
    /\ npc[d] = "found" /\ From(nacc[d][1]) # Loopback
    /\ conn' = [conn EXCEPT ![nacc[d]] = "closed"]
    /\ unixsock' = [unixsock EXCEPT ![d] = "closed"]
    /\ NGoto(d, "failed")
    /\ UNCHANGED <<mainVars, table, netsock, backlog, nacc, nslot, handlerVars,
                   threadVars, history>>

\* The thread exits if the table is full.
FindForPeer(d) ==
    /\ npc[d] = "find"
    /\ nslot' = [nslot EXCEPT ![d] = GetAvailable(d)]
    /\ NGoto(d, IF nslot'[d] = NoSlot THEN "full" ELSE "add")
    /\ UNCHANGED <<mainVars, table, netsock, backlog, unixsock, nacc, handlerVars, conn,
                   threadVars, history>>

\* Mutation of AddConnection: the peer's address is not stored.
AddConnectionNoPeer(d) ==
    /\ npc[d] = "add"
    /\ Claims(d, nslot[d])
    /\ Entry(d, nslot[d], [available |-> FALSE, peer |-> NoSocket, send |-> nacc[d],
                           recv |-> nacc[d], thread |-> nacc[d]])
    /\ CreateThread(nacc[d], nslot[d])
    /\ conn' = [conn EXCEPT ![nacc[d]] = "open"]
    /\ NextAccept(d)
    /\ UNCHANGED <<mainVars, netsock, backlog, unixsock, handlerVars, overlap, late>>

\* Mutation of AddConnection: the thread is not stored.
AddConnectionNoThread(d) ==
    /\ npc[d] = "add"
    /\ Claims(d, nslot[d])
    /\ Entry(d, nslot[d], [available |-> FALSE, peer |-> From(nacc[d][1]), send |-> nacc[d],
                           recv |-> nacc[d], thread |-> NoSocket])
    /\ CreateThread(nacc[d], nslot[d])
    /\ conn' = [conn EXCEPT ![nacc[d]] = "open"]
    /\ NextAccept(d)
    /\ UNCHANGED <<mainVars, netsock, backlog, unixsock, handlerVars, overlap, late>>

\* chitcpd_add_connection, chitcpd_create_connection_thread.
AddConnection(d) ==
    /\ npc[d] = "add"
    /\ Claims(d, nslot[d])
    /\ Entry(d, nslot[d], [available |-> FALSE, peer |-> From(nacc[d][1]), send |-> nacc[d],
                           recv |-> nacc[d], thread |-> nacc[d]])
    /\ CreateThread(nacc[d], nslot[d])
    /\ conn' = [conn EXCEPT ![nacc[d]] = "open"]
    /\ NextAccept(d)
    /\ UNCHANGED <<mainVars, netsock, backlog, unixsock, handlerVars, overlap, late>>

AcceptFails(d) ==
    /\ npc[d] = "accept" /\ netsock[d] = "shut" /\ state[d] = "STOPPING"
    /\ NGoto(d, "sweep")
    /\ nslot' = [nslot EXCEPT ![d] = 1]
    /\ UNCHANGED <<mainVars, table, netsock, backlog, unixsock, nacc, handlerVars, conn,
                   threadVars, history>>

\* Mutation of Sweep: the sockets are not shut down.
SweepOnlyJoins(d) ==
    /\ npc[d] = "sweep"
    /\ LET e == table[d][nslot[d]]
       IN IF nslot[d] > Slots[d]
          THEN NGoto(d, "exited") /\ UNCHANGED nslot
          ELSE IF e.available
          THEN nslot' = [nslot EXCEPT ![d] = @ + 1] /\ UNCHANGED npc
          ELSE NGoto(d, "join") /\ UNCHANGED nslot
    /\ UNCHANGED <<mainVars, table, netsock, backlog, unixsock, nacc, handlerVars, conn,
                   threadVars, history>>

\* "Close all TCP connections": the next entry, if it is in use.
Sweep(d) ==
    /\ npc[d] = "sweep"
    /\ LET e == table[d][nslot[d]]
       IN IF nslot[d] > Slots[d]
          THEN NGoto(d, "exited") /\ UNCHANGED <<nslot, conn>>
          ELSE IF e.available
          THEN nslot' = [nslot EXCEPT ![d] = @ + 1] /\ UNCHANGED <<npc, conn>>
          ELSE /\ conn' = [s \in Sockets |-> IF s \in {e.recv, e.send} /\ conn[s] = "open"
                                             THEN "shut" ELSE conn[s]]
               /\ NGoto(d, "join")
               /\ UNCHANGED nslot
    /\ UNCHANGED <<mainVars, table, netsock, backlog, unixsock, nacc, handlerVars,
                   threadVars, history>>

\* Mutation of SweepJoin: the threads are not joined.
SweepJoinOmitted(d) ==
    /\ npc[d] = "join"
    /\ nslot' = [nslot EXCEPT ![d] = @ + 1]
    /\ NGoto(d, "sweep")
    /\ UNCHANGED <<mainVars, table, netsock, backlog, unixsock, nacc, handlerVars, conn,
                   threadVars, history>>

\* pthread_join of an entry's thread.  Undefined if there is none: here it returns.
SweepJoin(d) ==
    /\ npc[d] = "join"
    /\ LET t == table[d][nslot[d]].thread IN t \in Sockets => tpc[t] = "exited"
    /\ nslot' = [nslot EXCEPT ![d] = @ + 1]
    /\ NGoto(d, "sweep")
    /\ UNCHANGED <<mainVars, table, netsock, backlog, unixsock, nacc, handlerVars, conn,
                   threadVars, history>>

NetworkStep(d) ==
    \/ AcceptConnection(d) \/ LookupPeer(d) \/ CompleteLoopback(d) \/ RejectSecond(d)
    \/ FindForPeer(d) \/ AddConnection(d) \/ AcceptFails(d) \/ Sweep(d) \/ SweepJoin(d)

-----------------------------------------------------------------------------
(* The life of a daemon.                                                   *)

MGoto(d, l) == mpc' = [mpc EXCEPT ![d] = l]

\* Under lock_state, with a broadcast to chitcpd_server_wait.
SetState(d, st) == state' = [state EXCEPT ![d] = st]

\* chitcpd_server_start_thread: the UNIX socket listens.
StartServer(d) ==
    /\ mpc[d] = "start"
    /\ SetState(d, "STARTING")
    /\ unixsock' = [unixsock EXCEPT ![d] = "listening"]
    /\ MGoto(d, "start_net")
    /\ UNCHANGED <<wpc, table, netsock, backlog, npc, nacc, nslot, handlerVars, conn,
                   threadVars, history>>

\* chitcpd_server_start_network_thread, the delivery thread, and the end of
\* chitcpd_server_start; the main thread goes on to chitcpd_server_wait.
StartNetwork(d) ==
    /\ mpc[d] = "start_net"
    /\ netsock' = [netsock EXCEPT ![d] = "listening"]
    /\ NGoto(d, "accept")
    /\ SetState(d, "RUNNING")
    /\ wpc' = [wpc EXCEPT ![d] = "wait"]
    /\ MGoto(d, "run")
    /\ UNCHANGED <<table, backlog, unixsock, nacc, nslot, handlerVars, conn, threadVars, history>>

\* A socket cannot be opened or its port is in use: main returns, and the process ends.
StartFails(d) ==
    /\ mpc[d] \in {"start", "start_net"}
    /\ SetState(d, "STARTING")
    /\ MGoto(d, "failed")
    /\ conn' = [s \in Sockets |-> IF conn[s] = "open" /\ Owner(s) = d THEN "closed" ELSE conn[s]]
    /\ UNCHANGED <<wpc, table, netVars, handlerVars, threadVars, history>>

StopServer(d) ==
    /\ mpc[d] = "run" /\ d \in MayStop
    /\ SetState(d, "STOPPING")
    /\ MGoto(d, "shutdown_net")
    /\ UNCHANGED <<wpc, table, netVars, handlerVars, conn, threadVars, history>>

\* shutdown() of a listening TCP socket resets the connections not yet accepted.
ShutdownNetwork(d) ==
    /\ mpc[d] = "shutdown_net"
    /\ netsock' = [netsock EXCEPT ![d] = "shut"]
    /\ conn' = [s \in Sockets |-> IF conn[s] = "queued" /\ Owner(s) = d THEN "closed" ELSE conn[s]]
    /\ backlog' = [backlog EXCEPT ![d] = <<>>]
    /\ MGoto(d, "join_net")
    /\ UNCHANGED <<state, wpc, table, unixsock, npc, nacc, nslot, handlerVars,
                   threadVars, history>>

JoinNetwork(d) ==
    /\ mpc[d] = "join_net" /\ npc[d] \in {"exited", "failed", "full"}
    /\ MGoto(d, "shutdown_unix")
    /\ UNCHANGED <<state, wpc, table, netVars, handlerVars, conn, threadVars, history>>

\* shutdown(server_socket) fails if the network thread has closed it.
ShutdownUnix(d) ==
    /\ mpc[d] = "shutdown_unix"
    /\ MGoto(d, IF unixsock[d] = "closed" THEN "esocket" ELSE "join_server")
    /\ UNCHANGED <<state, wpc, table, netVars, handlerVars, conn, threadVars, history>>

\* The server thread exits when its handler threads have (see CommandConnections).
JoinServer(d) ==
    /\ mpc[d] = "join_server"
    /\ \A h \in Connects : Home[h] = d => hpc[h] \in {"idle", "done"}
    /\ MGoto(d, "await_tcp")
    /\ UNCHANGED <<state, wpc, table, netVars, handlerVars, conn, threadVars, history>>

\* The TCP threads have exited, or have not within 250 ms.
StopCompletes(d) ==
    /\ mpc[d] = "await_tcp"
    /\ SetState(d, "STOPPED")
    /\ MGoto(d, "stopped")
    /\ UNCHANGED <<wpc, table, netVars, handlerVars, conn, threadVars, history>>

\* The loop around pthread_cond_wait ends once the state is STOPPED.
ServerWait(d) ==
    /\ wpc[d] = "wait" /\ state[d] = "STOPPED"
    /\ wpc' = [wpc EXCEPT ![d] = "returned"]
    /\ UNCHANGED <<state, mpc, table, netVars, handlerVars, conn, threadVars, history>>

\* The tables are freed unless TCP threads are left.
ServerFree(d) ==
    /\ wpc[d] = "returned"
    /\ wpc' = [wpc EXCEPT ![d] = IF NumTcpThreads(d) = 0 THEN "freed" ELSE "kept"]
    /\ UNCHANGED <<state, mpc, table, netVars, handlerVars, conn, threadVars, history>>

StopStep(d) ==
    \/ ShutdownNetwork(d) \/ JoinNetwork(d) \/ ShutdownUnix(d) \/ JoinServer(d) \/ StopCompletes(d)
WaitStep(d) == ServerWait(d) \/ ServerFree(d)

-----------------------------------------------------------------------------
Next ==
    \/ \E h \in Connects :
          \/ Lookup(h) \/ HandlerStep(h)
          \/ TcpThreadExits(h)
    \/ \E s \in Sockets : ThreadStep(s)
    \/ \E d \in Daemons :
          \/ NetworkStep(d)
          \/ StartServer(d) \/ StartNetwork(d) \/ StartFails(d)
          \/ StopServer(d) \/ StopStep(d) \/ WaitStep(d)

Spec == Init /\ [][Next]_vars

-----------------------------------------------------------------------------
(* Properties.                                                             *)

Live(s) == s # NoSocket /\ conn[s] = "open" /\ conn[OtherEnd(s)] = "open"

\* "The peer chiTCP daemon tried to create a second connection, which shouldn't
\* happen" (server.c): it happens, and ends the network thread, only if two CONNECTs
\* overlapped, if a daemon connects to itself at another address than loopback, or if
\* the table still has a connection that has since ended or was never made.
SecondConnection ==
    [][\A d \in Daemons :
          npc[d] = "found" /\ npc'[d] = "failed" =>
              LET a == From(nacc[d][1])
              IN Pair(d, a) \in overlap \/ a = d \/ ~Live(table[d][nslot[d]].send)]_vars

\* A connection thread reads the socket it was created for, although it looks it up in
\* an entry that other threads write to without a lock.
ReadsOwnSocket ==
    \A s \in Sockets :
        tpc[s] = "recv" =>
            \/ tcur[s] = s
            \/ Owner(s) \in raced
            \/ Pair(Owner(s), Loopback) \in overlap

\* The network thread joins an entry that has no thread only if the entry is that of the
\* loopback address, or a CONNECT is just making the connection.
JoinsExistingThread ==
    \A d \in Daemons :
        npc[d] = "join" /\ table[d][nslot[d]].thread = NoSocket =>
            \/ table[d][nslot[d]].peer = Loopback
            \/ \E h \in Connects : Home[h] = d /\ hslot[h] = nslot[d]
                                   /\ hpc[h] \in {"connect", "thread", "assign"}

\* When chitcpd_server_free has freed the tables no thread uses them any more, except
\* the connection threads the network thread did not join: those of connections that
\* CONNECT made while the daemon was stopping, those whose entry another thread took,
\* and all of them if the network thread ended because the table was full.
FreedTablesUnused ==
    \A d \in Daemons :
        wpc[d] = "freed" =>
            /\ NumTcpThreads(d) = 0
            /\ \A s \in Sockets :
                  conn[s] # "none" /\ Owner(s) = d /\ tpc[s] \notin {"none", "exited"} =>
                      \/ s[1] \in late
                      \/ d \in raced \/ Pair(d, Loopback) \in overlap
                      \/ npc[d] = "full"

\* chitcpd_server_stop waits for the network thread, which waits for connection
\* threads: one that it joins has no open socket to wait on, except in an entry that
\* two threads claimed or that CONNECT completed while the daemon was stopping.
JoinedThreadEnds ==
    \A d \in Daemons :
        LET t == table[d][nslot[d]].thread
            s == IF tpc[t] = "start" THEN EntryOf(t).recv ELSE tcur[t]
        IN npc[d] = "join" /\ t # NoSocket =>
              \/ tpc[t] = "exited"
              \/ s = NoSocket
              \/ Ended(s)
              \/ t[1] \in late \/ d \in raced
=============================================================================
