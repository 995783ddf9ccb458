------------------------------ MODULE Handlers ------------------------------
(***************************************************************************)
(* The threads of the daemon that share the socket table:                  *)
(*  - handler threads (src/chitcpd/handlers.c), one per daemon client,     *)
(*    each serving one request at a time and, when the client leaves,      *)
(*    closing the sockets it created;                                      *)
(*  - TCP threads (src/chitcpd/tcp_thread.c), one per active socket;       *)
(*  - network threads (src/chitcpd/connection.c), which look a socket up,  *)
(*    deliver a segment to it and let it go.                               *)
(*                                                                         *)
(* A step ends where the code releases a lock, goes to sleep or is about   *)
(* to take the next lock.  The protocol itself (tcp.c) is left to the      *)
(* implementer of the TCP state machine, so a segment or a timer makes the *)
(* TCP thread take any transition of the RFC 9293 diagram.                 *)
(***************************************************************************)
EXTENDS Integers, FiniteSets, TcpStates

CONSTANTS
    HandlerThreads, TcpThreads, NetThreads,
    TableSize,     \* chisocket_table_size
    NULL,
    MaxPending,    \* bound on the connections queued at a passive socket
    MaxInactive,   \* bound on the sockets that exist at once and are not active
    Requests,      \* the requests clients make
    WaitStates     \* states clients ask CHITCPD_MSG_CODE__WAIT_FOR_STATE for

ASSUME HandlerAssumption ==
    /\ Requests \subseteq {"SOCKET", "LISTEN", "CONNECT", "ACCEPT", "CLOSE",
                            "WAIT_FOR_STATE", "leave"}
    /\ MaxPending \in Nat \ {0} /\ MaxInactive \in Nat \ {0}

Threads == HandlerThreads \cup TcpThreads \cup NetThreads
Locals == {"entry", "active_entry"}
Sockets == 0..(TableSize - 1)

ASSUME WaitStatesAssumption == WaitStates \subseteq TcpStates

VARIABLES
    available, freeing, refcount, ptr, fsock, fpc, cv_table,   \* SocketTable
    actpas_type,     \* "ACTIVE", "PASSIVE", "UNINITIALIZED", or "NONE" (zeroed)
    creator_thread,
    tcp_state,
    flags,           \* raised bits of tcp_flags_t that no segment or timer causes
    tcp_thread,      \* socket_state.active.tcp_thread
    npending,        \* length of socket_state.passive.pending_connections
    pc,
    want,            \* the states that end the wait a handler is in
    cv_tcp_state,    \* handlers asleep on the cv_tcp_state of their entry
    cv_pending,      \* handlers asleep on cv_pending_connections of their entry
    sockfd,          \* the descriptor a handler works on (its loop index on exit)
    join,            \* the TCP thread a handler that cleans up has to join
    tsock,           \* the entry a TCP thread was started for
    newstate,        \* the transition a TCP thread is about to make
    setup_again      \* history: entries that a CONNECT or LISTEN set up which were not
                     \* fresh from SOCKET

tableVars == <<available, freeing, refcount, ptr, fsock, fpc, cv_table>>
entryVars == <<actpas_type, creator_thread, tcp_state, flags, tcp_thread, npending>>
waitVars  == <<want, cv_tcp_state, cv_pending>>
tcpVars   == <<tsock, newstate, setup_again>>
localVars == <<sockfd, join>>
vars == <<tableVars, entryVars, pc, waitVars, localVars, tcpVars>>

Table == INSTANCE SocketTable

ExitPcs ==
    {"exit", "exit_entry", "exit_cleanup", "exit_release", "exit_join", "exit_free"}
HandlerPcs ==
    ExitPcs \cup
    {"idle", "socket_init", "connect", "connect_signal", "close", "close_signal",
     "close_release", "close_free", "wait_for_state", "waiting", "release",
     "accept", "accept_sleep", "accept_allocate", "accept_acquire", "accept_start", "gone"}
TcpPcs == {"none", "loop", "dispatch", "set_cleanup", "cleanup", "finished"}
NetPcs == {"recv", "deliver", "release"}

TypeOK ==
    /\ Table!TypeOK
    /\ actpas_type \in [Sockets -> {"ACTIVE", "PASSIVE", "UNINITIALIZED", "NONE"}]
    /\ creator_thread \in [Sockets -> HandlerThreads \cup {NULL}]
    /\ tcp_state \in [Sockets -> TcpStates]
    /\ flags \in [Sockets -> SUBSET {"app_connect", "app_close", "cleanup"}]
    /\ tcp_thread \in [Sockets -> TcpThreads \cup {NULL}]
    /\ npending \in [Sockets -> 0..MaxPending]
    /\ DOMAIN pc = Threads
    /\ \A h \in HandlerThreads : pc[h] \in HandlerPcs
    /\ \A t \in TcpThreads : pc[t] \in TcpPcs
    /\ \A n \in NetThreads : pc[n] \in NetPcs
    /\ want \in [HandlerThreads -> SUBSET TcpStates]
    /\ cv_tcp_state \in SUBSET HandlerThreads
    /\ cv_pending \in SUBSET HandlerThreads
    /\ sockfd \in [HandlerThreads -> 0..TableSize]
    /\ join \in [HandlerThreads -> TcpThreads \cup {NULL}]
    /\ tsock \in [TcpThreads -> Sockets \cup {NULL}]
    /\ newstate \in [TcpThreads -> TcpStates]
    /\ setup_again \subseteq Sockets

Init ==
    /\ Table!TableInit
    /\ actpas_type = [s \in Sockets |-> "NONE"]
    /\ creator_thread = [s \in Sockets |-> NULL]
    /\ tcp_state = [s \in Sockets |-> "CLOSED"]
    /\ flags = [s \in Sockets |-> {}]
    /\ tcp_thread = [s \in Sockets |-> NULL]
    /\ npending = [s \in Sockets |-> 0]
    /\ pc = [t \in Threads |-> CASE t \in HandlerThreads -> "idle"
                                 [] t \in TcpThreads -> "none"
                                 [] t \in NetThreads -> "recv"]
    /\ want = [h \in HandlerThreads |-> {}]
    /\ cv_tcp_state = {}
    /\ cv_pending = {}
    /\ sockfd = [h \in HandlerThreads |-> 0]
    /\ join = [h \in HandlerThreads |-> NULL]
    /\ tsock = [t \in TcpThreads |-> NULL]
    /\ newstate = [t \in TcpThreads |-> "CLOSED"]
    /\ setup_again = {}

Goto(t, l) == pc' = [pc EXCEPT ![t] = l]
\* A handler is done with a request, whose descriptor goes out of scope.
EndRequest(h) == Goto(h, "idle") /\ sockfd' = [sockfd EXCEPT ![h] = 0]

Entry(t) == ptr[<<t, "entry">>]
ActiveEntry(t) == ptr[<<t, "active_entry">>]

\* The entry whose cv_tcp_state a handler uses: ACCEPT waits for the new socket.
Waited(h) == IF ActiveEntry(h) # NULL THEN ActiveEntry(h) ELSE Entry(h)

\* Mutation of BroadcastState: one sleeper at most is woken (pthread_cond_signal).
SignalState(s) ==
    \/ /\ \A h \in cv_tcp_state : Waited(h) # s
       /\ UNCHANGED cv_tcp_state
    \/ \E h \in cv_tcp_state : Waited(h) = s /\ cv_tcp_state' = cv_tcp_state \ {h}

\* pthread_cond_broadcast(&entry->cv_tcp_state)
BroadcastState(s) == cv_tcp_state' = {h \in cv_tcp_state : Waited(h) # s}

\* A wait loop on tcp_state, entered with lock_tcp_state held: go on if the
\* state is one of W or the entry is being freed, otherwise sleep.
AwaitState(h, s, W) ==
    IF tcp_state[s] \in W \/ freeing[s]
    THEN /\ Goto(h, "release")
         /\ want' = [want EXCEPT ![h] = {}]
         /\ UNCHANGED cv_tcp_state
    ELSE /\ Goto(h, "waiting")
         /\ want' = [want EXCEPT ![h] = W]
         /\ cv_tcp_state' = cv_tcp_state \cup {h}

\* A TCP thread that is not running and that nobody is going to join.
Unused(t) == pc[t] = "none" /\ \A k \in HandlerThreads : join[k] # t

\* chitcpd_tcp_start_thread.  The callers ignore its result: without a thread the
\* socket is set up all the same.
StartTcpThread(h, s, next) ==
    \/ LET t == CHOOSE t \in TcpThreads : Unused(t) IN
       /\ \E u \in TcpThreads : Unused(u)
       /\ pc' = [pc EXCEPT ![t] = "loop", ![h] = next]
       /\ tsock' = [tsock EXCEPT ![t] = s]
       /\ tcp_thread' = [tcp_thread EXCEPT ![s] = t]
       /\ UNCHANGED tableVars
    \/ /\ Goto(h, next)
       /\ tcp_thread' = [tcp_thread EXCEPT ![s] = NULL]
       /\ Table!Broadcast
       /\ UNCHANGED tsock

-----------------------------------------------------------------------------
(* Requests.  One that fails before it changes anything is a stutter.      *)

\* CHITCPD_MSG_CODE__SOCKET, up to the end of chitcpd_allocate_socket's
\* critical section; the entry is initialized outside of it.
Socket(h) ==
    /\ pc[h] = "idle"
    /\ Cardinality({s \in Sockets : ~available[s] /\ actpas_type[s] # "ACTIVE"}) < MaxInactive
    /\ \E s \in Sockets :
         /\ Table!Allocate(h, s)
         /\ sockfd' = [sockfd EXCEPT ![h] = s]
    /\ Goto(h, "socket_init")
    /\ UNCHANGED <<entryVars, waitVars, join, tcpVars>>

\* The rest of chitcpd_allocate_socket.
InitEntry(h, s) ==
    /\ creator_thread' = [creator_thread EXCEPT ![s] = h]
    /\ tcp_state' = [tcp_state EXCEPT ![s] = "CLOSED"]

SocketInit(h) ==
    /\ pc[h] = "socket_init"
    /\ InitEntry(h, sockfd[h])
    /\ actpas_type' = [actpas_type EXCEPT ![sockfd[h]] = "UNINITIALIZED"]
    /\ EndRequest(h)
    /\ UNCHANGED <<tableVars, flags, tcp_thread, npending, waitVars, join, tcpVars>>

\* CONNECT and LISTEN ask whether the state is CLOSED, not whether the entry
\* has been set up before, or is still being initialized.
SetUp(s) ==
    /\ tcp_state[s] = "CLOSED"
    /\ setup_again' = IF actpas_type[s] = "UNINITIALIZED" THEN setup_again ELSE setup_again \cup {s}

\* CHITCPD_MSG_CODE__LISTEN.  It takes neither a reference nor a lock.
Listen(h, s) ==
    /\ pc[h] = "idle"
    /\ ~available[s]
    /\ SetUp(s)
    /\ actpas_type' = [actpas_type EXCEPT ![s] = "PASSIVE"]
    /\ tcp_state' = [tcp_state EXCEPT ![s] = "LISTEN"]
    /\ npending' = [npending EXCEPT ![s] = 0]
    /\ UNCHANGED <<tableVars, creator_thread, flags, tcp_thread, pc, waitVars, localVars, tsock,
                   newstate>>

\* The requests that start with chitcpd_acquire_socket(si, sockfd).
Begin(h, s, label) ==
    /\ pc[h] = "idle"
    /\ Table!Acquire(h, "entry", s)
    /\ sockfd' = [sockfd EXCEPT ![h] = s]
    /\ Goto(h, label)
    /\ UNCHANGED <<entryVars, join, tcpVars>>

BeginConnect(h, s) == Begin(h, s, "connect") /\ UNCHANGED waitVars

BeginAccept(h, s) == Begin(h, s, "accept") /\ UNCHANGED waitVars

BeginClose(h, s) == Begin(h, s, "close") /\ UNCHANGED waitVars

BeginWaitForState(h, s) ==
    \E target \in WaitStates :
        /\ Begin(h, s, "wait_for_state")
        /\ want' = [want EXCEPT ![h] = {target}]
        /\ UNCHANGED <<cv_tcp_state, cv_pending>>

\* CHITCPD_MSG_CODE__CONNECT, up to the start of the TCP thread.
Connect(h) ==
    LET s == Entry(h) IN
    /\ pc[h] = "connect"
    /\ \/ /\ tcp_state[s] # "CLOSED"
          /\ Goto(h, "release")
          /\ UNCHANGED <<tableVars, entryVars, tcpVars>>
       \/ /\ SetUp(s)
          /\ StartTcpThread(h, s, "connect_signal")
          /\ actpas_type' = [actpas_type EXCEPT ![s] = "ACTIVE"]
          /\ flags' = [flags EXCEPT ![s] = {}]
          /\ UNCHANGED <<creator_thread, tcp_state, npending, newstate>>
    /\ UNCHANGED <<waitVars, localVars>>

\* The states in which the wait loops of CONNECT and ACCEPT stop.
Connected == TcpStates \ {"CLOSED", "SYN_SENT"}
Accepted == TcpStates \ {"LISTEN", "SYN_RCVD"}

ConnectSignal(h) ==
    LET s == Entry(h) IN
    /\ pc[h] = "connect_signal"
    /\ flags' = [flags EXCEPT ![s] = @ \cup {"app_connect"}]
    /\ AwaitState(h, s, Connected)
    /\ UNCHANGED <<tableVars, actpas_type, creator_thread, tcp_state, tcp_thread, npending,
                   cv_pending, localVars, tcpVars>>

\* CONNECT sleeps for a second at a time.
ConnectTimeout(h) ==
    /\ pc[h] = "waiting"
    /\ want[h] = Connected
    /\ h \in cv_tcp_state
    /\ cv_tcp_state' = cv_tcp_state \ {h}
    /\ UNCHANGED <<tableVars, entryVars, pc, want, cv_pending, localVars, tcpVars>>

\* Mutation of Wake: the entry is being freed, return without releasing it.
WakeKeepsReference(h) ==
    /\ pc[h] = "waiting"
    /\ h \notin cv_tcp_state
    /\ IF freeing[Waited(h)]
       THEN /\ Goto(h, "idle")
            /\ want' = [want EXCEPT ![h] = {}]
            /\ UNCHANGED cv_tcp_state
       ELSE AwaitState(h, Waited(h), want[h])
    /\ UNCHANGED <<tableVars, entryVars, cv_pending, localVars, tcpVars>>

\* A handler in a wait loop on tcp_state has been woken.
Wake(h) ==
    /\ pc[h] = "waiting"
    /\ h \notin cv_tcp_state
    /\ AwaitState(h, Waited(h), want[h])
    /\ UNCHANGED <<tableVars, entryVars, cv_pending, localVars, tcpVars>>

\* CHITCPD_MSG_CODE__WAIT_FOR_STATE.
WaitForState(h) ==
    LET s == Entry(h) IN
    /\ pc[h] = "wait_for_state"
    /\ IF actpas_type[s] # "ACTIVE"
       THEN Goto(h, "release") /\ UNCHANGED <<want, cv_tcp_state>>
       ELSE AwaitState(h, s, want[h])
    /\ UNCHANGED <<tableVars, entryVars, cv_pending, localVars, tcpVars>>

\* The end of a request: ACCEPT releases the new socket first.
ReleaseEntry(h) ==
    LET v == IF ActiveEntry(h) # NULL THEN "active_entry" ELSE "entry" IN
    /\ pc[h] = "release"
    /\ Table!Release(h, v)
    /\ IF v = "entry" THEN EndRequest(h) ELSE UNCHANGED <<pc, sockfd>>
    /\ want' = [want EXCEPT ![h] = {}]
    /\ UNCHANGED <<entryVars, cv_tcp_state, cv_pending, join, tcpVars>>

\* CHITCPD_MSG_CODE__CLOSE: what happens depends on the state, read without a
\* lock.  In the states not listed it is an error.
Close(h) ==
    LET s == Entry(h) IN
    /\ pc[h] = "close"
    /\ Goto(h, CASE tcp_state[s] = "LISTEN" /\ actpas_type[s] = "PASSIVE" -> "close_release"
                 [] tcp_state[s] \in {"ESTABLISHED", "CLOSE_WAIT"} -> "close_signal"
                 [] OTHER -> "release")
    /\ UNCHANGED <<tableVars, entryVars, waitVars, localVars, tcpVars>>

\* Mutation of CloseRelease: the entry is freed by a handler that still uses it.
CloseKeepsReference(h) ==
    /\ pc[h] = "close_release"
    /\ Goto(h, "close_free")
    /\ UNCHANGED <<tableVars, entryVars, waitVars, localVars, tcpVars>>

\* A passive socket: the handler gives its reference up, then frees the entry.
CloseRelease(h) ==
    /\ pc[h] = "close_release"
    /\ Table!Release(h, "entry")
    /\ Goto(h, "close_free")
    /\ UNCHANGED <<entryVars, waitVars, localVars, tcpVars>>

\* An active socket: raise app_close, then wait for a closing state, which
\* depends on the state found now that lock_tcp_state is held.
CloseSignal(h) ==
    LET s == Entry(h) IN
    /\ pc[h] = "close_signal"
    /\ flags' = [flags EXCEPT ![s] = @ \cup {"app_close"}]
    /\ CASE tcp_state[s] = "ESTABLISHED" ->
                AwaitState(h, s, {"FIN_WAIT_2", "CLOSING", "TIME_WAIT", "CLOSED"})
         [] tcp_state[s] = "CLOSE_WAIT" ->
                AwaitState(h, s, {"LAST_ACK", "CLOSED"})
         [] OTHER -> Goto(h, "release") /\ UNCHANGED <<want, cv_tcp_state>>
    /\ UNCHANGED <<tableVars, actpas_type, creator_thread, tcp_state, tcp_thread, npending,
                   cv_pending, localVars, tcpVars>>

\* CHITCPD_MSG_CODE__ACCEPT: the loop on lock_pending_connections.
Accept(h) ==
    LET s == Entry(h) IN
    /\ \/ pc[h] = "accept"
       \/ pc[h] = "accept_sleep" /\ h \notin cv_pending
    /\ CASE \/ freeing[s]
            \/ pc[h] = "accept" /\ (actpas_type[s] # "PASSIVE" \/ tcp_state[s] # "LISTEN") ->
                Goto(h, "release") /\ UNCHANGED <<npending, cv_pending>>
         [] OTHER ->
                IF npending[s] = 0
                THEN /\ Goto(h, "accept_sleep")
                     /\ cv_pending' = cv_pending \cup {h}
                     /\ UNCHANGED npending
                ELSE /\ Goto(h, "accept_allocate")
                     /\ npending' = [npending EXCEPT ![s] = @ - 1]
                     /\ UNCHANGED cv_pending
    /\ UNCHANGED <<tableVars, actpas_type, creator_thread, tcp_state, flags, tcp_thread,
                   want, cv_tcp_state, localVars, tcpVars>>

\* Mutation of AcceptAllocate: the slot is found and not claimed.
AcceptAllocateUnclaimed(h) ==
    /\ pc[h] = "accept_allocate"
    /\ \/ \E s \in Sockets :
             /\ available[s]
             /\ sockfd' = [sockfd EXCEPT ![h] = s]
             /\ Goto(h, "accept_acquire")
       \/ /\ \A s \in Sockets : ~available[s]
          /\ Goto(h, "release")
          /\ UNCHANGED sockfd
    /\ UNCHANGED <<tableVars, entryVars, waitVars, join, tcpVars>>

\* It pops a pending connection and allocates a socket for it, or drops it.
AcceptAllocate(h) ==
    /\ pc[h] = "accept_allocate"
    /\ \/ \E s \in Sockets :
             /\ Table!Allocate(h, s)
             /\ sockfd' = [sockfd EXCEPT ![h] = s]
             /\ Goto(h, "accept_acquire")
       \/ /\ \A s \in Sockets : ~available[s]
          /\ Goto(h, "release")
          /\ UNCHANGED <<tableVars, sockfd>>
    /\ UNCHANGED <<entryVars, waitVars, join, tcpVars>>

AcceptAcquire(h) ==
    /\ pc[h] = "accept_acquire"
    /\ InitEntry(h, sockfd[h])
    /\ Table!Acquire(h, "active_entry", sockfd[h])
    /\ actpas_type' = [actpas_type EXCEPT ![sockfd[h]] = "ACTIVE"]
    /\ flags' = [flags EXCEPT ![sockfd[h]] = {}]
    /\ Goto(h, "accept_start")
    /\ UNCHANGED <<tcp_thread, npending, waitVars, localVars, tcpVars>>

\* It queues the initial segment, starts the TCP thread and, holding
\* lock_tcp_state, signals it and waits for the handshake.
AcceptStart(h) ==
    LET s == ActiveEntry(h) IN
    /\ pc[h] = "accept_start"
    /\ tcp_state' = [tcp_state EXCEPT ![s] = "LISTEN"]
    /\ StartTcpThread(h, s, "waiting")
    /\ want' = [want EXCEPT ![h] = Accepted]
    /\ UNCHANGED <<actpas_type, creator_thread, flags, npending, cv_tcp_state, cv_pending,
                   localVars, newstate, setup_again>>

-----------------------------------------------------------------------------
(* chitcpd_update_tcp_state: the state changes under lock_tcp_state; if it *)
(* becomes CLOSED, the cleanup flag follows under lock_event.              *)

UpdateState(s, st) ==
    /\ tcp_state' = [tcp_state EXCEPT ![s] = st]
    /\ BroadcastState(s)

SetCleanup(s) == flags' = [flags EXCEPT ![s] = @ \cup {"cleanup"}]

-----------------------------------------------------------------------------
(* The end of chitcpd_handler_dispatch, when the client is gone.           *)

ClientLeaves(h) ==
    /\ pc[h] = "idle"
    /\ Goto(h, "exit")
    /\ sockfd' = [sockfd EXCEPT ![h] = 0]
    /\ UNCHANGED <<tableVars, entryVars, waitVars, join, tcpVars>>

ExitLoop(h) ==
    /\ pc[h] = "exit"
    /\ IF sockfd[h] = TableSize
       THEN Goto(h, "gone") /\ sockfd' = [sockfd EXCEPT ![h] = 0] /\ UNCHANGED tableVars
       ELSE IF Table!InUse(sockfd[h])
            THEN Table!Acquire(h, "entry", sockfd[h]) /\ Goto(h, "exit_entry") /\ UNCHANGED sockfd
            ELSE sockfd' = [sockfd EXCEPT ![h] = @ + 1] /\ UNCHANGED <<tableVars, pc>>
    /\ UNCHANGED <<entryVars, waitVars, join, tcpVars>>

\* An active socket of this handler is forced to CLOSED.
ExitForceClosed(h) ==
    LET s == Entry(h) IN
    /\ pc[h] = "exit_entry"
    /\ creator_thread[s] = h
    /\ actpas_type[s] = "ACTIVE"
    /\ join' = [join EXCEPT ![h] = tcp_thread[s]]
    /\ UpdateState(s, "CLOSED")
    /\ Goto(h, "exit_cleanup")
    /\ UNCHANGED <<tableVars, actpas_type, creator_thread, flags, tcp_thread, npending,
                   want, cv_pending, sockfd, tcpVars>>

ExitCleanup(h) ==
    /\ pc[h] = "exit_cleanup"
    /\ SetCleanup(Entry(h))
    /\ Goto(h, "exit_release")
    /\ UNCHANGED <<tableVars, actpas_type, creator_thread, tcp_state, tcp_thread, npending,
                   waitVars, localVars, tcpVars>>

\* Mutation of ExitRelease: the handler frees the entry instead of waiting for
\* the TCP thread to do so.
ExitFrees(h) ==
    /\ pc[h] = "exit_release"
    /\ Table!Release(h, "entry")
    /\ Goto(h, "exit_free")
    /\ UNCHANGED <<entryVars, waitVars, localVars, tcpVars>>

ExitRelease(h) ==
    /\ pc[h] = "exit_release"
    /\ Table!Release(h, "entry")
    /\ Goto(h, "exit_join")
    /\ UNCHANGED <<entryVars, waitVars, localVars, tcpVars>>

ExitJoin(h) ==
    /\ pc[h] = "exit_join"
    /\ join[h] # NULL /\ pc[join[h]] = "none"
    /\ join' = [join EXCEPT ![h] = NULL]
    /\ sockfd' = [sockfd EXCEPT ![h] = @ + 1]
    /\ Goto(h, "exit")
    /\ UNCHANGED <<tableVars, entryVars, waitVars, tcpVars>>

\* A passive socket of this handler is released and freed; any other entry is
\* only released.
ExitOther(h) ==
    LET s == Entry(h) IN
    /\ pc[h] = "exit_entry"
    /\ ~(creator_thread[s] = h /\ actpas_type[s] = "ACTIVE")
    /\ Table!Release(h, "entry")
    /\ IF creator_thread[s] = h /\ actpas_type[s] = "PASSIVE"
       THEN Goto(h, "exit_free") /\ UNCHANGED sockfd
       ELSE Goto(h, "exit") /\ sockfd' = [sockfd EXCEPT ![h] = @ + 1]
    /\ UNCHANGED <<entryVars, waitVars, join, tcpVars>>

\* The server thread starts a handler for a new client.
NewClient(h) ==
    /\ pc[h] = "gone"
    /\ Goto(h, "idle")
    /\ UNCHANGED <<tableVars, entryVars, waitVars, localVars, tcpVars>>

-----------------------------------------------------------------------------
(* chitcpd_tcp_thread_func.                                                *)

\* One turn of the event loop: the flag with the highest priority is cleared
\* and the event dispatched; its handler reads the state and decides.
Dispatch(t, transitions) ==
    LET s == tsock[t] IN
    IF \E st \in TcpStates : <<tcp_state[s], st>> \in transitions
    THEN \E st \in TcpStates :
            /\ <<tcp_state[s], st>> \in transitions
            /\ newstate' = [newstate EXCEPT ![t] = st]
            /\ Goto(t, "dispatch")
    ELSE UNCHANGED <<newstate, pc>>

TcpEvent(t) ==
    LET s == tsock[t] IN
    /\ pc[t] = "loop"
    /\ CASE "cleanup" \in flags[s] ->
                Goto(t, "cleanup") /\ UNCHANGED <<flags, newstate>>
         [] "cleanup" \notin flags[s] /\ "app_close" \in flags[s] ->
                /\ flags' = [flags EXCEPT ![s] = @ \ {"app_close"}]
                /\ Dispatch(t, CloseTransitions)
         [] flags[s] = {"app_connect"} ->
                /\ flags' = [flags EXCEPT ![s] = {}]
                /\ Dispatch(t, ConnectTransitions)
         [] flags[s] = {} ->
                /\ UNCHANGED flags
                /\ Dispatch(t, NetworkTransitions)
    /\ UNCHANGED <<tableVars, actpas_type, creator_thread, tcp_state, tcp_thread, npending,
                   waitVars, localVars, tsock, setup_again>>

TcpUpdateState(t) ==
    /\ pc[t] = "dispatch"
    /\ UpdateState(tsock[t], newstate[t])
    /\ Goto(t, IF newstate[t] = "CLOSED" THEN "set_cleanup" ELSE "loop")
    /\ newstate' = [newstate EXCEPT ![t] = "CLOSED"]
    /\ UNCHANGED <<tableVars, actpas_type, creator_thread, flags, tcp_thread, npending,
                   want, cv_pending, localVars, tsock, setup_again>>

TcpSetCleanup(t) ==
    /\ pc[t] = "set_cleanup"
    /\ SetCleanup(tsock[t])
    /\ Goto(t, "loop")
    /\ UNCHANGED <<tableVars, actpas_type, creator_thread, tcp_state, tcp_thread, npending,
                   waitVars, localVars, tcpVars>>

\* The thread ends: num_tcp_threads--, and a broadcast on cv_chisocket_table.
TcpExit(t) ==
    /\ pc[t] = "finished"
    /\ Goto(t, "none")
    /\ Table!Broadcast
    /\ tsock' = [tsock EXCEPT ![t] = NULL]
    /\ newstate' = [newstate EXCEPT ![t] = "CLOSED"]
    /\ UNCHANGED <<entryVars, waitVars, localVars, setup_again>>

-----------------------------------------------------------------------------
(* chitcpd_free_socket_entry as the handlers and the TCP threads call it.  *)

\* The entry a thread is about to free: it has no reference to it anymore.
ToFree(t) == IF t \in TcpThreads THEN tsock[t] ELSE sockfd[t]

\* Mutation of FreeEntry: those who wait in ACCEPT are not woken.
FreeEntryForgetsAccept(t) ==
    /\ pc[t] \in {"close_free", "exit_free", "cleanup"}
    /\ Table!FreeBegin(t, ToFree(t))
    /\ BroadcastState(ToFree(t))
    /\ UNCHANGED <<entryVars, pc, want, cv_pending, localVars, tcpVars>>

\* Mutation of FreeEntry: the entry is not marked as being freed.
FreeEntryUnmarked(t) ==
    /\ pc[t] \in {"close_free", "exit_free", "cleanup"}
    /\ fpc[t] = "none"
    /\ fsock' = [fsock EXCEPT ![t] = ToFree(t)]
    /\ Table!AwaitReferences(t, ToFree(t))
    /\ BroadcastState(ToFree(t))
    /\ cv_pending' = {h \in cv_pending : Entry(h) # ToFree(t)}
    /\ UNCHANGED <<available, freeing, refcount, ptr, entryVars, pc, want, localVars, tcpVars>>

\* Sets freeing and wakes everybody who waits for this entry.
FreeEntry(t) ==
    LET s == ToFree(t) IN
    /\ pc[t] \in {"close_free", "exit_free", "cleanup"}
    /\ Table!FreeBegin(t, s)
    /\ BroadcastState(s)
    /\ cv_pending' = {h \in cv_pending : Entry(h) # s}
    /\ UNCHANGED <<entryVars, pc, want, localVars, tcpVars>>

FreeEntryWake(t) ==
    /\ Table!FreeWake(t)
    /\ UNCHANGED <<entryVars, pc, waitVars, localVars, tcpVars>>

\* Drops the pending connections of a passive socket.
FreeEntryTeardown(t) ==
    /\ Table!Teardown(t)
    /\ npending' = [npending EXCEPT ![fsock[t]] = 0]
    /\ UNCHANGED <<actpas_type, creator_thread, tcp_state, flags, tcp_thread, pc, waitVars,
                   localVars, tcpVars>>

\* Zeroes the entry and returns to the caller.
FreeEntryReclaim(t) ==
    LET s == fsock[t] IN
    /\ Table!Reclaim(t)
    /\ actpas_type' = [actpas_type EXCEPT ![s] = "NONE"]
    /\ creator_thread' = [creator_thread EXCEPT ![s] = NULL]
    /\ tcp_state' = [tcp_state EXCEPT ![s] = "CLOSED"]
    /\ flags' = [flags EXCEPT ![s] = {}]
    /\ tcp_thread' = [tcp_thread EXCEPT ![s] = NULL]
    /\ npending' = [npending EXCEPT ![s] = 0]
    /\ \/ pc[t] = "cleanup" /\ Goto(t, "finished") /\ UNCHANGED sockfd
       \/ pc[t] = "close_free" /\ EndRequest(t)
       \/ pc[t] = "exit_free" /\ Goto(t, "exit") /\ sockfd' = [sockfd EXCEPT ![t] = @ + 1]
    /\ UNCHANGED <<waitVars, join, tcpVars>>

FreeEntrySteps(t) ==
    \/ FreeEntry(t)
    \/ FreeEntryWake(t)
    \/ FreeEntryTeardown(t)
    \/ FreeEntryReclaim(t)

-----------------------------------------------------------------------------
(* chitcpd_recv_tcp_segment: lookup, chitcpd_deliver_segment, release.     *)

\* An entry matches a segment's addresses once BIND, CONNECT or ACCEPT has set
\* its own; any such socket may be the one the segment is for.
NetLookup(n) ==
    /\ pc[n] = "recv"
    /\ \E s \in Sockets : actpas_type[s] # "NONE" /\ Table!Acquire(n, "entry", s)
    /\ Goto(n, "deliver")
    /\ UNCHANGED <<entryVars, waitVars, localVars, tcpVars>>

\* A passive socket gets a pending connection.  What a segment does to an
\* active one is part of TcpEvent.
NetDeliver(n) ==
    LET s == Entry(n) IN
    /\ pc[n] = "deliver"
    /\ IF actpas_type[s] = "PASSIVE" /\ npending[s] < MaxPending
       THEN /\ npending' = [npending EXCEPT ![s] = @ + 1]
            /\ cv_pending' = {h \in cv_pending : Entry(h) # s}
       ELSE UNCHANGED <<npending, cv_pending>>
    /\ Goto(n, "release")
    /\ UNCHANGED <<tableVars, actpas_type, creator_thread, tcp_state, flags, tcp_thread,
                   want, cv_tcp_state, localVars, tcpVars>>

NetRelease(n) ==
    /\ pc[n] = "release"
    /\ Table!Release(n, "entry")
    /\ Goto(n, "recv")
    /\ UNCHANGED <<entryVars, waitVars, localVars, tcpVars>>

-----------------------------------------------------------------------------

\* Two handlers have decided to free one passive socket: each has found it in
\* LISTEN while it had a reference, and gives the reference up to free it.
SharedFree(h, k) ==
    /\ h # k /\ sockfd[h] = sockfd[k]
    /\ {pc[h], pc[k]} \subseteq {"close_release", "close_free", "exit_free"}

\* Where the model stops, since what the code does from there on is undefined: an
\* entry is about to be freed twice; an entry's locks, buffers and tcp_thread are
\* initialized under those who use them; or a thread is joined that was not created.
Undefined ==
    \/ \E h, k \in HandlerThreads : SharedFree(h, k)
    \/ setup_again # {}
    \/ \E h \in HandlerThreads : pc[h] = "exit_join" /\ join[h] = NULL

Request(h) ==
    \/ "SOCKET" \in Requests /\ Socket(h)
    \/ "leave" \in Requests /\ ClientLeaves(h)
    \/ NewClient(h)
    \/ \E s \in Sockets :
          \/ "LISTEN" \in Requests /\ Listen(h, s)
          \/ "CONNECT" \in Requests /\ BeginConnect(h, s)
          \/ "ACCEPT" \in Requests /\ BeginAccept(h, s)
          \/ "CLOSE" \in Requests /\ BeginClose(h, s)
          \/ "WAIT_FOR_STATE" \in Requests /\ BeginWaitForState(h, s)

\* What a handler does on its own once a request has come in.
HandlerStep(h) ==
    \/ SocketInit(h)
    \/ Connect(h) \/ ConnectSignal(h) \/ ConnectTimeout(h)
    \/ WaitForState(h) \/ Wake(h) \/ ReleaseEntry(h)
    \/ Close(h) \/ CloseRelease(h) \/ CloseSignal(h)
    \/ Accept(h) \/ AcceptAllocate(h) \/ AcceptAcquire(h) \/ AcceptStart(h)
    \/ ExitLoop(h) \/ ExitForceClosed(h) \/ ExitCleanup(h) \/ ExitRelease(h)
    \/ ExitJoin(h) \/ ExitOther(h)
    \/ FreeEntrySteps(h)

TcpStep(t) ==
    \/ TcpEvent(t)
    \/ TcpUpdateState(t)
    \/ TcpSetCleanup(t)
    \/ FreeEntrySteps(t)
    \/ TcpExit(t)

NetStep(n) == NetDeliver(n) \/ NetRelease(n)

Next ==
    \/ /\ ~Undefined
       /\ \/ \E h \in HandlerThreads : Request(h) \/ HandlerStep(h)
          \/ \E t \in TcpThreads : TcpStep(t)
          \/ \E n \in NetThreads : NetLookup(n) \/ NetStep(n)
    \/ Undefined /\ UNCHANGED vars

Spec == Init /\ [][Next]_vars

\* The scheduler lets every thread run: a handler finishes what it can do for
\* its request, a TCP thread handles the flags that are raised, a network
\* thread delivers its segment.  Nothing is assumed of the network.
ThreadFairness ==
    /\ \A h \in HandlerThreads : WF_vars(~Undefined /\ HandlerStep(h))
    /\ \A t \in TcpThreads :
          WF_vars(~Undefined /\ TcpStep(t) /\ (pc[t] = "loop" => flags[tsock[t]] # {}))
    /\ \A n \in NetThreads : WF_vars(~Undefined /\ NetStep(n))

ThreadSpec == Spec /\ ThreadFairness

-----------------------------------------------------------------------------
(* Properties.                                                             *)

\* The daemon's threads use the socket table by its rules: whoever calls
\* chitcpd_free_socket_entry holds no reference, the entry is in use and
\* nobody else has freed it or is freeing it, and only what was looked up is
\* released.  So what is proved about SocketTable holds in the daemon, until two
\* handlers have decided to free one socket; and this takes a CLOSE of a
\* listening socket by a client that did not create it.
TableRules ==
    /\ Table!Spec
    /\ [](\A h, k \in HandlerThreads :
             SharedFree(h, k) =>
                 \E c \in {h, k} : pc[c] # "exit_free" /\ creator_thread[sockfd[c]] # c)

\* No wake-up is lost: a handler asleep in CONNECT, ACCEPT, CLOSE or
\* WAIT_FOR_STATE is waiting for something that has not happened yet, in
\* particular not for an entry that is being freed.  (LISTEN on a socket that is
\* set up already changes its state and wakes nobody.)
SleepersMustWait ==
    /\ \A h \in cv_tcp_state :
          /\ Waited(h) \notin setup_again => tcp_state[Waited(h)] \notin want[h]
          /\ ~freeing[Waited(h)]
    /\ \A h \in cv_pending :
          npending[Entry(h)] = 0 /\ ~freeing[Entry(h)]

\* A TCP thread uses its entry without holding a reference to it: this is safe
\* because no other thread ever frees an active socket, and the entry is its
\* alone, unless a CONNECT or LISTEN on the socket finds it CLOSED (not connected
\* yet, or not any more) and sets it up once more.
TcpThreadOwnsEntry ==
    \A t \in TcpThreads :
        pc[t] \notin {"none", "finished"} =>
            /\ ~available[tsock[t]]
            /\ tsock[t] \notin setup_again =>
                   /\ actpas_type[tsock[t]] = "ACTIVE"
                   /\ tcp_thread[tsock[t]] = t
                   /\ \A u \in Threads \ {t} : fsock[u] # tsock[t]

\* The assertion in ACCEPT after chitcpd_acquire_socket: the slot it has just
\* allocated can be acquired, whatever the other threads do in between.
AcceptCanAcquire ==
    \A h \in HandlerThreads :
        pc[h] = "accept_acquire" => Table!InUse(sockfd[h])

\* "Cleanup can only happen in the CLOSED state": the assertion of the TCP
\* thread's event loop.
CleanupInClosed ==
    \A t \in TcpThreads :
        pc[t] = "cleanup" /\ fpc[t] = "none" => tcp_state[tsock[t]] = "CLOSED"

\* Nobody is stuck: every call of chitcpd_free_socket_entry returns, since whoever
\* uses the entry is woken up and releases it, and a handler whose client is gone
\* terminates, since it gets hold of every socket it created and each TCP thread
\* that it joins does exit, if there is one.
NobodyStuck ==
    /\ \A s \in Sockets : []<>(~freeing[s] \/ Undefined)
    /\ \A h \in HandlerThreads : []<>(pc[h] \notin ExitPcs \/ Undefined)
=============================================================================
