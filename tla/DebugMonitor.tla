---------------------------- MODULE DebugMonitor ----------------------------
(***************************************************************************)
(* Debug monitors (src/chitcpd/breakpoint.c): a client's connection that   *)
(* is shared by all the sockets it monitors, used by every thread that     *)
(* meets a breakpoint on one of them, and destroyed by the last of these   *)
(* threads when the client is gone or no socket refers to it.              *)
(*                                                                         *)
(* An entry's debug_monitor pointer is protected by lock_debug_monitor;    *)
(* the monitor itself by lock_sockfd, which is held while the client       *)
(* thinks, so that a thread must give up the first lock to wait for the    *)
(* second.  numwaiters keeps the monitor alive in between.                 *)
(***************************************************************************)
EXTENDS Integers, FiniteSets

CONSTANTS
    Entries,           \* slots of chisocket_table
    Monitors,          \* the monitors ever created, which bounds their number
    Threads,           \* threads of the daemon that meet a breakpoint or free a socket
    NULL

ASSUME MonitorAssumption ==
    /\ IsFiniteSet(Entries) /\ IsFiniteSet(Threads)
    /\ NULL \notin Entries \cup Monitors \cup Threads

VARIABLES
    status,          \* the life of an entry, see Statuses
    debug_monitor,   \* chisocketentry_t.debug_monitor
    tested,          \* the entry a monitor is being created for, or NULL
    created,         \* the monitors allocated so far
    destroyed,       \* the monitors freed
    lock_sockfd,     \* the thread that holds it, or NULL
    numwaiters, ref_count, dying,
    lost,            \* history: pointers to the monitor overwritten or zeroed, uncounted
    tpc, tentry, tmon,
    tnew             \* the thread's new_sockfd argument, or NULL

monitorVars == <<tested, created, destroyed, lock_sockfd, numwaiters, ref_count, dying, lost>>
threadVars == <<tpc, tentry, tmon, tnew>>
vars == <<status, debug_monitor, monitorVars, threadVars>>

\* "accepting": allocated by ACCEPT, which has published its addresses and tells
\* the client its number in a breakpoint; "closing": in chitcpd_free_socket_entry
\* before the monitor is detached; "detached": after that, and before the entry
\* is cleared.
Statuses == {"free", "used", "accepting", "closing", "detached"}

TypeOK ==
    /\ status \in [Entries -> Statuses]
    /\ debug_monitor \in [Entries -> Monitors \cup {NULL}]
    /\ tested \in [Monitors -> Entries \cup {NULL}]
    /\ created \subseteq Monitors /\ destroyed \subseteq created
    /\ lock_sockfd \in [Monitors -> Threads \cup {NULL}]
    /\ numwaiters \in [Monitors -> Nat]
    /\ ref_count \in [Monitors -> Nat]
    /\ dying \in [Monitors -> BOOLEAN]
    /\ lost \in [Monitors -> Nat]
    /\ tpc \in [Threads -> {"idle", "lock", "recheck", "exchange", "stop", "attach", "remove",
                            "release", "destroy", "detach_lock", "detach", "detach_release",
                            "detach_destroy"}]
    /\ tentry \in [Threads -> Entries \cup {NULL}]
    /\ tmon \in [Threads -> Monitors \cup {NULL}]
    /\ tnew \in [Threads -> Entries \cup {NULL}]

Init ==
    /\ status = [e \in Entries |-> "free"]
    /\ debug_monitor = [e \in Entries |-> NULL]
    /\ tested = [m \in Monitors |-> NULL]
    /\ created = {} /\ destroyed = {}
    /\ lock_sockfd = [m \in Monitors |-> NULL]
    /\ numwaiters = [m \in Monitors |-> 0]
    /\ ref_count = [m \in Monitors |-> 0]
    /\ dying = [m \in Monitors |-> FALSE]
    /\ lost = [m \in Monitors |-> 0]
    /\ tpc = [t \in Threads |-> "idle"]
    /\ tentry = [t \in Threads |-> NULL]
    /\ tmon = [t \in Threads |-> NULL]
    /\ tnew = [t \in Threads |-> NULL]

Goto(t, l) == tpc' = [tpc EXCEPT ![t] = l]

-----------------------------------------------------------------------------
(* chitcpd_init_debug_connection.                                          *)

\* available is tested without a lock, and freeing is not tested at all.
TestAvailable(m, e) ==
    /\ m \notin created /\ tested[m] = NULL
    /\ status[e] # "free"
    /\ tested' = [tested EXCEPT ![m] = e]
    /\ UNCHANGED <<status, debug_monitor, created, destroyed, lock_sockfd, numwaiters,
                   ref_count, dying, lost, threadVars>>

\* The entry, locked now, may by this time be anywhere in
\* chitcpd_free_socket_entry, or free again.  With EAGAIN the monitor is freed.
InitDebugConnection(m) ==
    /\ tested[m] # NULL
    /\ tested' = [tested EXCEPT ![m] = NULL]
    /\ \/ /\ debug_monitor[tested[m]] = NULL
          /\ created' = created \cup {m}
          /\ ref_count' = [ref_count EXCEPT ![m] = 1]
          /\ debug_monitor' = [debug_monitor EXCEPT ![tested[m]] = m]
       \/ /\ debug_monitor[tested[m]] # NULL
          /\ UNCHANGED <<debug_monitor, created, ref_count>>
    /\ UNCHANGED <<status, destroyed, lock_sockfd, numwaiters, dying, lost, threadVars>>

\* The history of an assignment to an entry's pointer that takes no reference
\* off the count of the monitor the entry had.
LosePointer(e) ==
    lost' = [m \in Monitors |-> IF debug_monitor[e] = m THEN lost[m] + 1 ELSE lost[m]]

-----------------------------------------------------------------------------
(* chitcpd_debug_breakpoint.                                               *)

\* A thread that meets a breakpoint has a reference to the entry, or is its TCP
\* thread, or has found it by its addresses; new is the active entry ACCEPT has
\* allocated.  obtain_debug_mon and the first half of debug_mon_lock are under
\* lock_debug_monitor.
ObtainDebugMon(t, e, new) ==
    /\ tpc[t] = "idle"
    /\ status[e] \in {"used", "accepting"}
    /\ debug_monitor[e] # NULL
    /\ new \in {NULL} \cup {x \in Entries : status[x] = "free"}
    /\ status' = IF new = NULL THEN status ELSE [status EXCEPT ![new] = "accepting"]
    /\ numwaiters' = [numwaiters EXCEPT ![debug_monitor[e]] = @ + 1]
    /\ tmon' = [tmon EXCEPT ![t] = debug_monitor[e]]
    /\ tentry' = [tentry EXCEPT ![t] = e]
    /\ tnew' = [tnew EXCEPT ![t] = new]
    /\ Goto(t, "lock")
    /\ UNCHANGED <<debug_monitor, tested, created, destroyed, lock_sockfd, ref_count, dying, lost>>

\* The second half of debug_mon_lock.
Lock(t) ==
    /\ tpc[t] \in {"lock", "detach_lock"}
    /\ lock_sockfd[tmon[t]] = NULL
    /\ lock_sockfd' = [lock_sockfd EXCEPT ![tmon[t]] = t]
    /\ numwaiters' = [numwaiters EXCEPT ![tmon[t]] = @ - 1]
    /\ Goto(t, IF tpc[t] = "lock" THEN "recheck" ELSE "detach")
    /\ UNCHANGED <<status, debug_monitor, tested, created, destroyed, ref_count, dying, lost,
                   tentry, tmon, tnew>>

\* "Perhaps this debug_mon is no longer being used with this socket."
Recheck(t) ==
    /\ tpc[t] = "recheck"
    /\ Goto(t, IF debug_monitor[tentry[t]] = tmon[t] THEN "exchange" ELSE "release")
    /\ UNCHANGED <<status, debug_monitor, monitorVars, tentry, tmon, tnew>>

\* The client answers, or its connection fails.  Answers other than STOP and
\* ACCEPT_MONITOR (for a pending connection) do not concern the monitor.
Exchange(t) ==
    /\ tpc[t] = "exchange"
    /\ \/ /\ dying' = [dying EXCEPT ![tmon[t]] = TRUE]
          /\ Goto(t, "remove")
       \/ Goto(t, "stop") /\ UNCHANGED dying
       \/ tnew[t] # NULL /\ Goto(t, "attach") /\ UNCHANGED dying
       \/ Goto(t, "release") /\ UNCHANGED dying
    /\ UNCHANGED <<status, debug_monitor, tested, created, destroyed, lock_sockfd, numwaiters,
                   ref_count, lost, tentry, tmon, tnew>>

\* Mutation of DetachMonitorFromEntry: the last detach does not mark the monitor.
DetachUnmarked(m, e) ==
    /\ UNCHANGED dying
    /\ IF debug_monitor[e] = m
       THEN /\ debug_monitor' = [debug_monitor EXCEPT ![e] = NULL]
            /\ ref_count' = [ref_count EXCEPT ![m] = @ - 1]
       ELSE UNCHANGED <<debug_monitor, ref_count>>

\* detach_monitor_from_entry, under the entry's lock_debug_monitor.
DetachMonitorFromEntry(m, e) ==
    IF debug_monitor[e] = m
    THEN /\ debug_monitor' = [debug_monitor EXCEPT ![e] = NULL]
         /\ ref_count' = [ref_count EXCEPT ![m] = @ - 1]
         /\ dying' = [dying EXCEPT ![m] = @ \/ ref_count[m] = 1]
    ELSE UNCHANGED <<debug_monitor, ref_count, dying>>

\* DBG_RESP_STOP.  A monitor that is dying is then removed from the table.
RespStop(t) ==
    /\ tpc[t] = "stop"
    /\ DetachMonitorFromEntry(tmon[t], tentry[t])
    /\ Goto(t, IF dying'[tmon[t]] THEN "remove" ELSE "release")
    /\ UNCHANGED <<status, tested, created, destroyed, lock_sockfd, numwaiters, lost, tentry, tmon,
                   tnew>>

\* Mutation of RespAcceptMonitor: the new socket is not counted.
AttachUncounted(t) ==
    /\ tpc[t] = "attach"
    /\ debug_monitor' = [debug_monitor EXCEPT ![tnew[t]] = tmon[t]]
    /\ LosePointer(tnew[t])
    /\ Goto(t, "release")
    /\ UNCHANGED <<status, tested, created, destroyed, lock_sockfd, numwaiters, ref_count, dying,
                   tentry, tmon, tnew>>

\* DBG_RESP_ACCEPT_MONITOR: attach_monitor_and_flags_to_entry, which does not look
\* whether a client has attached a monitor to the new socket in the meantime.
\* ref_count is only touched by the holder of lock_sockfd.
RespAcceptMonitor(t) ==
    /\ tpc[t] = "attach"
    /\ debug_monitor' = [debug_monitor EXCEPT ![tnew[t]] = tmon[t]]
    /\ LosePointer(tnew[t])
    /\ ref_count' = [ref_count EXCEPT ![tmon[t]] = @ + 1]
    /\ Goto(t, "release")
    /\ UNCHANGED <<status, tested, created, destroyed, lock_sockfd, numwaiters, dying, tentry,
                   tmon, tnew>>

\* debug_mon_remove_from_chisocket_table takes the lock of one entry at a time.
\* Nobody else can attach the monitor, so the order does not matter.
RemoveFromTable(t) ==
    /\ tpc[t] = "remove"
    /\ \/ \E e \in Entries :
             /\ debug_monitor[e] = tmon[t]
             /\ DetachMonitorFromEntry(tmon[t], e)
             /\ UNCHANGED tpc
       \/ /\ \A e \in Entries : debug_monitor[e] # tmon[t]
          /\ Goto(t, "release")
          /\ UNCHANGED <<debug_monitor, ref_count, dying>>
    /\ UNCHANGED <<status, tested, created, destroyed, lock_sockfd, numwaiters, lost, tentry, tmon,
                   tnew>>

-----------------------------------------------------------------------------
(* chitcpd_free_socket_entry and chitcpd_debug_detach_monitor.             *)

\* No thread has a reference to the entry any more.  As in obtain_debug_mon, the
\* thread is a waiter of the monitor before it gives up lock_debug_monitor.
FreeSocketEntry(t, e) ==
    /\ tpc[t] = "idle"
    /\ status[e] = "used"
    /\ \A u \in Threads : e \notin {tentry[u], tnew[u]}
    /\ LET m == debug_monitor[e]
       IN \/ /\ m = NULL
             /\ status' = [status EXCEPT ![e] = "detached"]
             /\ UNCHANGED <<numwaiters, threadVars>>
          \/ /\ m # NULL
             /\ status' = [status EXCEPT ![e] = "closing"]
             /\ numwaiters' = [numwaiters EXCEPT ![m] = @ + 1]
             /\ tmon' = [tmon EXCEPT ![t] = m]
             /\ tentry' = [tentry EXCEPT ![t] = e]
             /\ Goto(t, "detach_lock")
             /\ UNCHANGED tnew
    /\ UNCHANGED <<debug_monitor, tested, created, destroyed, lock_sockfd, ref_count, dying, lost>>

Detach(t) ==
    /\ tpc[t] = "detach"
    /\ DetachMonitorFromEntry(tmon[t], tentry[t])
    /\ Goto(t, "detach_release")
    /\ UNCHANGED <<status, tested, created, destroyed, lock_sockfd, numwaiters, lost, tentry, tmon,
                   tnew>>

\* The memset at the end of chitcpd_free_socket_entry.
ClearEntry(e) ==
    /\ status[e] = "detached"
    /\ status' = [status EXCEPT ![e] = "free"]
    /\ debug_monitor' = [debug_monitor EXCEPT ![e] = NULL]
    /\ LosePointer(e)
    /\ UNCHANGED <<tested, created, destroyed, lock_sockfd, numwaiters, ref_count, dying,
                   threadVars>>

\* chitcpd_allocate_socket, for SOCKET or for ACCEPT on a socket without a
\* monitor.  It leaves debug_monitor alone.
AllocateSocket(e) ==
    /\ status[e] = "free"
    /\ status' = [status EXCEPT ![e] = "used"]
    /\ UNCHANGED <<debug_monitor, monitorVars, threadVars>>

-----------------------------------------------------------------------------
(* debug_mon_release.                                                      *)

\* The call of chitcpd_debug_breakpoint or chitcpd_debug_detach_monitor is over.
Return(t) ==
    /\ Goto(t, "idle")
    /\ tentry' = [tentry EXCEPT ![t] = NULL]
    /\ tmon' = [tmon EXCEPT ![t] = NULL]
    /\ tnew' = [tnew EXCEPT ![t] = NULL]
    /\ status' = [e \in Entries |->
                     IF e = tnew[t] THEN "used"
                     ELSE IF e = tentry[t] /\ status[e] = "closing" THEN "detached"
                     ELSE status[e]]

\* Mutation of Unneeded: the waiters are not considered.
UnneededByTable(m) == dying[m]

Unneeded(m) == dying[m] /\ numwaiters[m] = 0

\* debug_mon_unlock.
ReleaseUnlock(t) ==
    /\ tpc[t] \in {"release", "detach_release"}
    /\ ~Unneeded(tmon[t])
    /\ lock_sockfd' = [lock_sockfd EXCEPT ![tmon[t]] = NULL]
    /\ Return(t)
    /\ UNCHANGED <<debug_monitor, tested, created, destroyed, numwaiters, ref_count, dying, lost>>

\* lock_numwaiters is released between the test and the destruction.
ReleaseLast(t) ==
    /\ tpc[t] \in {"release", "detach_release"}
    /\ Unneeded(tmon[t])
    /\ Goto(t, IF tpc[t] = "release" THEN "destroy" ELSE "detach_destroy")
    /\ UNCHANGED <<status, debug_monitor, monitorVars, tentry, tmon, tnew>>

DebugMonDestroy(t) ==
    /\ tpc[t] \in {"destroy", "detach_destroy"}
    /\ destroyed' = destroyed \cup {tmon[t]}
    /\ lock_sockfd' = [lock_sockfd EXCEPT ![tmon[t]] = NULL]
    /\ Return(t)
    /\ UNCHANGED <<debug_monitor, tested, created, numwaiters, ref_count, dying, lost>>

-----------------------------------------------------------------------------
\* The steps a thread takes once it has entered a call.
Step(t) ==
    \/ Lock(t) \/ Recheck(t) \/ Exchange(t) \/ RespStop(t) \/ RespAcceptMonitor(t)
    \/ RemoveFromTable(t) \/ Detach(t)
    \/ ReleaseUnlock(t) \/ ReleaseLast(t) \/ DebugMonDestroy(t)

Next ==
    \/ \E m \in Monitors : InitDebugConnection(m) \/ \E e \in Entries : TestAvailable(m, e)
    \/ \E t \in Threads :
          \/ \E e \in Entries, new \in Entries \cup {NULL} : ObtainDebugMon(t, e, new)
          \/ \E e \in Entries : FreeSocketEntry(t, e)
          \/ Step(t)
    \/ \E e \in Entries : AllocateSocket(e) \/ ClearEntry(e)

Spec == Init /\ [][Next]_vars

\* The client answers every event in the end, or its connection breaks.
FairSpec == Spec /\ \A t \in Threads : WF_vars(Step(t))

-----------------------------------------------------------------------------
(* Properties.                                                             *)

\* A monitor is not destroyed under a thread that waits for it or uses it, nor
\* while an entry points to it: after debug_mon_release has found no waiters
\* "there never will be" any.
NoUseAfterDestroy ==
    /\ \A t \in Threads : tmon[t] \notin destroyed
    /\ \A e \in Entries : debug_monitor[e] \notin destroyed

\* ref_count is the number of sockets that refer to the monitor, although the
\* pointers and the count are under different locks, and of the references that
\* were lost: a client's monitor is forgotten without a detach when the socket
\* was being freed as it attached (the memset), or when another monitor's
\* ACCEPT_MONITOR takes the new socket over.
RefCountExact ==
    \A m \in created :
        ref_count[m] = Cardinality({e \in Entries : debug_monitor[e] = m}) + lost[m]

\* A monitor is "destroyed once no chisockets refer to it" (breakpoint.h): in the
\* end one that no entry refers to is destroyed (and its connection closed), or
\* is given another socket first, unless one of its references was lost; and
\* one whose client is gone is destroyed in any case, however many threads were
\* waiting for it.
UnneededDestroyed ==
    \A m \in Monitors :
        /\ dying[m] ~> m \in destroyed
        /\ m \in created /\ (\A e \in Entries : debug_monitor[e] # m) ~>
               m \in destroyed \/ lost[m] > 0 \/ \E e \in Entries : debug_monitor[e] = m
=============================================================================
