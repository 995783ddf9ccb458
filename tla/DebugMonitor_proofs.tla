------------------------- MODULE DebugMonitor_proofs ------------------------
(***************************************************************************)
(* Proofs about debug monitors, for any number of sockets, monitors and    *)
(* threads.                                                                *)
(*                                                                         *)
(* A monitor is destroyed by the thread that holds lock_sockfd and finds   *)
(* it dying and without waiters.  That no entry refers to it then is not   *)
(* tested: it follows from the count, which is the number of references    *)
(* and of those that were lost, and so never below the number of           *)
(* references, and from the removal that goes before every release of a    *)
(* monitor whose client is gone.                                           *)
(***************************************************************************)
EXTENDS DebugMonitor, FiniteSetTheorems, TLAPS

Referring(m) == {e \in Entries : debug_monitor[e] = m}

Waiting == {"lock", "detach_lock"}
Waiters(m) == {t \in Threads : tpc[t] \in Waiting /\ tmon[t] = m}

\* The parts of a call of chitcpd_debug_breakpoint and of
\* chitcpd_debug_detach_monitor.
InBreakpoint == {"lock", "recheck", "exchange", "stop", "attach", "remove", "release", "destroy"}
InDetach == {"detach_lock", "detach", "detach_release", "detach_destroy"}
Answering == {"exchange", "stop", "attach"}
Destroying == {"destroy", "detach_destroy"}

\* A thread has a monitor and an entry exactly while it is in a call.
CallShape ==
    \A t \in Threads :
        /\ tpc[t] = "idle" => tmon[t] = NULL /\ tentry[t] = NULL /\ tnew[t] = NULL
        /\ tpc[t] # "idle" => tmon[t] \in created /\ tentry[t] \in Entries
        /\ tpc[t] = "attach" => tnew[t] # NULL

\* A thread past debug_mon_lock owns lock_sockfd.
LockOwned ==
    \A t \in Threads :
        tpc[t] \notin Waiting \cup {"idle"} => lock_sockfd[tmon[t]] = t

\* numwaiters is the number of threads waiting for lock_sockfd.
WaitersExact == \A m \in Monitors : numwaiters[m] = Cardinality(Waiters(m))

\* The entry of a breakpoint stays in use; an entry that is being freed, and
\* one that ACCEPT has allocated, belong to one thread.
EntryStatus ==
    \A t \in Threads :
        /\ tpc[t] \in InBreakpoint => status[tentry[t]] \in {"used", "accepting"}
        /\ tpc[t] \in InDetach =>
               /\ status[tentry[t]] = "closing"
               /\ \A u \in Threads \ {t} : tentry[u] # tentry[t]
        /\ tnew[t] # NULL =>
               /\ status[tnew[t]] = "accepting"
               /\ \A u \in Threads \ {t} : tnew[u] # tnew[t]

\* Pointers are to monitors that exist, a monitor that is being created is not
\* yet one of these, and a client that is asked, or has answered, is not gone.
LiveMonitors ==
    /\ \A e \in Entries : debug_monitor[e] # NULL => debug_monitor[e] \in created
    /\ \A m \in Monitors : tested[m] # NULL => m \notin created
    /\ \A m \in Monitors \ created : lost[m] = 0
    /\ \A t \in Threads : tpc[t] \in Answering => ~dying[tmon[t]]

\* RefCountExact, with the references as a set that has a name.
CountExact == \A m \in created : ref_count[m] = Cardinality(Referring(m)) + lost[m]

\* No entry refers to a dying monitor, or a thread is removing it from the table.
DyingRemoved ==
    \A m \in Monitors :
        dying[m] =>
            /\ m \in created
            /\ Referring(m) = {} \/ \E t \in Threads : tpc[t] = "remove" /\ tmon[t] = m

\* A thread about to destroy its monitor is the last one that can reach it.
LastUser ==
    \A t \in Threads, m \in Monitors :
        tpc[t] \in Destroying /\ tmon[t] = m => Waiters(m) = {} /\ Referring(m) = {}

MonitorInv ==
    /\ TypeOK
    /\ CallShape
    /\ LockOwned
    /\ WaitersExact
    /\ EntryStatus
    /\ LiveMonitors
    /\ CountExact
    /\ DyingRemoved
    /\ LastUser
    /\ NoUseAfterDestroy

-----------------------------------------------------------------------------

\* References and waiters can be counted.
LEMMA CountsFinite ==
    /\ \A m : /\ IsFiniteSet(Referring(m))
              /\ Cardinality(Referring(m)) \in Nat
              /\ Cardinality(Referring(m)) = 0 <=> Referring(m) = {}
    /\ \A m : /\ IsFiniteSet(Waiters(m))
              /\ Cardinality(Waiters(m)) \in Nat
              /\ Cardinality(Waiters(m)) = 0 <=> Waiters(m) = {}
<1>1. \A m : IsFiniteSet(Referring(m)) /\ IsFiniteSet(Waiters(m))
  <2> TAKE m
  <2>1. Referring(m) \subseteq Entries /\ Waiters(m) \subseteq Threads
    BY Zenon DEF Referring, Waiters
  <2> QED BY Zenon, <2>1, MonitorAssumption, FS_Subset
<1> QED BY Zenon, <1>1, FS_CardinalityType, FS_EmptySet

\* NULL is none of the things a pointer can refer to.
LEMMA NullIsNothing == NULL \notin Entries /\ NULL \notin Monitors /\ NULL \notin Threads
BY Zenon, MonitorAssumption

\* A monitor has at most one thread past debug_mon_lock.
LEMMA OneOwner ==
    ASSUME MonitorInv, NEW t \in Threads, NEW u \in Threads,
           tpc[t] \notin Waiting \cup {"idle"}, tpc[u] \notin Waiting \cup {"idle"},
           tmon[t] = tmon[u]
    PROVE  t = u
BY Zenon DEF MonitorInv, LockOwned

\* The unlocked test of chitcpd_init_debug_connection changes nothing that is shared.
LEMMA TestAvailablePreserves ==
    ASSUME MonitorInv, NEW m \in Monitors, NEW e \in Entries, TestAvailable(m, e)
    PROVE  MonitorInv'
<1>0. TypeOK
  BY Zenon DEF MonitorInv
<1>a. /\ m \notin created
      /\ tested' = [tested EXCEPT ![m] = e]
      /\ UNCHANGED <<status, debug_monitor, created, destroyed, lock_sockfd, numwaiters,
                     ref_count, dying, lost, tpc, tentry, tmon, tnew>>
  BY Zenon DEF TestAvailable, threadVars
<1>b. \A n : Referring(n)' = Referring(n) /\ Waiters(n)' = Waiters(n)
  BY Zenon, <1>a DEF Referring, Waiters
<1>1. TypeOK'
  BY Zenon, <1>0, <1>a DEF TypeOK
<1>2. CallShape' /\ LockOwned' /\ EntryStatus' /\ NoUseAfterDestroy'
  BY Zenon, <1>a DEF MonitorInv, CallShape, LockOwned, EntryStatus, NoUseAfterDestroy
<1>3. WaitersExact' /\ CountExact' /\ DyingRemoved' /\ LastUser'
  BY Zenon, <1>a, <1>b DEF MonitorInv, WaitersExact, CountExact, DyingRemoved, LastUser
<1>4. LiveMonitors'
  BY Zenon, <1>0, <1>a DEF MonitorInv, LiveMonitors, TypeOK
<1> QED BY Zenon, <1>1, <1>2, <1>3, <1>4 DEF MonitorInv

\* chitcpd_init_debug_connection: the first reference to a monitor nobody knows,
\* or EAGAIN.
LEMMA InitDebugConnectionPreserves ==
    ASSUME MonitorInv, NEW m \in Monitors, InitDebugConnection(m)
    PROVE  MonitorInv'
<1>0. TypeOK
  BY Zenon DEF MonitorInv
<1>e. PICK e \in Entries : e = tested[m]
  BY Zenon, <1>0 DEF InitDebugConnection, TypeOK
<1>a. /\ m \notin created
      /\ tested' = [tested EXCEPT ![m] = NULL]
      /\ UNCHANGED <<status, destroyed, lock_sockfd, numwaiters, dying, lost, tpc, tentry, tmon,
                     tnew>>
  BY Zenon DEF InitDebugConnection, threadVars, MonitorInv, LiveMonitors
<1>d. \A n : Waiters(n)' = Waiters(n)
  BY Zenon, <1>a DEF Waiters
<1>t. tested' \in [Monitors -> Entries \cup {NULL}] /\ tested'[m] = NULL
      /\ \A n \in Monitors \ {m} : tested'[n] = tested[n]
  BY Zenon, <1>0, <1>a DEF TypeOK
<1>3. LockOwned' /\ WaitersExact' /\ EntryStatus'
  BY Zenon, <1>a, <1>d DEF MonitorInv, LockOwned, WaitersExact, EntryStatus
<1>f. CASE UNCHANGED <<debug_monitor, created, ref_count>>
  <2>1. \A n : Referring(n)' = Referring(n)
    BY Zenon, <1>f DEF Referring
  <2>2. TypeOK'
    BY Zenon, <1>0, <1>a, <1>f, <1>t DEF TypeOK
  <2>3. CallShape' /\ NoUseAfterDestroy'
    BY Zenon, <1>a, <1>f DEF MonitorInv, CallShape, NoUseAfterDestroy
  <2>4. CountExact' /\ DyingRemoved' /\ LastUser'
    BY Zenon, <1>a, <1>d, <1>f, <2>1 DEF MonitorInv, CountExact, DyingRemoved, LastUser
  <2>5. LiveMonitors'
    BY Zenon, <1>a, <1>f, <1>t DEF MonitorInv, LiveMonitors
  <2> QED BY Zenon, <1>3, <2>2, <2>3, <2>4, <2>5 DEF MonitorInv
<1>g. CASE /\ debug_monitor[e] = NULL
           /\ created' = created \cup {m}
           /\ ref_count' = [ref_count EXCEPT ![m] = 1]
           /\ debug_monitor' = [debug_monitor EXCEPT ![e] = m]
           /\ lost[m] = 0
  <2>b. Referring(m) = {} /\ Referring(m)' = {e}
    BY <1>0, <1>a, <1>g, NullIsNothing DEF MonitorInv, LiveMonitors, Referring, TypeOK
  <2>c. \A n \in Monitors \ {m} : Referring(n)' = Referring(n)
    BY Zenon, <1>0, <1>g, NullIsNothing DEF Referring, TypeOK
  <2>1. TypeOK'
    BY Zenon, <1>0, <1>a, <1>g, <1>t DEF TypeOK
  <2>2. CallShape'
    BY Zenon, <1>a, <1>g DEF MonitorInv, CallShape
  <2>6. LiveMonitors'
    <3>1. \A x \in Entries : debug_monitor'[x] # NULL => debug_monitor'[x] \in created'
      BY Zenon, <1>0, <1>g DEF MonitorInv, LiveMonitors, TypeOK
    <3>2. \A n \in Monitors : tested'[n] # NULL => n \notin created'
      BY Zenon, <1>g, <1>t DEF MonitorInv, LiveMonitors
    <3>3. \A n \in Monitors \ created' : lost'[n] = 0
      BY Zenon, <1>a, <1>g DEF MonitorInv, LiveMonitors
    <3>4. \A u \in Threads : tpc'[u] \in Answering => ~dying'[tmon'[u]]
      BY Zenon, <1>a DEF MonitorInv, LiveMonitors
    <3> QED BY Zenon, <3>1, <3>2, <3>3, <3>4 DEF LiveMonitors
  <2>7. CountExact'
    <3>1. Cardinality(Referring(m)') = 1
      BY Zenon, <2>b, FS_Singleton
    <3>2. ref_count'[m] = 1
      BY Zenon, <1>0, <1>g DEF TypeOK
    <3>3. ref_count'[m] = Cardinality(Referring(m)') + lost'[m]
      BY <3>1, <3>2, <1>a, <1>g
    <3>4. \A n \in created : ref_count'[n] = Cardinality(Referring(n)') + lost'[n]
      <4> TAKE n \in created
      <4>1. n \in Monitors \ {m}
        BY Zenon, <1>0, <1>a DEF TypeOK
      <4>2. ref_count'[n] = ref_count[n] /\ lost'[n] = lost[n]
        BY Zenon, <4>1, <1>0, <1>a, <1>g DEF TypeOK
      <4> QED BY Zenon, <4>1, <4>2, <2>c DEF MonitorInv, CountExact
    <3> QED BY Zenon, <3>3, <3>4, <1>g DEF CountExact
  <2>9. DyingRemoved'
    BY Zenon, <1>a, <1>g, <2>c DEF MonitorInv, DyingRemoved
  <2>10. LastUser'
    <3> SUFFICES ASSUME NEW u \in Threads, NEW n \in Monitors, tpc[u] \in Destroying, tmon[u] = n
                 PROVE  Waiters(n)' = {} /\ Referring(n)' = {}
      BY Zenon, <1>a DEF LastUser
    <3>1. n \in Monitors \ {m}
      BY Zenon, <1>a DEF MonitorInv, CallShape, Destroying
    <3> QED BY Zenon, <3>1, <2>c, <1>d DEF MonitorInv, LastUser
  <2>11. NoUseAfterDestroy'
    BY Zenon, <1>0, <1>a, <1>g DEF MonitorInv, NoUseAfterDestroy, TypeOK
  <2> QED BY Zenon, <1>3, <2>1, <2>2, <2>6, <2>7, <2>9, <2>10, <2>11 DEF MonitorInv
<1>h. lost[m] = 0
  BY Zenon, <1>a DEF MonitorInv, LiveMonitors
<1> QED BY Zenon, <1>e, <1>f, <1>g, <1>h DEF InitDebugConnection

\* A thread becomes a waiter of the monitor an entry refers to, whose count it
\* finds under lock_debug_monitor: of the waiters, only its own set grows.
LEMMA BecomeWaiter ==
    ASSUME MonitorInv, NEW t \in Threads, NEW e \in Entries, NEW l \in Waiting,
           tpc[t] = "idle", debug_monitor[e] # NULL,
           numwaiters' = [numwaiters EXCEPT ![debug_monitor[e]] = @ + 1],
           tmon' = [tmon EXCEPT ![t] = debug_monitor[e]],
           Goto(t, l)
    PROVE  /\ debug_monitor[e] \in created /\ debug_monitor[e] \in Monitors
           /\ numwaiters' \in [Monitors -> Nat]
           /\ WaitersExact'
           /\ \A n \in Monitors \ {debug_monitor[e]} : Waiters(n)' = Waiters(n)
<1>0. TypeOK
  BY Zenon DEF MonitorInv
<1>1. PICK m \in created : m = debug_monitor[e] /\ m \in Monitors
  BY Zenon, <1>0 DEF MonitorInv, LiveMonitors, TypeOK
<1>a. /\ numwaiters' = [numwaiters EXCEPT ![m] = @ + 1]
      /\ tmon' = [tmon EXCEPT ![t] = m]
      /\ tpc' = [tpc EXCEPT ![t] = l]
  BY Zenon, <1>1 DEF Goto
<1>2. numwaiters' \in [Monitors -> Nat]
  BY <1>0, <1>1, <1>a DEF TypeOK
<1>3. Waiters(m)' = Waiters(m) \cup {t} /\ t \notin Waiters(m)
  BY <1>0, <1>a DEF TypeOK, Waiters, Waiting
<1>4. \A n \in Monitors \ {m} : Waiters(n)' = Waiters(n)
  BY <1>0, <1>a DEF TypeOK, Waiters, Waiting
<1>5. Cardinality(Waiters(m)') = Cardinality(Waiters(m)) + 1
  BY Zenon, <1>3, CountsFinite, FS_AddElement
<1>6. numwaiters'[m] = Cardinality(Waiters(m)')
  BY Zenon, <1>0, <1>1, <1>5, <1>a DEF MonitorInv, WaitersExact, TypeOK
<1>7. \A n \in Monitors \ {m} : numwaiters'[n] = Cardinality(Waiters(n)')
  BY Zenon, <1>0, <1>4, <1>a DEF MonitorInv, WaitersExact, TypeOK
<1>8. WaitersExact'
  BY Zenon, <1>6, <1>7 DEF WaitersExact
<1> QED BY Zenon, <1>1, <1>2, <1>4, <1>8

\* A breakpoint: the entry is in use, and the entry ACCEPT may have allocated
\* was free, so that no other thread is in a call about it.
LEMMA ObtainDebugMonPreserves ==
    ASSUME MonitorInv, NEW t \in Threads, NEW e \in Entries, NEW new \in Entries \cup {NULL},
           ObtainDebugMon(t, e, new)
    PROVE  MonitorInv'
<1>0. TypeOK
  BY Zenon DEF MonitorInv
<1>m. PICK m \in created : m = debug_monitor[e] /\ m \in Monitors
  BY Zenon, <1>0 DEF ObtainDebugMon, MonitorInv, LiveMonitors, TypeOK
<1>a. /\ tpc[t] = "idle"
      /\ status[e] \in {"used", "accepting"}
      /\ new # NULL => status[new] = "free"
      /\ status' = IF new = NULL THEN status ELSE [status EXCEPT ![new] = "accepting"]
      /\ numwaiters' = [numwaiters EXCEPT ![m] = @ + 1]
      /\ tmon' = [tmon EXCEPT ![t] = m]
      /\ tentry' = [tentry EXCEPT ![t] = e]
      /\ tnew' = [tnew EXCEPT ![t] = new]
      /\ tpc' = [tpc EXCEPT ![t] = "lock"]
      /\ UNCHANGED <<debug_monitor, tested, created, destroyed, lock_sockfd, ref_count, dying, lost>>
  BY Zenon, <1>m DEF ObtainDebugMon, Goto
<1>b. /\ numwaiters' \in [Monitors -> Nat]
      /\ WaitersExact'
      /\ \A n \in Monitors \ {m} : Waiters(n)' = Waiters(n)
  <2>1. "lock" \in Waiting
    BY Zenon DEF Waiting
  <2>2. debug_monitor[e] # NULL
    BY Zenon DEF ObtainDebugMon
  <2> QED BY Zenon, <2>1, <2>2, <1>m, <1>a, BecomeWaiter DEF Goto
<1>c. \A n : Referring(n)' = Referring(n)
  BY Zenon, <1>a DEF Referring
<1>d. e \in Referring(m)
  BY Zenon, <1>m DEF Referring
<1>e. \A x \in Entries : x # new => status'[x] = status[x]
  BY Zenon, <1>0, <1>a DEF TypeOK
<1>f. new # NULL => new \in Entries /\ status'[new] = "accepting"
  BY Zenon, <1>0, <1>a DEF TypeOK
<1>1. TypeOK'
  BY Zenon, <1>0, <1>m, <1>a, <1>b DEF TypeOK, Statuses
<1>2. CallShape'
  BY Zenon, <1>0, <1>a, <1>b DEF MonitorInv, CallShape, TypeOK
<1>3. LockOwned'
  BY Zenon, <1>0, <1>a DEF MonitorInv, LockOwned, Waiting, TypeOK
<1>5. EntryStatus'
  <2>1. \A u \in Threads \ {t} : /\ tpc'[u] = tpc[u] /\ tentry'[u] = tentry[u]
                                 /\ tnew'[u] = tnew[u]
    BY Zenon, <1>0, <1>a DEF TypeOK
  <2>2. tpc'[t] = "lock" /\ tentry'[t] = e /\ tnew'[t] = new
    BY Zenon, <1>0, <1>a DEF TypeOK
  <2>3. status'[e] \in {"used", "accepting"}
    BY Zenon, <1>a, <1>e
  <2>4. \A u \in Threads \ {t} : new # NULL => new # tnew[u] /\ (tpc[u] # "idle" => new # tentry[u])
    BY <1>0, <1>a DEF MonitorInv, EntryStatus, CallShape, InBreakpoint, InDetach, TypeOK
  <2>5. \A u \in Threads \ {t} :
           /\ tpc[u] \in InBreakpoint => status'[tentry[u]] \in {"used", "accepting"}
           /\ tpc[u] \in InDetach => status'[tentry[u]] = "closing" /\ tentry[u] # e
           /\ tnew[u] # NULL => status'[tnew[u]] = "accepting" /\ tnew[u] # new
    BY <1>0, <1>a, <1>e, <2>4
       DEF MonitorInv, EntryStatus, CallShape, InBreakpoint, InDetach, TypeOK
  <2>6. \A u \in Threads \ {t} :
           /\ tpc[u] \in InDetach => \A v \in Threads \ {u} : tentry'[v] # tentry[u]
           /\ tnew[u] # NULL => \A v \in Threads \ {u} : tnew'[v] # tnew[u]
    BY <1>0, <2>1, <2>2, <2>5 DEF MonitorInv, EntryStatus
  <2>7. new # NULL => status'[new] = "accepting" /\ \A v \in Threads \ {t} : tnew'[v] # new
    BY Zenon, <1>f, <2>1, <2>4
  <2> QED BY <2>1, <2>2, <2>3, <2>5, <2>6, <2>7 DEF EntryStatus, InDetach
<1>6. LiveMonitors'
  BY Zenon, <1>0, <1>a DEF MonitorInv, LiveMonitors, Answering, TypeOK
<1>7. CountExact'
  BY Zenon, <1>a, <1>c DEF MonitorInv, CountExact
<1>9. DyingRemoved'
  BY Zenon, <1>0, <1>a, <1>c DEF MonitorInv, DyingRemoved, TypeOK
<1>10. LastUser'
  <2> SUFFICES ASSUME NEW u \in Threads, NEW n \in Monitors, tpc'[u] \in Destroying, tmon'[u] = n
               PROVE  Waiters(n)' = {} /\ Referring(n)' = {}
    BY Zenon DEF LastUser
  <2>1. tpc[u] \in Destroying /\ tmon[u] = n
    BY Zenon, <1>0, <1>a DEF Destroying, TypeOK
  <2>2. Waiters(n) = {} /\ Referring(n) = {}
    BY Zenon, <2>1 DEF MonitorInv, LastUser
  <2> QED BY Zenon, <2>2, <1>b, <1>c, <1>d
<1>11. NoUseAfterDestroy'
  BY Zenon, <1>0, <1>a, <1>m DEF MonitorInv, NoUseAfterDestroy, TypeOK
<1> QED BY Zenon, <1>1, <1>2, <1>3, <1>b, <1>5, <1>6, <1>7, <1>9, <1>10, <1>11 DEF MonitorInv

\* What is common to the steps a thread takes while it owns lock_sockfd.
LEMMA OwnerStep ==
    ASSUME MonitorInv, NEW t \in Threads, NEW l \in (InBreakpoint \cup InDetach) \ Waiting,
           tpc[t] \notin Waiting \cup {"idle"},
           tpc[t] \in InBreakpoint <=> l \in InBreakpoint,
           l = "attach" => tnew[t] # NULL,
           Goto(t, l),
           UNCHANGED <<status, tested, created, destroyed, lock_sockfd, numwaiters, tentry, tmon, tnew>>
    PROVE  /\ tmon[t] \in created /\ tmon[t] \in Monitors /\ tentry[t] \in Entries
           /\ tpc' = [tpc EXCEPT ![t] = l]
           /\ tpc'[t] = l /\ \A u \in Threads \ {t} : tpc'[u] = tpc[u]
           /\ (TypeOK /\ debug_monitor' \in [Entries -> Monitors \cup {NULL}]
                      /\ ref_count' \in [Monitors -> Nat]
                      /\ dying' \in [Monitors -> BOOLEAN]
                      /\ lost' \in [Monitors -> Nat]) => TypeOK'
           /\ CallShape' /\ LockOwned' /\ WaitersExact' /\ EntryStatus'
           /\ \A n : Waiters(n)' = Waiters(n)
<1>0. TypeOK
  BY Zenon DEF MonitorInv
<1>a. /\ tpc' = [tpc EXCEPT ![t] = l]
      /\ UNCHANGED <<status, tested, created, destroyed, lock_sockfd, numwaiters, tentry, tmon, tnew>>
  BY Zenon DEF Goto
<1>1. tmon[t] \in created /\ tmon[t] \in Monitors /\ tentry[t] \in Entries
  BY Zenon, <1>0 DEF MonitorInv, CallShape, TypeOK
<1>2. tpc'[t] = l /\ \A u \in Threads \ {t} : tpc'[u] = tpc[u]
  BY Zenon, <1>0, <1>a DEF TypeOK
<1>3. l # "idle"
  BY Zenon DEF InBreakpoint, InDetach
<1>4. (TypeOK /\ debug_monitor' \in [Entries -> Monitors \cup {NULL}]
              /\ ref_count' \in [Monitors -> Nat]
              /\ dying' \in [Monitors -> BOOLEAN]
              /\ lost' \in [Monitors -> Nat]) => TypeOK'
  BY Zenon, <1>a DEF TypeOK, InBreakpoint, InDetach
<1>5. CallShape'
  BY Zenon, <1>a, <1>1, <1>2, <1>3 DEF MonitorInv, CallShape
<1>6. LockOwned'
  BY Zenon, <1>a, <1>2 DEF MonitorInv, LockOwned
<1>7. \A n : Waiters(n)' = Waiters(n)
  BY Zenon, <1>a, <1>2 DEF Waiters, Waiting
<1>8. WaitersExact'
  BY Zenon, <1>a, <1>7 DEF MonitorInv, WaitersExact
<1>9. EntryStatus'
  <2>1. tpc[t] \in InBreakpoint \cup InDetach
    BY Zenon, <1>0 DEF TypeOK, InBreakpoint, InDetach
  <2>2. l \in InDetach => tpc[t] \in InDetach
    BY Zenon, <2>1 DEF InBreakpoint, InDetach
  <2> QED BY <2>2, <1>a, <1>2 DEF MonitorInv, EntryStatus
<1> QED BY Zenon, <1>a, <1>1, <1>2, <1>4, <1>5, <1>6, <1>7, <1>8, <1>9

\* detach_monitor_from_entry takes one reference away and one off the count; a
\* monitor it marks is one that no entry refers to any more, because the count
\* covers the references.
LEMMA DetachOne ==
    ASSUME MonitorInv, NEW m \in created, NEW e \in Entries,
           DetachMonitorFromEntry(m, e), created' = created, lost' = lost
    PROVE  /\ debug_monitor' \in [Entries -> Monitors \cup {NULL}]
           /\ ref_count' \in [Monitors -> Nat]
           /\ dying' \in [Monitors -> BOOLEAN]
           /\ \A x \in Entries : debug_monitor'[x] = IF x = e /\ debug_monitor[x] = m THEN NULL
                                                     ELSE debug_monitor[x]
           /\ \A n \in Monitors : Referring(n)' \subseteq Referring(n)
           /\ \A n \in Monitors : dying'[n] => dying[n] \/ (n = m /\ Referring(m)' = {})
           /\ CountExact'
<1>0. TypeOK /\ m \in Monitors
  BY Zenon DEF MonitorInv, TypeOK
<1>1. CASE debug_monitor[e] # m
  <2>1. UNCHANGED <<debug_monitor, ref_count, dying>>
    BY Zenon, <1>1 DEF DetachMonitorFromEntry
  <2>2. \A n : Referring(n)' = Referring(n)
    BY Zenon, <2>1 DEF Referring
  <2>3. CountExact'
    BY Zenon, <2>1, <2>2 DEF MonitorInv, CountExact
  <2> QED BY Zenon, <1>0, <1>1, <2>1, <2>2, <2>3 DEF TypeOK
<1>2. CASE debug_monitor[e] = m
  <2>a. /\ debug_monitor' = [debug_monitor EXCEPT ![e] = NULL]
        /\ ref_count' = [ref_count EXCEPT ![m] = @ - 1]
        /\ dying' = [dying EXCEPT ![m] = @ \/ ref_count[m] = 1]
    BY Zenon, <1>2 DEF DetachMonitorFromEntry
  <2>1. Referring(m)' = Referring(m) \ {e} /\ e \in Referring(m)
    BY Zenon, <1>0, <1>2, <2>a, NullIsNothing DEF Referring, TypeOK
  <2>2. \A n \in Monitors \ {m} : Referring(n)' = Referring(n)
    BY Zenon, <1>0, <1>2, <2>a, NullIsNothing DEF Referring, TypeOK
  <2>3. Cardinality(Referring(m)') = Cardinality(Referring(m)) - 1
    BY Zenon, <2>1, CountsFinite, FS_RemoveElement
  <2>4. Cardinality(Referring(m)) \in Nat /\ Cardinality(Referring(m)) > 0
    <3>1. Cardinality(Referring(m)) # 0
      BY Zenon, <2>1, CountsFinite
    <3> QED BY <3>1, CountsFinite
  <2>5. ref_count[m] = Cardinality(Referring(m)) + lost[m] /\ lost[m] \in Nat
    BY Zenon, <1>0 DEF MonitorInv, CountExact, TypeOK
  <2>6. ref_count[m] = 1 => Referring(m)' = {}
    <3> SUFFICES ASSUME ref_count[m] = 1
                 PROVE  Referring(m)' = {}
      BY Zenon
    <3>1. Cardinality(Referring(m)) = 1
      BY <2>4, <2>5
    <3>2. Cardinality(Referring(m) \ {e}) = 0
      BY <3>1, <2>1, <2>3
    <3>3. IsFiniteSet(Referring(m) \ {e})
      BY Zenon, CountsFinite, FS_RemoveElement
    <3> QED BY Zenon, <3>2, <3>3, <2>1, FS_EmptySet
  <2>7. debug_monitor' \in [Entries -> Monitors \cup {NULL}]
    BY Zenon, <1>0, <2>a DEF TypeOK
  <2>8. ref_count' \in [Monitors -> Nat]
    BY <1>0, <2>a, <2>4, <2>5 DEF TypeOK
  <2>9. dying' \in [Monitors -> BOOLEAN]
    BY Zenon, <1>0, <2>a DEF TypeOK
  <2>10. \A x \in Entries : debug_monitor'[x] = IF x = e /\ debug_monitor[x] = m THEN NULL
                                                ELSE debug_monitor[x]
    BY Zenon, <1>0, <1>2, <2>a DEF TypeOK
  <2>11. \A n \in Monitors : dying'[n] => dying[n] \/ (n = m /\ ref_count[m] = 1)
    BY Zenon, <1>0, <2>a DEF TypeOK
  <2>12. CountExact'
    <3>1. ref_count'[m] = ref_count[m] - 1
      BY Zenon, <1>0, <2>a DEF TypeOK
    <3>2. \A n \in created \ {m} : n \in Monitors /\ ref_count'[n] = ref_count[n]
      BY Zenon, <1>0, <2>a DEF TypeOK
    <3>3. ref_count'[m] = Cardinality(Referring(m)') + lost'[m]
      BY <3>1, <2>3, <2>4, <2>5
    <3>4. \A n \in created \ {m} : ref_count'[n] = Cardinality(Referring(n)') + lost'[n]
      BY Zenon, <3>2, <2>2 DEF MonitorInv, CountExact
    <3> QED BY Zenon, <3>3, <3>4 DEF CountExact
  <2>13. \A n \in Monitors : Referring(n)' \subseteq Referring(n)
    BY Zenon, <2>1, <2>2
  <2> QED BY Zenon, <2>6, <2>7, <2>8, <2>9, <2>10, <2>11, <2>12, <2>13
<1> QED BY Zenon, <1>1, <1>2

\* A step of the owner that changes no reference: the conditions say which
\* facts the label it goes to needs.
LEMMA OwnerMoves ==
    ASSUME MonitorInv, NEW t \in Threads, NEW l \in (InBreakpoint \cup InDetach) \ Waiting,
           tpc[t] \notin Waiting \cup {"idle"},
           tpc[t] \in InBreakpoint <=> l \in InBreakpoint,
           l = "attach" => tnew[t] # NULL,
           l \in Answering => ~dying[tmon[t]],
           l \in Destroying => Waiters(tmon[t]) = {} /\ Referring(tmon[t]) = {},
           tpc[t] = "remove" => Referring(tmon[t]) = {},
           Goto(t, l),
           \/ UNCHANGED dying
           \/ l = "remove" /\ dying' = [dying EXCEPT ![tmon[t]] = TRUE],
           UNCHANGED <<status, debug_monitor, tested, created, destroyed, lock_sockfd, numwaiters,
                       ref_count, lost, tentry, tmon, tnew>>
    PROVE  MonitorInv'
<1>0. TypeOK
  BY Zenon DEF MonitorInv
<1>a. /\ tmon[t] \in created /\ tmon[t] \in Monitors /\ tentry[t] \in Entries
      /\ tpc'[t] = l /\ \A u \in Threads \ {t} : tpc'[u] = tpc[u]
      /\ (TypeOK /\ debug_monitor' \in [Entries -> Monitors \cup {NULL}]
                 /\ ref_count' \in [Monitors -> Nat]
                 /\ dying' \in [Monitors -> BOOLEAN]
                 /\ lost' \in [Monitors -> Nat]) => TypeOK'
      /\ CallShape' /\ LockOwned' /\ WaitersExact' /\ EntryStatus'
      /\ \A n : Waiters(n)' = Waiters(n)
  BY Zenon, OwnerStep
<1>b. UNCHANGED <<status, debug_monitor, tested, created, destroyed, ref_count, lost, tentry,
                  tmon, tnew>>
  BY Zenon
<1>c. \A n : Referring(n)' = Referring(n)
  BY Zenon, <1>b DEF Referring
<1>m. PICK m \in created : m = tmon[t] /\ m \in Monitors
  BY Zenon, <1>a
<1>1. TypeOK'
  <2>1. dying' \in [Monitors -> BOOLEAN]
    BY Zenon, <1>0, <1>a DEF TypeOK
  <2> QED BY Zenon, <2>1, <1>0, <1>a, <1>b DEF TypeOK
<1>6. LiveMonitors'
  <2> SUFFICES ASSUME NEW u \in Threads, tpc'[u] \in Answering
               PROVE  ~dying'[tmon[u]]
    BY Zenon, <1>b DEF MonitorInv, LiveMonitors
  <2>1. CASE u = t
    <3>1. l \in Answering /\ l # "remove"
      BY Zenon, <2>1, <1>a DEF Answering
    <3> QED BY Zenon, <2>1, <3>1
  <2>2. CASE u # t
    <3>1. tpc[u] \in Answering /\ tpc[u] \notin Waiting \cup {"idle"}
      BY Zenon, <2>2, <1>a DEF Answering, Waiting
    <3>2. tmon[u] # m
      BY Zenon, <2>2, <3>1, <1>m, OneOwner
    <3>3. ~dying[tmon[u]] /\ tmon[u] \in Monitors
      BY Zenon, <3>1, <1>0 DEF MonitorInv, LiveMonitors, CallShape, TypeOK
    <3> QED BY Zenon, <3>2, <3>3, <1>0, <1>m DEF TypeOK
  <2> QED BY Zenon, <2>1, <2>2
<1>7. CountExact'
  BY Zenon, <1>b, <1>c DEF MonitorInv, CountExact
<1>9. DyingRemoved'
  <2> SUFFICES ASSUME NEW n \in Monitors, dying'[n]
               PROVE  /\ n \in created'
                      /\ Referring(n)' = {} \/ \E u \in Threads : tpc'[u] = "remove" /\ tmon'[u] = n
    BY Zenon DEF DyingRemoved
  <2>1. CASE dying[n]
    <3>1. n \in created /\ (Referring(n) = {} \/ \E u \in Threads : tpc[u] = "remove" /\ tmon[u] = n)
      BY Zenon, <2>1 DEF MonitorInv, DyingRemoved
    <3>2. CASE Referring(n) = {}
      BY Zenon, <3>1, <3>2, <1>b, <1>c
    <3>3. CASE Referring(n) # {}
      <4>1. PICK u \in Threads : tpc[u] = "remove" /\ tmon[u] = n
        BY Zenon, <3>1, <3>3
      <4>2. u # t
        BY Zenon, <3>3, <4>1
      <4> QED BY Zenon, <3>1, <4>1, <4>2, <1>a, <1>b
    <3> QED BY Zenon, <3>2, <3>3
  <2>2. CASE ~dying[n]
    <3>1. l = "remove" /\ n = m
      BY Zenon, <2>2, <1>0, <1>m DEF TypeOK
    <3> QED BY Zenon, <3>1, <1>a, <1>b, <1>m
  <2> QED BY Zenon, <2>1, <2>2
<1>10. LastUser'
  <2> SUFFICES ASSUME NEW u \in Threads, NEW n \in Monitors, tpc'[u] \in Destroying, tmon'[u] = n
               PROVE  Waiters(n)' = {} /\ Referring(n)' = {}
    BY Zenon DEF LastUser
  <2>1. Waiters(n) = {} /\ Referring(n) = {}
    BY Zenon, <1>a, <1>b DEF MonitorInv, LastUser
  <2> QED BY Zenon, <2>1, <1>a, <1>c
<1>11. NoUseAfterDestroy'
  BY Zenon, <1>b DEF MonitorInv, NoUseAfterDestroy
<1> QED BY Zenon, <1>1, <1>a, <1>6, <1>7, <1>9, <1>10, <1>11 DEF MonitorInv

\* A step of the owner that detaches its monitor from an entry.
LEMMA OwnerDetaches ==
    ASSUME MonitorInv, NEW t \in Threads, NEW e \in Entries,
           NEW l \in {"remove", "release", "detach_release"},
           tpc[t] \in {"stop", "remove", "detach"},
           tpc[t] = "detach" <=> l = "detach_release",
           tpc[t] = "detach" => e = tentry[t],
           tpc[t] = "remove" => l = "remove",
           DetachMonitorFromEntry(tmon[t], e),
           Goto(t, l),
           UNCHANGED <<status, tested, created, destroyed, lock_sockfd, numwaiters, lost, tentry,
                       tmon, tnew>>
    PROVE  MonitorInv'
<1>0. TypeOK
  BY Zenon DEF MonitorInv
<1>a. /\ tmon[t] \in created /\ tmon[t] \in Monitors /\ tentry[t] \in Entries
      /\ tpc'[t] = l /\ \A u \in Threads \ {t} : tpc'[u] = tpc[u]
      /\ (TypeOK /\ debug_monitor' \in [Entries -> Monitors \cup {NULL}]
                 /\ ref_count' \in [Monitors -> Nat]
                 /\ dying' \in [Monitors -> BOOLEAN]
                 /\ lost' \in [Monitors -> Nat]) => TypeOK'
      /\ CallShape' /\ LockOwned' /\ WaitersExact' /\ EntryStatus'
      /\ \A n : Waiters(n)' = Waiters(n)
  <2>1. /\ l \in (InBreakpoint \cup InDetach) \ Waiting
        /\ tpc[t] \notin Waiting \cup {"idle"}
        /\ tpc[t] \in InBreakpoint <=> l \in InBreakpoint
        /\ l # "attach"
    BY Zenon DEF InBreakpoint, InDetach, Waiting
  <2> QED BY Zenon, <2>1, OwnerStep
<1>b. UNCHANGED <<status, tested, created, destroyed, lost, tentry, tmon, tnew>>
  BY Zenon
<1>m. PICK m \in created : m = tmon[t] /\ m \in Monitors
  BY Zenon, <1>a
<1>d. /\ debug_monitor' \in [Entries -> Monitors \cup {NULL}]
      /\ ref_count' \in [Monitors -> Nat]
      /\ dying' \in [Monitors -> BOOLEAN]
      /\ \A x \in Entries : debug_monitor'[x] = IF x = e /\ debug_monitor[x] = m THEN NULL
                                                ELSE debug_monitor[x]
      /\ \A n \in Monitors : Referring(n)' \subseteq Referring(n)
      /\ \A n \in Monitors : dying'[n] => dying[n] \/ (n = m /\ Referring(m)' = {})
      /\ CountExact'
  <2>1. DetachMonitorFromEntry(m, e)
    BY Zenon, <1>m
  <2> QED BY Zenon, <2>1, <1>b, DetachOne
<1>o. \A u \in Threads \ {t} : tpc[u] \notin Waiting \cup {"idle"} => tmon[u] # m
  <2>1. tpc[t] \notin Waiting \cup {"idle"}
    BY Zenon DEF Waiting
  <2> QED BY Zenon, <2>1, <1>m, OneOwner
<1>1. TypeOK'
  <2>1. lost' \in [Monitors -> Nat]
    BY Zenon, <1>0, <1>b DEF TypeOK
  <2> QED BY Zenon, <2>1, <1>0, <1>a, <1>d
<1>6. LiveMonitors'
  <2>1. \A x \in Entries : debug_monitor'[x] # NULL => debug_monitor'[x] \in created
    BY Zenon, <1>d DEF MonitorInv, LiveMonitors
  <2>2. \A u \in Threads : tpc'[u] \in Answering => ~dying'[tmon[u]]
    <3> SUFFICES ASSUME NEW u \in Threads, tpc'[u] \in Answering
                 PROVE  ~dying'[tmon[u]]
      BY Zenon
    <3>1. u # t /\ tpc[u] \in Answering /\ tpc[u] \notin Waiting \cup {"idle"}
      BY Zenon, <1>a DEF Answering, Waiting
    <3>2. tmon[u] # m /\ ~dying[tmon[u]] /\ tmon[u] \in Monitors
      BY Zenon, <3>1, <1>0, <1>o DEF MonitorInv, LiveMonitors, CallShape, TypeOK
    <3> QED BY Zenon, <3>2, <1>d
  <2> QED BY Zenon, <2>1, <2>2, <1>b DEF MonitorInv, LiveMonitors
<1>9. DyingRemoved'
  <2> SUFFICES ASSUME NEW n \in Monitors, dying'[n]
               PROVE  /\ n \in created
                      /\ Referring(n)' = {} \/ \E u \in Threads : tpc'[u] = "remove" /\ tmon[u] = n
    BY Zenon, <1>b DEF DyingRemoved
  <2>1. CASE dying[n]
    <3>1. \A u \in Threads : tpc[u] = "remove" => tpc'[u] = "remove"
      BY Zenon, <1>a
    <3> QED BY Zenon, <2>1, <3>1, <1>d DEF MonitorInv, DyingRemoved
  <2>2. CASE n = m /\ Referring(m)' = {}
    BY Zenon, <2>2
  <2> QED BY Zenon, <2>1, <2>2, <1>d
<1>10. LastUser'
  <2> SUFFICES ASSUME NEW u \in Threads, NEW n \in Monitors, tpc'[u] \in Destroying, tmon'[u] = n
               PROVE  Waiters(n)' = {} /\ Referring(n)' = {}
    BY Zenon DEF LastUser
  <2>1. tpc[u] \in Destroying /\ tmon[u] = n
    BY Zenon, <1>a, <1>b DEF Destroying
  <2>2. Waiters(n) = {} /\ Referring(n) = {}
    BY Zenon, <2>1 DEF MonitorInv, LastUser
  <2> QED BY Zenon, <2>2, <1>a, <1>d
<1>11. NoUseAfterDestroy'
  <2>1. NULL \notin destroyed
    BY Zenon, <1>0, NullIsNothing DEF TypeOK
  <2> QED BY Zenon, <2>1, <1>b, <1>d DEF MonitorInv, NoUseAfterDestroy
<1> QED BY Zenon, <1>1, <1>a, <1>d, <1>6, <1>9, <1>10, <1>11 DEF MonitorInv

\* The end of a call.  A thread that destroys its monitor is the last user of
\* it: another thread in a call with this monitor would be waiting for the lock
\* or own it.
LEMMA ReturnPreserves ==
    ASSUME MonitorInv, NEW t \in Threads,
           tpc[t] \in {"release", "detach_release", "destroy", "detach_destroy"},
           Return(t),
           lock_sockfd' = [lock_sockfd EXCEPT ![tmon[t]] = NULL],
           \/ UNCHANGED destroyed
           \/ tpc[t] \in Destroying /\ destroyed' = destroyed \cup {tmon[t]},
           UNCHANGED <<debug_monitor, tested, created, numwaiters, ref_count, dying, lost>>
    PROVE  MonitorInv'
<1>0. TypeOK
  BY Zenon DEF MonitorInv
<1>m. PICK m \in created : m = tmon[t] /\ m \in Monitors
  BY Zenon, <1>0 DEF MonitorInv, CallShape, TypeOK
<1>a. /\ tpc' = [tpc EXCEPT ![t] = "idle"]
      /\ tentry' = [tentry EXCEPT ![t] = NULL]
      /\ tmon' = [tmon EXCEPT ![t] = NULL]
      /\ tnew' = [tnew EXCEPT ![t] = NULL]
      /\ lock_sockfd' = [lock_sockfd EXCEPT ![m] = NULL]
      /\ UNCHANGED <<debug_monitor, tested, created, numwaiters, ref_count, dying, lost>>
  BY Zenon, <1>m DEF Return, Goto
<1>b. /\ status' \in [Entries -> Statuses]
      /\ \A x \in Entries : status'[x] = IF x = tnew[t] THEN "used"
                                         ELSE IF x = tentry[t] /\ status[x] = "closing"
                                              THEN "detached" ELSE status[x]
  BY Zenon, <1>0 DEF Return, TypeOK, Statuses
<1>c. \A u \in Threads \ {t} : /\ tpc'[u] = tpc[u] /\ tentry'[u] = tentry[u]
                               /\ tmon'[u] = tmon[u] /\ tnew'[u] = tnew[u]
  BY Zenon, <1>0, <1>a DEF TypeOK
<1>d. tpc'[t] = "idle" /\ tentry'[t] = NULL /\ tmon'[t] = NULL /\ tnew'[t] = NULL
  BY Zenon, <1>0, <1>a DEF TypeOK
<1>e. \A n : Referring(n)' = Referring(n)
  BY Zenon, <1>a DEF Referring
<1>f. \A n : Waiters(n)' = Waiters(n)
  BY Zenon, <1>c, <1>d DEF Waiters, Waiting
<1>g. destroyed \subseteq destroyed' /\ destroyed' \subseteq destroyed \cup {m}
  BY Zenon, <1>m
<1>o. \A u \in Threads \ {t} : tpc[u] \notin Waiting \cup {"idle"} => tmon[u] # m
  <2>1. tpc[t] \notin Waiting \cup {"idle"}
    BY Zenon DEF Waiting
  <2> QED BY Zenon, <2>1, <1>m, OneOwner
<1>1. TypeOK'
  BY <1>0, <1>a, <1>b, <1>g, <1>m DEF TypeOK
<1>2. CallShape'
  BY <1>a, <1>c, <1>d DEF MonitorInv, CallShape
<1>3. LockOwned'
  <2> SUFFICES ASSUME NEW u \in Threads, tpc'[u] \notin Waiting \cup {"idle"}
               PROVE  lock_sockfd'[tmon'[u]] = u
    BY Zenon DEF LockOwned
  <2>1. u # t /\ tpc[u] \notin Waiting \cup {"idle"} /\ tmon'[u] = tmon[u]
    BY Zenon, <1>c, <1>d
  <2>2. lock_sockfd[tmon[u]] = u /\ tmon[u] \in Monitors /\ tmon[u] # m
    BY Zenon, <2>1, <1>0, <1>o DEF MonitorInv, LockOwned, CallShape, TypeOK
  <2> QED BY Zenon, <2>1, <2>2, <1>0, <1>a DEF TypeOK
<1>4. WaitersExact'
  BY Zenon, <1>a, <1>f DEF MonitorInv, WaitersExact
<1>5. EntryStatus'
  <2>1. \A u \in Threads \ {t} :
           /\ tpc[u] \in InBreakpoint => tentry[u] \in Entries /\ status[tentry[u]] \in {"used", "accepting"}
           /\ tpc[u] \in InDetach =>
                 /\ tentry[u] \in Entries /\ status[tentry[u]] = "closing" /\ tentry[u] # tentry[t]
                 /\ \A v \in Threads \ {u} : tentry[v] # tentry[u]
           /\ tnew[u] # NULL =>
                 /\ tnew[u] \in Entries /\ status[tnew[u]] = "accepting" /\ tnew[u] # tnew[t]
                 /\ \A v \in Threads \ {u} : tnew[v] # tnew[u]
    BY <1>0 DEF MonitorInv, EntryStatus, CallShape, InBreakpoint, InDetach, TypeOK
  <2>2. tnew[t] # NULL => status[tnew[t]] = "accepting"
    BY Zenon DEF MonitorInv, EntryStatus
  <2>3. \A u \in Threads \ {t} :
           /\ tpc[u] \in InBreakpoint => status'[tentry[u]] \in {"used", "accepting"}
           /\ tpc[u] \in InDetach => status'[tentry[u]] = "closing"
           /\ tnew[u] # NULL => status'[tnew[u]] = "accepting"
    BY <2>1, <2>2, <1>b, NullIsNothing
  <2>4. \A u \in Threads \ {t} :
           /\ tpc[u] \in InDetach => \A v \in Threads \ {u} : tentry'[v] # tentry[u]
           /\ tnew[u] # NULL => \A v \in Threads \ {u} : tnew'[v] # tnew[u]
    BY <2>1, <1>c, <1>d, NullIsNothing
  <2> QED BY <2>3, <2>4, <1>c, <1>d DEF EntryStatus, InBreakpoint, InDetach
<1>6. LiveMonitors'
  <2>1. \A u \in Threads : tpc'[u] \in Answering => u # t
    BY Zenon, <1>d DEF Answering
  <2>2. \A u \in Threads : tpc'[u] \in Answering => ~dying[tmon'[u]]
    BY Zenon, <2>1, <1>c DEF MonitorInv, LiveMonitors
  <2> QED BY Zenon, <2>2, <1>a DEF MonitorInv, LiveMonitors
<1>7. CountExact'
  BY Zenon, <1>a, <1>e DEF MonitorInv, CountExact
<1>9. DyingRemoved'
  <2>1. \A u \in Threads : tpc[u] = "remove" => tpc'[u] = "remove" /\ tmon'[u] = tmon[u]
    BY Zenon, <1>c
  <2> QED BY <2>1, <1>a, <1>e DEF MonitorInv, DyingRemoved
<1>10. LastUser'
  BY Zenon, <1>c, <1>d, <1>e, <1>f DEF MonitorInv, LastUser, Destroying
<1>11. NoUseAfterDestroy'
  <2>1. NULL \notin destroyed'
    BY Zenon, <1>1, NullIsNothing DEF TypeOK
  <2>2. CASE UNCHANGED destroyed
    BY Zenon, <2>1, <2>2, <1>a, <1>c, <1>d DEF MonitorInv, NoUseAfterDestroy
  <2>3. CASE tpc[t] \in Destroying
    <3>1. Waiters(m) = {} /\ Referring(m) = {}
      BY Zenon, <2>3, <1>m DEF MonitorInv, LastUser
    <3>2. \A u \in Threads \ {t} : tmon[u] # m
      <4> SUFFICES ASSUME NEW u \in Threads \ {t}, tmon[u] = m
                   PROVE  FALSE
        BY Zenon
      <4>1. tpc[u] # "idle"
        BY Zenon, <1>m, NullIsNothing DEF MonitorInv, CallShape
      <4>2. tpc[u] \in Waiting
        BY Zenon, <4>1, <1>o
      <4> QED BY Zenon, <4>2, <3>1 DEF Waiters
    <3>3. \A e \in Entries : debug_monitor[e] # m
      BY Zenon, <3>1 DEF Referring
    <3> QED BY <2>1, <3>2, <3>3, <1>a, <1>c, <1>d, <1>g DEF MonitorInv, NoUseAfterDestroy
  <2> QED BY Zenon, <2>2, <2>3
<1> QED BY Zenon, <1>1, <1>2, <1>3, <1>4, <1>5, <1>6, <1>7, <1>9, <1>10, <1>11 DEF MonitorInv

\* The second half of debug_mon_lock: a waiter becomes the owner.
LEMMA LockPreserves ==
    ASSUME MonitorInv, NEW t \in Threads, Lock(t)
    PROVE  MonitorInv'
<1>0. TypeOK
  BY Zenon DEF MonitorInv
<1>m. PICK m \in created : m = tmon[t] /\ m \in Monitors
  BY Zenon, <1>0 DEF Lock, MonitorInv, CallShape, TypeOK
<1>l. PICK l \in {"recheck", "detach"} : l = IF tpc[t] = "lock" THEN "recheck" ELSE "detach"
  BY Zenon
<1>a. /\ tpc[t] \in Waiting
      /\ lock_sockfd[m] = NULL
      /\ lock_sockfd' = [lock_sockfd EXCEPT ![m] = t]
      /\ numwaiters' = [numwaiters EXCEPT ![m] = @ - 1]
      /\ tpc' = [tpc EXCEPT ![t] = l]
      /\ UNCHANGED <<status, debug_monitor, tested, created, destroyed, ref_count, dying, lost,
                     tentry, tmon, tnew>>
  BY Zenon, <1>m, <1>l DEF Lock, Goto, Waiting
<1>b. tpc'[t] = l /\ \A u \in Threads \ {t} : tpc'[u] = tpc[u]
  BY Zenon, <1>0, <1>a DEF TypeOK
<1>c. \A n : Referring(n)' = Referring(n)
  BY Zenon, <1>a DEF Referring
<1>d. Waiters(m)' = Waiters(m) \ {t} /\ t \in Waiters(m)
  BY Zenon, <1>m, <1>a, <1>b DEF Waiters, Waiting
<1>e. \A n \in Monitors \ {m} : Waiters(n)' = Waiters(n)
  BY Zenon, <1>m, <1>a, <1>b DEF Waiters, Waiting
<1>f. /\ l \in InBreakpoint => tpc[t] \in InBreakpoint
      /\ l \in InDetach => tpc[t] \in InDetach
      /\ l \notin Answering /\ l \notin Destroying
  BY Zenon, <1>l, <1>a DEF InBreakpoint, InDetach, Answering, Destroying, Waiting
<1>4. WaitersExact' /\ numwaiters' \in [Monitors -> Nat]
  <2>1. Cardinality(Waiters(m)') = Cardinality(Waiters(m)) - 1
    BY Zenon, <1>d, CountsFinite, FS_RemoveElement
  <2>2. Cardinality(Waiters(m)) \in Nat /\ Cardinality(Waiters(m)) # 0
    BY Zenon, <1>d, CountsFinite
  <2>3. numwaiters[m] = Cardinality(Waiters(m))
    BY Zenon, <1>m DEF MonitorInv, WaitersExact
  <2>4. numwaiters' \in [Monitors -> Nat]
    <3>1. numwaiters[m] - 1 \in Nat
      BY <2>2, <2>3
    <3>2. numwaiters \in [Monitors -> Nat]
      BY Zenon, <1>0 DEF TypeOK
    <3>3. numwaiters' = [numwaiters EXCEPT ![m] = numwaiters[m] - 1]
      BY Zenon, <1>a
    <3> QED BY Zenon, <3>1, <3>2, <3>3
  <2>5. numwaiters'[m] = Cardinality(Waiters(m)')
    BY Zenon, <2>1, <2>3, <1>0, <1>a, <1>m DEF TypeOK
  <2>6. \A n \in Monitors \ {m} : numwaiters'[n] = Cardinality(Waiters(n)')
    BY Zenon, <1>0, <1>a, <1>e DEF MonitorInv, WaitersExact, TypeOK
  <2> QED BY Zenon, <2>4, <2>5, <2>6 DEF WaitersExact
<1>1. TypeOK'
  BY Zenon, <1>0, <1>a, <1>4 DEF TypeOK
<1>2. CallShape'
  BY Zenon, <1>a, <1>b DEF MonitorInv, CallShape, Waiting
<1>3. LockOwned'
  <2> SUFFICES ASSUME NEW u \in Threads, tpc'[u] \notin Waiting \cup {"idle"}
               PROVE  lock_sockfd'[tmon[u]] = u
    BY Zenon, <1>a DEF LockOwned
  <2>1. CASE u = t
    BY Zenon, <2>1, <1>0, <1>a, <1>m DEF TypeOK
  <2>2. CASE u # t
    <3>1. lock_sockfd[tmon[u]] = u /\ tmon[u] \in Monitors
      BY Zenon, <2>2, <1>0, <1>b DEF MonitorInv, LockOwned, CallShape, TypeOK
    <3>2. tmon[u] # m
      BY Zenon, <3>1, <1>a, NullIsNothing
    <3> QED BY Zenon, <3>1, <3>2, <1>0, <1>a DEF TypeOK
  <2> QED BY Zenon, <2>1, <2>2
<1>5. EntryStatus'
  BY <1>a, <1>b, <1>f DEF MonitorInv, EntryStatus
<1>6. LiveMonitors'
  BY <1>a, <1>b, <1>f DEF MonitorInv, LiveMonitors
<1>7. CountExact'
  BY Zenon, <1>a, <1>c DEF MonitorInv, CountExact
<1>9. DyingRemoved'
  <2>1. \A u \in Threads : tpc[u] = "remove" => tpc'[u] = "remove"
    BY Zenon, <1>a, <1>b DEF Waiting
  <2> QED BY Zenon, <2>1, <1>a, <1>c DEF MonitorInv, DyingRemoved
<1>10. LastUser'
  <2> SUFFICES ASSUME NEW u \in Threads, NEW n \in Monitors, tpc'[u] \in Destroying, tmon'[u] = n
               PROVE  Waiters(n)' = {} /\ Referring(n)' = {}
    BY Zenon DEF LastUser
  <2>1. tpc[u] \in Destroying /\ tmon[u] = n
    BY Zenon, <1>a, <1>b, <1>f
  <2>2. Waiters(n) = {} /\ Referring(n) = {}
    BY Zenon, <2>1 DEF MonitorInv, LastUser
  <2> QED BY Zenon, <2>2, <1>c, <1>d, <1>e
<1>11. NoUseAfterDestroy'
  BY Zenon, <1>a DEF MonitorInv, NoUseAfterDestroy
<1> QED BY Zenon, <1>1, <1>2, <1>3, <1>4, <1>5, <1>6, <1>7, <1>9, <1>10, <1>11 DEF MonitorInv

\* DBG_RESP_ACCEPT_MONITOR: the thread owns a monitor whose client has just
\* answered, so it is not dying, and gives it to the new entry; a monitor that
\* entry had is one reference short, and counts it as lost.
LEMMA RespAcceptMonitorPreserves ==
    ASSUME MonitorInv, NEW t \in Threads, RespAcceptMonitor(t)
    PROVE  MonitorInv'
<1>0. TypeOK
  BY Zenon DEF MonitorInv
<1>p. /\ tpc[t] = "attach" /\ Goto(t, "release")
      /\ UNCHANGED <<status, tested, created, destroyed, lock_sockfd, numwaiters, dying, tentry,
                     tmon, tnew>>
  BY Zenon DEF RespAcceptMonitor
<1>a. /\ tmon[t] \in created /\ tmon[t] \in Monitors /\ tentry[t] \in Entries
      /\ tpc'[t] = "release" /\ \A u \in Threads \ {t} : tpc'[u] = tpc[u]
      /\ (TypeOK /\ debug_monitor' \in [Entries -> Monitors \cup {NULL}]
                 /\ ref_count' \in [Monitors -> Nat]
                 /\ dying' \in [Monitors -> BOOLEAN]
                 /\ lost' \in [Monitors -> Nat]) => TypeOK'
      /\ CallShape' /\ LockOwned' /\ WaitersExact' /\ EntryStatus'
      /\ \A n : Waiters(n)' = Waiters(n)
  <2>1. /\ "release" \in (InBreakpoint \cup InDetach) \ Waiting
        /\ tpc[t] \notin Waiting \cup {"idle"}
        /\ tpc[t] \in InBreakpoint <=> "release" \in InBreakpoint
    BY Zenon, <1>p DEF InBreakpoint, InDetach, Waiting
  <2> QED BY Zenon, <2>1, <1>p, OwnerStep
<1>m. PICK m \in created : m = tmon[t] /\ m \in Monitors
  BY Zenon, <1>a
<1>n. PICK new \in Entries : new = tnew[t]
  BY Zenon, <1>0, <1>p DEF MonitorInv, CallShape, TypeOK
<1>b. /\ debug_monitor' = [debug_monitor EXCEPT ![new] = m]
      /\ ref_count' = [ref_count EXCEPT ![m] = @ + 1]
      /\ LosePointer(new)
  BY Zenon, <1>m, <1>n DEF RespAcceptMonitor
<1>g. debug_monitor'[new] = m /\ \A x \in Entries \ {new} : debug_monitor'[x] = debug_monitor[x]
  BY Zenon, <1>0, <1>b DEF TypeOK
<1>e. /\ Referring(m)' = Referring(m) \cup {new}
      /\ \A n \in Monitors \ {m} : Referring(n)' = Referring(n) \ {new}
  BY Zenon, <1>g DEF Referring
<1>l. \A n \in Monitors : lost'[n] = IF new \in Referring(n) THEN lost[n] + 1 ELSE lost[n]
  BY Zenon, <1>b DEF LosePointer, Referring
<1>o. \A u \in Threads \ {t} : tpc[u] \notin Waiting \cup {"idle"} => tmon[u] # m
  <2>1. tpc[t] \notin Waiting \cup {"idle"}
    BY Zenon, <1>p DEF Waiting
  <2> QED BY Zenon, <2>1, <1>m, OneOwner
<1>1. TypeOK'
  <2>1. debug_monitor' \in [Entries -> Monitors \cup {NULL}] /\ ref_count' \in [Monitors -> Nat]
    BY <1>0, <1>b, <1>m DEF TypeOK
  <2>2. dying' \in [Monitors -> BOOLEAN]
    BY Zenon, <1>0, <1>p DEF TypeOK
  <2>3. lost' \in [Monitors -> Nat]
    BY <1>0, <1>b DEF TypeOK, LosePointer
  <2> QED BY Zenon, <2>1, <2>2, <2>3, <1>0, <1>a
<1>6. LiveMonitors'
  <2>1. \A x \in Entries : debug_monitor'[x] # NULL => debug_monitor'[x] \in created
    BY Zenon, <1>g DEF MonitorInv, LiveMonitors
  <2>2. \A u \in Threads : tpc'[u] \in Answering => tpc[u] \in Answering
    BY Zenon, <1>a DEF Answering
  <2>3. \A n \in Monitors \ created : lost'[n] = 0
    <3> TAKE n \in Monitors \ created
    <3>1. new \notin Referring(n)
      BY Zenon, NullIsNothing DEF MonitorInv, LiveMonitors, Referring
    <3> QED BY Zenon, <3>1, <1>l DEF MonitorInv, LiveMonitors
  <2> QED BY Zenon, <2>1, <2>2, <2>3, <1>p DEF MonitorInv, LiveMonitors
<1>7. CountExact'
  <2> SUFFICES ASSUME NEW n \in created
               PROVE  ref_count'[n] = Cardinality(Referring(n)') + lost'[n]
    BY Zenon, <1>p DEF CountExact
  <2>1. /\ n \in Monitors /\ lost[n] \in Nat /\ Cardinality(Referring(n)) \in Nat
        /\ ref_count[n] = Cardinality(Referring(n)) + lost[n]
    BY Zenon, <1>0, CountsFinite DEF MonitorInv, CountExact, TypeOK
  <2>2. CASE n = m
    <3>1. ref_count'[n] = ref_count[n] + 1
      BY Zenon, <2>2, <1>0, <1>b, <1>m DEF TypeOK
    <3>2. CASE new \in Referring(n)
      <4>1. Referring(n)' = Referring(n) /\ lost'[n] = lost[n] + 1
        BY Zenon, <2>1, <2>2, <3>2, <1>e, <1>l
      <4> QED BY <4>1, <3>1, <2>1
    <3>3. CASE new \notin Referring(n)
      <4>1. Referring(n)' = Referring(n) \cup {new} /\ lost'[n] = lost[n]
        BY Zenon, <2>1, <2>2, <3>3, <1>e, <1>l
      <4>2. Cardinality(Referring(n)') = Cardinality(Referring(n)) + 1
        BY Zenon, <4>1, <3>3, CountsFinite, FS_AddElement
      <4> QED BY <4>1, <4>2, <3>1, <2>1
    <3> QED BY Zenon, <3>2, <3>3
  <2>3. CASE n # m
    <3>1. ref_count'[n] = ref_count[n]
      BY Zenon, <2>1, <2>3, <1>0, <1>b DEF TypeOK
    <3>2. CASE new \in Referring(n)
      <4>1. Referring(n)' = Referring(n) \ {new} /\ lost'[n] = lost[n] + 1
        BY Zenon, <2>1, <2>3, <3>2, <1>e, <1>l
      <4>2. Cardinality(Referring(n)') = Cardinality(Referring(n)) - 1
        BY Zenon, <4>1, <3>2, CountsFinite, FS_RemoveElement
      <4> QED BY <4>1, <4>2, <3>1, <2>1
    <3>3. CASE new \notin Referring(n)
      <4>1. Referring(n)' = Referring(n) /\ lost'[n] = lost[n]
        BY Zenon, <2>1, <2>3, <3>3, <1>e, <1>l
      <4> QED BY Zenon, <4>1, <3>1, <2>1
    <3> QED BY Zenon, <3>2, <3>3
  <2> QED BY Zenon, <2>2, <2>3
<1>9. DyingRemoved'
  <2>1. ~dying[m]
    BY Zenon, <1>m, <1>p DEF MonitorInv, LiveMonitors, Answering
  <2>2. \A u \in Threads : tpc[u] = "remove" => tpc'[u] = "remove"
    BY Zenon, <1>a, <1>p
  <2>3. \A n \in Monitors \ {m} : Referring(n) = {} => Referring(n)' = {}
    BY Zenon, <1>e
  <2> QED BY Zenon, <2>1, <2>2, <2>3, <1>p DEF MonitorInv, DyingRemoved
<1>10. LastUser'
  <2> SUFFICES ASSUME NEW u \in Threads, NEW n \in Monitors, tpc'[u] \in Destroying, tmon'[u] = n
               PROVE  Waiters(n)' = {} /\ Referring(n)' = {}
    BY Zenon DEF LastUser
  <2>1. u # t /\ tpc[u] \in Destroying /\ tmon[u] = n
    BY Zenon, <1>a, <1>p DEF Destroying
  <2>2. n # m
    BY Zenon, <2>1, <1>o DEF Destroying, Waiting
  <2>3. Waiters(n) = {} /\ Referring(n) = {}
    BY Zenon, <2>1 DEF MonitorInv, LastUser
  <2> QED BY Zenon, <2>2, <2>3, <1>a, <1>e
<1>11. NoUseAfterDestroy'
  <2>1. m \notin destroyed
    BY Zenon, <1>m DEF MonitorInv, NoUseAfterDestroy
  <2> QED BY Zenon, <2>1, <1>g, <1>p DEF MonitorInv, NoUseAfterDestroy
<1> QED BY Zenon, <1>1, <1>a, <1>6, <1>7, <1>9, <1>10, <1>11 DEF MonitorInv

\* chitcpd_free_socket_entry: no thread has a reference to the entry any more.
LEMMA FreeSocketEntryPreserves ==
    ASSUME MonitorInv, NEW t \in Threads, NEW e \in Entries, FreeSocketEntry(t, e)
    PROVE  MonitorInv'
<1>0. TypeOK
  BY Zenon DEF MonitorInv
<1>a. /\ tpc[t] = "idle"
      /\ status[e] = "used"
      /\ \A u \in Threads : tentry[u] # e /\ tnew[u] # e
      /\ UNCHANGED <<debug_monitor, tested, created, destroyed, lock_sockfd, ref_count, dying, lost>>
  BY Zenon DEF FreeSocketEntry
<1>b. \A n : Referring(n)' = Referring(n)
  BY Zenon, <1>a DEF Referring
<1>7. CountExact'
  BY Zenon, <1>a, <1>b DEF MonitorInv, CountExact
<1>c. CASE debug_monitor[e] = NULL
  <2>a. /\ status' = [status EXCEPT ![e] = "detached"]
        /\ UNCHANGED <<numwaiters, tpc, tentry, tmon, tnew>>
    BY Zenon, <1>c DEF FreeSocketEntry, threadVars
  <2>b. \A n : Waiters(n)' = Waiters(n)
    BY Zenon, <2>a DEF Waiters
  <2>c. status'[e] = "detached" /\ \A x \in Entries \ {e} : status'[x] = status[x]
    BY Zenon, <1>0, <2>a DEF TypeOK
  <2>1. TypeOK'
    BY Zenon, <1>0, <1>a, <2>a DEF TypeOK, Statuses
  <2>2. CallShape' /\ LockOwned'
    BY Zenon, <1>a, <2>a DEF MonitorInv, CallShape, LockOwned
  <2>4. WaitersExact'
    BY Zenon, <2>a, <2>b DEF MonitorInv, WaitersExact
  <2>5. EntryStatus'
    <3>1. \A u \in Threads : /\ tpc[u] \in InBreakpoint \cup InDetach => tentry[u] \in Entries \ {e}
                             /\ tnew[u] # NULL => tnew[u] \in Entries \ {e}
      BY Zenon, <1>0, <1>a DEF MonitorInv, CallShape, InBreakpoint, InDetach, TypeOK
    <3> QED BY <3>1, <2>a, <2>c DEF MonitorInv, EntryStatus
  <2>6. LiveMonitors'
    BY Zenon, <1>a, <2>a DEF MonitorInv, LiveMonitors
  <2>9. DyingRemoved'
    BY Zenon, <1>a, <1>b, <2>a DEF MonitorInv, DyingRemoved
  <2>10. LastUser'
    BY Zenon, <1>b, <2>a, <2>b DEF MonitorInv, LastUser
  <2>11. NoUseAfterDestroy'
    BY Zenon, <1>a, <2>a DEF MonitorInv, NoUseAfterDestroy
  <2> QED BY Zenon, <1>7, <2>1, <2>2, <2>4, <2>5, <2>6, <2>9, <2>10, <2>11 DEF MonitorInv
<1>d. CASE debug_monitor[e] # NULL
  <2>m. PICK m \in created : m = debug_monitor[e] /\ m \in Monitors
    BY Zenon, <1>0, <1>d DEF MonitorInv, LiveMonitors, TypeOK
  <2>a. /\ status' = [status EXCEPT ![e] = "closing"]
        /\ numwaiters' = [numwaiters EXCEPT ![m] = @ + 1]
        /\ tmon' = [tmon EXCEPT ![t] = m]
        /\ tentry' = [tentry EXCEPT ![t] = e]
        /\ tpc' = [tpc EXCEPT ![t] = "detach_lock"]
        /\ tnew' = tnew
    BY Zenon, <1>d, <2>m DEF FreeSocketEntry, Goto
  <2>b. /\ numwaiters' \in [Monitors -> Nat]
        /\ WaitersExact'
        /\ \A n \in Monitors \ {m} : Waiters(n)' = Waiters(n)
    <3>1. "detach_lock" \in Waiting
      BY Zenon DEF Waiting
    <3> QED BY Zenon, <3>1, <1>a, <1>d, <2>m, <2>a, BecomeWaiter DEF Goto
  <2>c. status'[e] = "closing" /\ \A x \in Entries \ {e} : status'[x] = status[x]
    BY Zenon, <1>0, <2>a DEF TypeOK
  <2>d. /\ tpc'[t] = "detach_lock" /\ tentry'[t] = e /\ tmon'[t] = m
        /\ \A u \in Threads \ {t} : /\ tpc'[u] = tpc[u] /\ tentry'[u] = tentry[u]
                                    /\ tmon'[u] = tmon[u]
    BY Zenon, <1>0, <2>a DEF TypeOK
  <2>e. e \in Referring(m)
    BY Zenon, <2>m DEF Referring
  <2>1. TypeOK'
    BY Zenon, <1>0, <1>a, <2>a, <2>b, <2>m DEF TypeOK, Statuses
  <2>2. CallShape'
    <3>1. tnew' = tnew /\ created' = created
      BY Zenon, <1>a, <2>a
    <3>2. \A u \in Threads \ {t} :
             /\ tpc'[u] = "idle" => tmon'[u] = NULL /\ tentry'[u] = NULL /\ tnew'[u] = NULL
             /\ tpc'[u] # "idle" => tmon'[u] \in created' /\ tentry'[u] \in Entries
             /\ tpc'[u] = "attach" => tnew'[u] # NULL
      BY Zenon, <2>d, <3>1 DEF MonitorInv, CallShape
    <3>3. tpc'[t] = "detach_lock" /\ tmon'[t] \in created' /\ tentry'[t] \in Entries
      BY Zenon, <2>m, <2>d, <3>1
    <3> QED BY Zenon, <3>2, <3>3 DEF CallShape
  <2>3. LockOwned'
    BY Zenon, <1>a, <2>d DEF MonitorInv, LockOwned, Waiting
  <2>5. EntryStatus'
    <3>1. \A u \in Threads : /\ tpc[u] \in InBreakpoint \cup InDetach => tentry[u] \in Entries \ {e}
                             /\ tnew[u] # NULL => tnew[u] \in Entries \ {e}
      BY Zenon, <1>0, <1>a DEF MonitorInv, CallShape, InBreakpoint, InDetach, TypeOK
    <3>2. "detach_lock" \notin InBreakpoint
      BY Zenon DEF InBreakpoint
    <3>3. \A u \in Threads \ {t} :
             /\ tpc[u] \in InBreakpoint => status'[tentry[u]] \in {"used", "accepting"}
             /\ tpc[u] \in InDetach => /\ status'[tentry[u]] = "closing"
                                       /\ \A v \in Threads \ {u} : tentry'[v] # tentry[u]
      BY <3>1, <1>a, <2>c, <2>d DEF MonitorInv, EntryStatus
    <3>4. \A u \in Threads : tnew[u] # NULL =>
             /\ status'[tnew[u]] = "accepting"
             /\ \A v \in Threads \ {u} : tnew[v] # tnew[u]
      BY Zenon, <3>1, <2>c DEF MonitorInv, EntryStatus
    <3>5. \A v \in Threads \ {t} : tentry'[v] # e
      BY Zenon, <1>a, <2>d
    <3> QED BY <3>2, <3>3, <3>4, <3>5, <2>a, <2>c, <2>d DEF EntryStatus
  <2>6. LiveMonitors'
    BY Zenon, <1>a, <2>d DEF MonitorInv, LiveMonitors, Answering
  <2>9. DyingRemoved'
    <3>1. \A u \in Threads : tpc[u] = "remove" => tpc'[u] = "remove" /\ tmon'[u] = tmon[u]
      BY Zenon, <1>a, <2>d
    <3> QED BY <3>1, <1>a, <1>b DEF MonitorInv, DyingRemoved
  <2>10. LastUser'
    <3> SUFFICES ASSUME NEW u \in Threads, NEW n \in Monitors, tpc'[u] \in Destroying, tmon'[u] = n
                 PROVE  Waiters(n)' = {} /\ Referring(n)' = {}
      BY Zenon DEF LastUser
    <3>1. tpc[u] \in Destroying /\ tmon[u] = n
      BY Zenon, <2>d DEF Destroying
    <3>2. Waiters(n) = {} /\ Referring(n) = {}
      BY Zenon, <3>1 DEF MonitorInv, LastUser
    <3> QED BY Zenon, <3>2, <1>b, <2>b, <2>e
  <2>11. NoUseAfterDestroy'
    BY Zenon, <1>a, <2>d, <2>m DEF MonitorInv, NoUseAfterDestroy
  <2> QED BY Zenon, <1>7, <2>1, <2>2, <2>3, <2>b, <2>5, <2>6, <2>9, <2>10, <2>11 DEF MonitorInv
<1> QED BY Zenon, <1>c, <1>d

\* The memset of the entry forgets the monitor a client has attached to the
\* socket while it was being closed.
LEMMA ClearEntryPreserves ==
    ASSUME MonitorInv, NEW e \in Entries, ClearEntry(e)
    PROVE  MonitorInv'
<1>0. TypeOK
  BY Zenon DEF MonitorInv
<1>a. /\ status[e] = "detached"
      /\ status' = [status EXCEPT ![e] = "free"]
      /\ debug_monitor' = [debug_monitor EXCEPT ![e] = NULL]
      /\ LosePointer(e)
      /\ UNCHANGED <<tested, created, destroyed, lock_sockfd, numwaiters, ref_count, dying,
                     tpc, tentry, tmon, tnew>>
  BY Zenon DEF ClearEntry, threadVars
<1>b. /\ status'[e] = "free" /\ debug_monitor'[e] = NULL
      /\ \A x \in Entries \ {e} : status'[x] = status[x] /\ debug_monitor'[x] = debug_monitor[x]
  BY Zenon, <1>0, <1>a DEF TypeOK
<1>c. \A n \in Monitors : Referring(n)' = Referring(n) \ {e}
  BY Zenon, <1>b, NullIsNothing DEF Referring
<1>d. \A n : Waiters(n)' = Waiters(n)
  BY Zenon, <1>a DEF Waiters
<1>e. \A u \in Threads : /\ tpc[u] \in InBreakpoint \cup InDetach => tentry[u] \in Entries \ {e}
                         /\ tnew[u] # NULL => tnew[u] \in Entries \ {e}
  BY Zenon, <1>0, <1>a DEF MonitorInv, EntryStatus, CallShape, InBreakpoint, InDetach, TypeOK
<1>l. /\ lost' \in [Monitors -> Nat]
      /\ \A n \in Monitors : lost'[n] = IF e \in Referring(n) THEN lost[n] + 1 ELSE lost[n]
  BY <1>0, <1>a DEF LosePointer, Referring, TypeOK
<1>1. TypeOK'
  BY Zenon, <1>0, <1>a, <1>l DEF TypeOK, Statuses
<1>2. CallShape' /\ LockOwned'
  BY Zenon, <1>a DEF MonitorInv, CallShape, LockOwned
<1>4. WaitersExact'
  BY Zenon, <1>a, <1>d DEF MonitorInv, WaitersExact
<1>5. EntryStatus'
  BY <1>a, <1>b, <1>e DEF MonitorInv, EntryStatus
<1>6. LiveMonitors'
  <2>1. \A n \in Monitors \ created : lost'[n] = 0
    <3> TAKE n \in Monitors \ created
    <3>1. e \notin Referring(n)
      BY Zenon, NullIsNothing DEF MonitorInv, LiveMonitors, Referring
    <3> QED BY Zenon, <3>1, <1>l DEF MonitorInv, LiveMonitors
  <2>2. \A x \in Entries : debug_monitor'[x] # NULL => debug_monitor'[x] \in created
    BY Zenon, <1>b DEF MonitorInv, LiveMonitors
  <2>3. \A u \in Threads : tpc'[u] \in Answering => ~dying'[tmon'[u]]
    BY Zenon, <1>a DEF MonitorInv, LiveMonitors
  <2> QED BY Zenon, <2>1, <2>2, <2>3, <1>a DEF MonitorInv, LiveMonitors
<1>7. CountExact'
  <2> SUFFICES ASSUME NEW n \in created
               PROVE  ref_count[n] = Cardinality(Referring(n)') + lost'[n]
    BY Zenon, <1>a DEF CountExact
  <2>1. /\ n \in Monitors /\ lost[n] \in Nat /\ Cardinality(Referring(n)) \in Nat
        /\ ref_count[n] = Cardinality(Referring(n)) + lost[n]
    BY Zenon, <1>0, CountsFinite DEF MonitorInv, CountExact, TypeOK
  <2>2. CASE e \notin Referring(n)
    <3>1. Referring(n)' = Referring(n) /\ lost'[n] = lost[n]
      BY Zenon, <2>1, <2>2, <1>c, <1>l
    <3> QED BY Zenon, <3>1, <2>1
  <2>3. CASE e \in Referring(n)
    <3>1. Referring(n)' = Referring(n) \ {e} /\ lost'[n] = lost[n] + 1
      BY Zenon, <2>1, <2>3, <1>c, <1>l
    <3>2. Cardinality(Referring(n)') = Cardinality(Referring(n)) - 1
      BY Zenon, <3>1, <2>3, CountsFinite, FS_RemoveElement
    <3> QED BY <3>1, <3>2, <2>1
  <2> QED BY Zenon, <2>2, <2>3
<1>9. DyingRemoved'
  BY Zenon, <1>a, <1>c DEF MonitorInv, DyingRemoved
<1>10. LastUser'
  BY Zenon, <1>a, <1>c, <1>d DEF MonitorInv, LastUser
<1>11. NoUseAfterDestroy'
  BY Zenon, <1>0, <1>a, <1>b, NullIsNothing DEF MonitorInv, NoUseAfterDestroy, TypeOK
<1> QED BY Zenon, <1>1, <1>2, <1>4, <1>5, <1>6, <1>7, <1>9, <1>10, <1>11 DEF MonitorInv

\* chitcpd_allocate_socket leaves debug_monitor alone.
LEMMA AllocateSocketPreserves ==
    ASSUME MonitorInv, NEW e \in Entries, AllocateSocket(e)
    PROVE  MonitorInv'
<1>0. TypeOK
  BY Zenon DEF MonitorInv
<1>a. /\ status[e] = "free"
      /\ status' = [status EXCEPT ![e] = "used"]
      /\ UNCHANGED <<debug_monitor, tested, created, destroyed, lock_sockfd, numwaiters, ref_count,
                     dying, lost, tpc, tentry, tmon, tnew>>
  BY Zenon DEF AllocateSocket, monitorVars, threadVars
<1>b. status'[e] = "used" /\ \A x \in Entries \ {e} : status'[x] = status[x]
  BY Zenon, <1>0, <1>a DEF TypeOK
<1>c. \A n : Referring(n)' = Referring(n) /\ Waiters(n)' = Waiters(n)
  BY Zenon, <1>a DEF Referring, Waiters
<1>1. TypeOK'
  BY Zenon, <1>0, <1>a DEF TypeOK, Statuses
<1>2. CallShape' /\ LockOwned'
  BY Zenon, <1>a DEF MonitorInv, CallShape, LockOwned
<1>4. WaitersExact' /\ CountExact'
  BY Zenon, <1>a, <1>c DEF MonitorInv, WaitersExact, CountExact
<1>5. EntryStatus'
  <2>1. \A u \in Threads : /\ tpc[u] \in InBreakpoint \cup InDetach => tentry[u] \in Entries \ {e}
                           /\ tnew[u] # NULL => tnew[u] \in Entries \ {e}
    BY Zenon, <1>0, <1>a DEF MonitorInv, EntryStatus, CallShape, InBreakpoint, InDetach, TypeOK
  <2> QED BY <2>1, <1>a, <1>b, SMTT(20) DEF MonitorInv, EntryStatus
<1>6. LiveMonitors'
  BY Zenon, <1>a, <1>b DEF MonitorInv, LiveMonitors
<1>9. DyingRemoved' /\ LastUser'
  BY Zenon, <1>a, <1>c DEF MonitorInv, DyingRemoved, LastUser
<1>11. NoUseAfterDestroy'
  BY Zenon, <1>a DEF MonitorInv, NoUseAfterDestroy
<1> QED BY Zenon, <1>1, <1>2, <1>4, <1>5, <1>6, <1>9, <1>11 DEF MonitorInv

-----------------------------------------------------------------------------

\* Every step a thread takes inside a call.
LEMMA StepPreserves ==
    ASSUME MonitorInv, NEW t \in Threads, Step(t)
    PROVE  MonitorInv'
<1>0. TypeOK
  BY Zenon DEF MonitorInv
<1> USE DEF InBreakpoint, InDetach, Waiting, Answering, Destroying
<1>1. CASE Lock(t)
  BY Zenon, <1>1, LockPreserves
<1>2. CASE Recheck(t)
  <2>1. PICK l \in {"exchange", "release"} :
          /\ l = IF debug_monitor[tentry[t]] = tmon[t] THEN "exchange" ELSE "release"
          /\ Goto(t, l)
    BY Zenon, <1>2 DEF Recheck
  <2>a. /\ tpc[t] = "recheck"
        /\ UNCHANGED <<status, debug_monitor, tested, created, destroyed, lock_sockfd, numwaiters,
                       ref_count, dying, lost, tentry, tmon, tnew>>
    BY Zenon, <1>2 DEF Recheck, monitorVars
  <2>m. PICK m \in Monitors : m = tmon[t]
    BY Zenon, <1>0, <2>a DEF MonitorInv, CallShape, TypeOK
  <2>2. \A u \in Threads : ~(tpc[u] = "remove" /\ tmon[u] = m)
    BY Zenon, <2>a, <2>m, OneOwner
  <2>3. l = "exchange" => Referring(m) # {}
    BY Zenon, <2>1, <2>a, <2>m DEF Referring, MonitorInv, CallShape
  <2>4. l = "exchange" => ~dying[tmon[t]]
    BY Zenon, <2>m, <2>2, <2>3 DEF MonitorInv, DyingRemoved
  <2> QED BY Zenon, <2>1, <2>4, <2>a, OwnerMoves
<1>3. CASE Exchange(t)
  <2>a. /\ tpc[t] = "exchange"
        /\ UNCHANGED <<status, debug_monitor, tested, created, destroyed, lock_sockfd, numwaiters,
                       ref_count, lost, tentry, tmon, tnew>>
    BY Zenon, <1>3 DEF Exchange
  <2>b. ~dying[tmon[t]]
    BY Zenon, <2>a DEF MonitorInv, LiveMonitors
  <2>c. PICK l \in {"remove", "stop", "attach", "release"} :
          /\ Goto(t, l)
          /\ l = "attach" => tnew[t] # NULL
          /\ \/ UNCHANGED dying
             \/ l = "remove" /\ dying' = [dying EXCEPT ![tmon[t]] = TRUE]
    BY Zenon, <1>3 DEF Exchange
  <2> QED BY Zenon, <2>a, <2>b, <2>c, OwnerMoves
<1>4. CASE RespStop(t)
  <2>1. PICK l \in {"remove", "release"} : Goto(t, l)
    BY Zenon, <1>4 DEF RespStop
  <2>2. tentry[t] \in Entries
    BY Zenon, <1>4 DEF RespStop, MonitorInv, CallShape
  <2> QED BY Zenon, <2>1, <2>2, <1>4, OwnerDetaches DEF RespStop
<1>5. CASE RespAcceptMonitor(t)
  BY Zenon, <1>5, RespAcceptMonitorPreserves
<1>6. CASE RemoveFromTable(t)
  <2>a. /\ tpc[t] = "remove"
        /\ UNCHANGED <<status, tested, created, destroyed, lock_sockfd, numwaiters, lost, tentry, tmon,
                       tnew>>
    BY Zenon, <1>6 DEF RemoveFromTable
  <2>1. ASSUME NEW e \in Entries, DetachMonitorFromEntry(tmon[t], e), UNCHANGED tpc
        PROVE  MonitorInv'
    <3>1. Goto(t, "remove")
      BY Zenon, <1>0, <2>a, <2>1 DEF Goto, TypeOK
    <3> QED BY Zenon, <2>1, <2>a, <3>1, OwnerDetaches
  <2>2. ASSUME \A e \in Entries : debug_monitor[e] # tmon[t], Goto(t, "release"),
               UNCHANGED <<debug_monitor, ref_count, dying>>
        PROVE  MonitorInv'
    <3>1. Referring(tmon[t]) = {}
      BY Zenon, <2>2 DEF Referring
    <3> QED BY Zenon, <2>2, <2>a, <3>1, OwnerMoves
  <2> QED BY Zenon, <1>6, <2>1, <2>2 DEF RemoveFromTable
<1>7. CASE Detach(t)
  <2>1. tentry[t] \in Entries
    BY Zenon, <1>7 DEF Detach, MonitorInv, CallShape
  <2> QED BY Zenon, <2>1, <1>7, OwnerDetaches DEF Detach
<1>8. CASE ReleaseUnlock(t)
  BY Zenon, <1>8, ReturnPreserves DEF ReleaseUnlock
<1>9. CASE ReleaseLast(t)
  <2>a. /\ tpc[t] \in {"release", "detach_release"}
        /\ dying[tmon[t]] /\ numwaiters[tmon[t]] = 0
        /\ UNCHANGED <<status, debug_monitor, tested, created, destroyed, lock_sockfd, numwaiters,
                       ref_count, dying, lost, tentry, tmon, tnew>>
    BY Zenon, <1>9 DEF ReleaseLast, Unneeded, monitorVars
  <2>m. PICK m \in Monitors : m = tmon[t]
    BY Zenon, <1>0, <2>a DEF MonitorInv, CallShape, TypeOK
  <2>1. Waiters(m) = {}
    BY Zenon, <2>a, <2>m, CountsFinite DEF MonitorInv, WaitersExact
  <2>2. \A u \in Threads : ~(tpc[u] = "remove" /\ tmon[u] = m)
    BY Zenon, <2>a, <2>m, OneOwner
  <2>3. Referring(m) = {}
    BY Zenon, <2>a, <2>m, <2>2 DEF MonitorInv, DyingRemoved
  <2>4. PICK l \in {"destroy", "detach_destroy"} :
          l = (IF tpc[t] = "release" THEN "destroy" ELSE "detach_destroy") /\ Goto(t, l)
    BY Zenon, <1>9 DEF ReleaseLast
  <2> QED BY Zenon, <2>a, <2>m, <2>1, <2>3, <2>4, OwnerMoves
<1>10. CASE DebugMonDestroy(t)
  BY Zenon, <1>10, ReturnPreserves DEF DebugMonDestroy
<1> QED BY Zenon, <1>1, <1>2, <1>3, <1>4, <1>5, <1>6, <1>7, <1>8, <1>9, <1>10 DEF Step

\* The inductive invariant, for any number of sockets, monitors and threads.
THEOREM MonitorInvariant == Spec => []MonitorInv
<1>1. Init => MonitorInv
  <2> SUFFICES ASSUME Init
               PROVE  MonitorInv
    BY Zenon
  <2>1. TypeOK
    BY Zenon DEF Init, TypeOK, Statuses
  <2>2. \A m \in Monitors : Waiters(m) = {}
    BY Zenon DEF Init, Waiters, Waiting
  <2>3. WaitersExact
    BY Zenon, <2>2, CountsFinite DEF Init, WaitersExact
  <2>4. CallShape /\ LockOwned /\ EntryStatus /\ LiveMonitors
    BY Zenon DEF Init, CallShape, LockOwned, EntryStatus, LiveMonitors, InBreakpoint, InDetach,
           Answering, Waiting
  <2>5. CountExact /\ DyingRemoved /\ LastUser
    BY Zenon DEF Init, CountExact, DyingRemoved, LastUser, Destroying
  <2>6. NoUseAfterDestroy
    BY Zenon DEF Init, NoUseAfterDestroy
  <2> QED BY Zenon, <2>1, <2>3, <2>4, <2>5, <2>6 DEF MonitorInv
<1>2. MonitorInv /\ [Next]_vars => MonitorInv'
  <2> SUFFICES ASSUME MonitorInv, [Next]_vars
               PROVE  MonitorInv'
    BY Zenon
  <2>1. CASE UNCHANGED vars
    <3>1. UNCHANGED <<status, debug_monitor, tested, created, destroyed, lock_sockfd, numwaiters,
                      ref_count, dying, lost, tpc, tentry, tmon, tnew>>
      BY Zenon, <2>1 DEF vars, monitorVars, threadVars
    <3>2. \A n : Referring(n)' = Referring(n) /\ Waiters(n)' = Waiters(n)
      BY Zenon, <3>1 DEF Referring, Waiters
    <3>3. TypeOK' /\ CallShape' /\ LockOwned'
      BY Zenon, <3>1 DEF MonitorInv, TypeOK, CallShape, LockOwned
    <3>6. EntryStatus' /\ LiveMonitors'
      BY Zenon, <3>1 DEF MonitorInv, EntryStatus, LiveMonitors
    <3>4. WaitersExact' /\ CountExact' /\ DyingRemoved' /\ LastUser'
      BY Zenon, <3>1, <3>2 DEF MonitorInv, WaitersExact, CountExact, DyingRemoved, LastUser
    <3>5. NoUseAfterDestroy'
      BY Zenon, <3>1 DEF MonitorInv, NoUseAfterDestroy
    <3> QED BY Zenon, <3>3, <3>4, <3>5, <3>6 DEF MonitorInv
  <2>2. CASE \E m \in Monitors : InitDebugConnection(m) \/ \E e \in Entries : TestAvailable(m, e)
    BY Zenon, <2>2, InitDebugConnectionPreserves, TestAvailablePreserves
  <2>3. CASE \E t \in Threads, e \in Entries, new \in Entries \cup {NULL} : ObtainDebugMon(t, e, new)
    BY Zenon, <2>3, ObtainDebugMonPreserves
  <2>4. CASE \E t \in Threads, e \in Entries : FreeSocketEntry(t, e)
    BY Zenon, <2>4, FreeSocketEntryPreserves
  <2>5. CASE \E t \in Threads : Step(t)
    BY Zenon, <2>5, StepPreserves
  <2>6. CASE \E e \in Entries : AllocateSocket(e) \/ ClearEntry(e)
    BY Zenon, <2>6, AllocateSocketPreserves, ClearEntryPreserves
  <2> QED BY Zenon, <2>1, <2>2, <2>3, <2>4, <2>5, <2>6 DEF Next
<1> QED BY <1>1, <1>2, PTL DEF Spec

\* debug_mon_release destroys a monitor only when no thread waits for it or uses
\* it and no entry refers to it.
THEOREM DestroyedMonitorsUnused == Spec => []NoUseAfterDestroy
<1>1. MonitorInv => NoUseAfterDestroy
  BY Zenon DEF MonitorInv
<1> QED BY <1>1, MonitorInvariant, PTL

\* Whatever sockets clients attach to, and when, ref_count is the number of
\* entries that refer to the monitor and of the references that were lost: no
\* interleaving of attaching and detaching miscounts.
THEOREM ReferencesCounted == Spec => []RefCountExact
<1>1. MonitorInv => RefCountExact
  BY Zenon DEF MonitorInv, CountExact, RefCountExact, Referring
<1> QED BY <1>1, MonitorInvariant, PTL
=============================================================================
