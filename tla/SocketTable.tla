---------------------------- MODULE SocketTable ----------------------------
(***************************************************************************)
(* The socket table of the chiTCP daemon (src/chitcpd/serverinfo.c): how a *)
(* slot is allocated, referenced by several threads at once, and freed.    *)
(*                                                                         *)
(* Every function of the table is a critical section of                    *)
(* lock_chisocket_table, so each is one action, except                     *)
(* chitcpd_free_socket_entry: it sleeps on cv_chisocket_table until the    *)
(* last reference is gone and tears the entry down without the lock, so it *)
(* is the four actions FreeBegin, FreeWake, Teardown and Reclaim.          *)
(*                                                                         *)
(* Next is the most general caller that respects the rules the table's     *)
(* header states: it only releases what it looked up, it holds no          *)
(* reference while it frees a socket, and no socket is freed twice.  The   *)
(* threads of the daemon are checked against these rules in Handlers.      *)
(***************************************************************************)
EXTENDS Integers, FiniteSets

CONSTANTS
    Threads,     \* threads of the daemon: handlers, TCP threads, network threads
    Locals,      \* names of the local variables that hold a looked-up entry
    TableSize,   \* chisocket_table_size
    NULL

ASSUME TableAssumption ==
    /\ IsFiniteSet(Threads)
    /\ IsFiniteSet(Locals)
    /\ TableSize \in Nat \ {0}
    /\ NULL \notin 0..(TableSize - 1)

Sockets == 0..(TableSize - 1)

\* A pointer to an entry obtained from chitcpd_lookup_socket or
\* chitcpd_acquire_socket lives in a local variable of a thread.  A thread may
\* have several: ACCEPT holds two, and a connection thread that draws a
\* withheld segment may look up the entry it already holds.
Pointers == Threads \X Locals

VARIABLES
    available,   \* chisocketentry_t.available
    freeing,     \* chisocketentry_t.freeing
    refcount,    \* chisocketentry_t.refcount
    ptr,         \* the references threads hold: [Pointers -> Sockets or NULL]
    fsock,       \* the entry a thread is freeing, or NULL
    fpc,         \* how far it is in chitcpd_free_socket_entry
    cv_table     \* threads asleep on cv_chisocket_table

tableVars == <<available, freeing, refcount, ptr, fsock, fpc, cv_table>>

\* "none": not in chitcpd_free_socket_entry; "waiting": in the loop that waits
\* for the reference count; "teardown": past it, destroying the entry's locks,
\* lists and buffers; "cleared": everything destroyed, entry not yet reset.
FreePhases == {"none", "waiting", "teardown", "cleared"}

TypeOK ==
    /\ available \in [Sockets -> BOOLEAN]
    /\ freeing \in [Sockets -> BOOLEAN]
    /\ refcount \in [Sockets -> Nat]
    /\ ptr \in [Pointers -> Sockets \cup {NULL}]
    /\ fsock \in [Threads -> Sockets \cup {NULL}]
    /\ fpc \in [Threads -> FreePhases]
    /\ cv_table \in SUBSET Threads

\* chitcpd_server_init: every slot is available, nobody uses one.
TableInit ==
    /\ available = [s \in Sockets |-> TRUE]
    /\ freeing = [s \in Sockets |-> FALSE]
    /\ refcount = [s \in Sockets |-> 0]
    /\ ptr = [p \in Pointers |-> NULL]
    /\ fsock = [t \in Threads |-> NULL]
    /\ fpc = [t \in Threads |-> "none"]
    /\ cv_table = {}

\* chitcpd_allocate_socket: the first available slot.
Allocate(t, s) ==
    /\ available[s]
    /\ \A j \in Sockets : j < s => ~available[j]
    /\ available' = [available EXCEPT ![s] = FALSE]
    /\ UNCHANGED <<freeing, refcount, ptr, fsock, fpc, cv_table>>

\* The test that chitcpd_acquire_socket and chitcpd_lookup_socket share.
InUse(s) == ~available[s] /\ ~freeing[s]

\* Mutation of Acquire: the reference is not counted.
AcquireUncounted(t, v, s) ==
    /\ ptr[<<t, v>>] = NULL
    /\ InUse(s)
    /\ ptr' = [ptr EXCEPT ![<<t, v>>] = s]
    /\ UNCHANGED <<available, freeing, refcount, fsock, fpc, cv_table>>

\* chitcpd_acquire_socket, and the end of chitcpd_lookup_socket (whose choice
\* of entry is the subject of SocketAddresses).
Acquire(t, v, s) ==
    /\ ptr[<<t, v>>] = NULL
    /\ InUse(s)
    /\ refcount' = [refcount EXCEPT ![s] = @ + 1]
    /\ ptr' = [ptr EXCEPT ![<<t, v>>] = s]
    /\ UNCHANGED <<available, freeing, fsock, fpc, cv_table>>

\* chitcpd_release_socket: the last release wakes everybody on the condition
\* variable of the table.
Release(t, v) ==
    LET s == ptr[<<t, v>>] IN
    /\ s # NULL
    /\ refcount' = [refcount EXCEPT ![s] = @ - 1]
    /\ ptr' = [ptr EXCEPT ![<<t, v>>] = NULL]
    /\ cv_table' = IF refcount[s] = 1 THEN {} ELSE cv_table
    /\ UNCHANGED <<available, freeing, fsock, fpc>>

\* Mutation of AwaitReferences: off by one.
AwaitLastReference(t, s) ==
    IF refcount[s] > 1
    THEN /\ fpc' = [fpc EXCEPT ![t] = "waiting"]
         /\ cv_table' = cv_table \cup {t}
    ELSE /\ fpc' = [fpc EXCEPT ![t] = "teardown"]
         /\ cv_table' = cv_table

\* The loop of chitcpd_free_socket_entry, reached with the table lock held:
\* sleep while somebody uses the entry, otherwise leave the critical section.
AwaitReferences(t, s) ==
    IF refcount[s] > 0
    THEN /\ fpc' = [fpc EXCEPT ![t] = "waiting"]
         /\ cv_table' = cv_table \cup {t}
    ELSE /\ fpc' = [fpc EXCEPT ![t] = "teardown"]
         /\ cv_table' = cv_table

\* chitcpd_free_socket_entry up to its first sleep, or to the end of its first
\* critical section.
FreeBegin(t, s) ==
    /\ fpc[t] = "none"
    /\ freeing' = [freeing EXCEPT ![s] = TRUE]
    /\ fsock' = [fsock EXCEPT ![t] = s]
    /\ AwaitReferences(t, s)
    /\ UNCHANGED <<available, refcount, ptr>>

\* pthread_cond_wait returns and the loop tests the count again.
FreeWake(t) ==
    /\ fpc[t] = "waiting"
    /\ t \notin cv_table
    /\ AwaitReferences(t, fsock[t])
    /\ UNCHANGED <<available, freeing, refcount, ptr, fsock>>

\* The part of chitcpd_free_socket_entry that runs without the table lock and
\* destroys the entry's mutexes, lists and buffers.
Teardown(t) ==
    /\ fpc[t] = "teardown"
    /\ fpc' = [fpc EXCEPT ![t] = "cleared"]
    /\ UNCHANGED <<available, freeing, refcount, ptr, fsock, cv_table>>

\* Mutation of Reclaim: the memset is the last thing done.
ReclaimForgetsAvailable(t) ==
    LET s == fsock[t] IN
    /\ fpc[t] = "cleared"
    /\ freeing' = [freeing EXCEPT ![s] = FALSE]
    /\ refcount' = [refcount EXCEPT ![s] = 0]
    /\ fsock' = [fsock EXCEPT ![t] = NULL]
    /\ fpc' = [fpc EXCEPT ![t] = "none"]
    /\ UNCHANGED <<available, ptr, cv_table>>

\* Its last critical section: memset of the entry, then available = TRUE.
Reclaim(t) ==
    LET s == fsock[t] IN
    /\ fpc[t] = "cleared"
    /\ available' = [available EXCEPT ![s] = TRUE]
    /\ freeing' = [freeing EXCEPT ![s] = FALSE]
    /\ refcount' = [refcount EXCEPT ![s] = 0]
    /\ fsock' = [fsock EXCEPT ![t] = NULL]
    /\ fpc' = [fpc EXCEPT ![t] = "none"]
    /\ UNCHANGED <<ptr, cv_table>>

\* A TCP thread that ends, or could not be started, also broadcasts the
\* condition variable of the table (for chitcpd_server_stop): a thread in
\* chitcpd_free_socket_entry may be woken for nothing.
Broadcast ==
    /\ cv_table' = {}
    /\ UNCHANGED <<available, freeing, refcount, ptr, fsock, fpc>>

-----------------------------------------------------------------------------
(* The rules a caller of chitcpd_free_socket_entry has to respect.         *)

MayFree(t, s) ==
    /\ InUse(s)
    /\ \A v \in Locals : ptr[<<t, v>>] = NULL

FreeSteps(t) == FreeWake(t) \/ Teardown(t) \/ Reclaim(t)

Next ==
    \E t \in Threads :
        \/ /\ fpc[t] = "none"
           /\ \E s \in Sockets :
                \/ Allocate(t, s)
                \/ \E v \in Locals : Acquire(t, v, s)
                \/ MayFree(t, s) /\ FreeBegin(t, s)
        \/ /\ fpc[t] = "none"
           /\ \E v \in Locals : Release(t, v)
        \/ FreeSteps(t)
        \/ Broadcast

\* A thread inside chitcpd_free_socket_entry runs on, and callers do release
\* what they looked up ("The caller MUST call chitcpd_release_socket").
Fairness ==
    \A t \in Threads :
        /\ WF_tableVars(FreeSteps(t))
        /\ \A v \in Locals : WF_tableVars(fpc[t] = "none" /\ Release(t, v))

Spec == TableInit /\ [][Next]_tableVars

FairSpec == Spec /\ Fairness

-----------------------------------------------------------------------------
(* Properties.                                                             *)

Holders(s) == {p \in Pointers : ptr[p] = s}

BeingDestroyed(s) ==
    \E t \in Threads : fsock[t] = s /\ fpc[t] \in {"teardown", "cleared"}

\* The reference count of an entry is the number of pointers to it that
\* threads hold, in every interleaving of lookups, releases and frees; so the
\* assertion of chitcpd_release_socket never fails.
RefcountExact ==
    \A s \in Sockets : refcount[s] = Cardinality(Holders(s))

\* "An entry is not freed until its reference count drops to zero": no thread
\* holds a pointer to an entry whose locks and buffers are being destroyed, or
\* to a slot that may be given to another socket.
NoUseAfterFree ==
    \A s \in Sockets :
        available[s] \/ BeingDestroyed(s) => Holders(s) = {}

\* At most one thread is ever inside chitcpd_free_socket_entry for an entry,
\* exactly when the entry is marked freeing, and the slot is not available
\* meanwhile: it cannot be allocated again before it has been reset.
OneFreer ==
    /\ \A s \in Sockets : freeing[s] <=> \E t \in Threads : fsock[t] = s
    /\ \A t, u \in Threads : fsock[t] # NULL /\ fsock[t] = fsock[u] => t = u
    /\ \A s \in Sockets : freeing[s] => ~available[s]

\* No wake-up is lost: a thread asleep in chitcpd_free_socket_entry is waiting
\* for a reference that still exists, whose release will wake it.
NoLostWakeup ==
    \A t \in cv_table :
        fpc[t] = "waiting" /\ refcount[fsock[t]] > 0

\* Once chitcpd_free_socket_entry has marked an entry, lookups no longer
\* return it ("Sockets that are in the process of being freed are not
\* returned"): its references only go away, until the slot is reset.
NoNewReferences ==
    [][\A s \in Sockets :
          freeing[s] => {p \in Pointers : ptr'[p] = s} \subseteq Holders(s)]_tableVars

\* chitcpd_free_socket_entry terminates: references disappear one by one, the
\* last release wakes the freeing thread, and the slot becomes available.
FreeCompletes ==
    \A t \in Threads : \A s \in Sockets :
        fsock[t] = s ~> available[s] /\ fsock[t] = NULL
=============================================================================
