-------------------------- MODULE SocketAddresses --------------------------
(***************************************************************************)
(* The addresses of the sockets: how BIND, CONNECT, ACCEPT and             *)
(* chitcpd_free_socket_entry assign and give back ports through the port   *)
(* table, and how chitcpd_lookup_socket (src/chitcpd/serverinfo.c) finds   *)
(* the socket an incoming segment is for.                                  *)
(*                                                                         *)
(* A lookup is one critical section, and so is an operator; the property   *)
(* quantifies over every segment that could arrive.  One address family:   *)
(* a socket without addresses has none and matches nothing.                *)
(***************************************************************************)
EXTENDS Integers, FiniteSets

CONSTANTS
    TableSize,       \* chisocket_table_size
    PortMod,         \* 2^16: ports are 16 bits wide, and the table has one entry each
    EphemeralStart,  \* ephemeral_port_start
    BindAddrs,       \* the addresses of this host that applications bind, and the ports
    BindPorts,
    Local,           \* the address of this host
    Remotes,         \* the addresses of the peers
    Loopbacks,       \* those of them that are loopback addresses
    RemotePorts,
    Wildcard,        \* the wildcard address
    HandlerThreads,  \* the handler threads that serve BIND and CONNECT requests
    MaxBusy,         \* bound on the sockets in use, the calls under way and the sockets
                     \* that are being freed, together
    NULL

ASSUME AddressAssumption ==
    /\ TableSize \in Nat \ {0}
    /\ MaxBusy \in Nat
    /\ PortMod \in Nat \ {0}
    /\ EphemeralStart \in 0..(PortMod - 1)
    /\ BindPorts \subseteq 0..(PortMod - 1)
    /\ RemotePorts \subseteq 0..(PortMod - 1)
    /\ Loopbacks \subseteq Remotes
    /\ BindAddrs \subseteq {Local, Wildcard}
    /\ Wildcard \notin Remotes \cup {Local}

Sockets == 0..(TableSize - 1)
Ports == 0..(PortMod - 1)
Addresses == [addr : Remotes \cup {Local, Wildcard}, port : Ports]
NoAddress == [addr |-> NULL, port |-> PortMod - 1]
\* chitcp_addr_set_any and chitcp_set_addr_port
AnyAddress(port) == [addr |-> Wildcard, port |-> port]

VARIABLES
    status,       \* "available", "used", "freeing"
    kind,         \* actpas_type, and for an active socket which call made it
    local_addr, remote_addr,
    port_table,   \* [Ports -> Sockets or NULL]
    call          \* per handler thread: a BIND or CONNECT that has chosen a port
                  \* and not yet taken it, or NULL

vars == <<status, kind, local_addr, remote_addr, port_table, call>>

Kinds == {"uninitialized", "passive", "connected", "accepted"}
\* found is a history of what the call saw when it chose the port: that it was
\* free, that no ephemeral port was left, or that another socket had it.
Calls == [op : {"BIND", "CONNECT"}, socket : Sockets, port : Ports,
          addr : Remotes \cup {Local, Wildcard}, rport : RemotePorts \cup {0},
          found : {"free", "full", "taken"}]

TypeOK ==
    /\ status \in [Sockets -> {"available", "used", "freeing"}]
    /\ kind \in [Sockets -> Kinds]
    /\ local_addr \in [Sockets -> Addresses \cup {NoAddress}]
    /\ remote_addr \in [Sockets -> Addresses \cup {NoAddress}]
    /\ port_table \in [Ports -> Sockets \cup {NULL}]
    /\ call \in [HandlerThreads -> Calls \cup {NULL}]
    /\ \A s \in Sockets : status[s] = "available" => kind[s] = "uninitialized"

Init ==
    /\ status = [s \in Sockets |-> "available"]
    /\ kind = [s \in Sockets |-> "uninitialized"]
    /\ local_addr = [s \in Sockets |-> NoAddress]
    /\ remote_addr = [s \in Sockets |-> NoAddress]
    /\ port_table = [p \in Ports |-> NULL]
    /\ call = [h \in HandlerThreads |-> NULL]

-----------------------------------------------------------------------------
(* chitcpd_lookup_socket.                                                  *)

\* chitcp_addr_is_any, chitcp_addr_cmp and chitcp_addr_port_cmp
AddrIsAny(a) == a.addr = Wildcard
SameAddr(a, b) == a.addr = b.addr
SamePort(a, b) == a.port = b.port

\* Mutation of Candidate: the remote addresses are not compared.
CandidateLocal(s, l, r) ==
    /\ status[s] = "used"
    /\ local_addr[s] # NoAddress
    /\ SamePort(l, local_addr[s])
    /\ AddrIsAny(local_addr[s]) \/ AddrIsAny(l) \/ SameAddr(l, local_addr[s])

\* The addresses agree, or one of them is the wildcard; the remote ports are
\* only compared when neither is.
Candidate(s, l, r) ==
    /\ status[s] = "used"
    /\ local_addr[s] # NoAddress
    /\ SamePort(l, local_addr[s])
    /\ AddrIsAny(local_addr[s]) \/ AddrIsAny(l) \/ SameAddr(l, local_addr[s])
    /\ \/ AddrIsAny(remote_addr[s]) \/ AddrIsAny(r)
       \/ SameAddr(r, remote_addr[s]) /\ SamePort(r, remote_addr[s])

Wildcards(a, b) == IF AddrIsAny(a) # AddrIsAny(b) THEN 1 ELSE 0

Nwildcards(s, l, r) == Wildcards(local_addr[s], l) + Wildcards(remote_addr[s], r)

\* Mutation of Better: of two equal matches the later one is taken.
BetterLast(n, max) == n <= max

Better(n, max) == n < max

\* The loop, from slot i on, with the best match so far.  It stops at a match
\* without wildcards.
LookupSocket(l, r, exact_match_only) ==
    LET Loop[i \in 0..TableSize, match \in Sockets \cup {NULL}, max \in 0..3] ==
            IF i = TableSize \/ max = 0 THEN match
            ELSE LET n == Nwildcards(i, l, r)
                 IN IF /\ Candidate(i, l, r)
                       /\ ~(n > 0 /\ exact_match_only)
                       /\ Better(n, max)
                    THEN Loop[i + 1, i, n]
                    ELSE Loop[i + 1, match, max]
    IN Loop[0, NULL, 3]

\* chitcpd_find_ephemeral_port returns a uint16_t.
FindEphemeralPort ==
    LET unused == {p \in Ports : p >= EphemeralStart /\ port_table[p] = NULL}
    IN IF unused = {} THEN (-1) % PortMod
       ELSE CHOOSE p \in unused : \A q \in unused : p <= q

-----------------------------------------------------------------------------
(* The calls that give a socket its addresses.  No lock protects the port  *)
(* table: BIND tests the port and CONNECT chooses one in a step before the *)
(* one that takes it.                                                      *)

\* One more is within the bound.
Room == Cardinality({s \in Sockets : status[s] # "available"})
        + Cardinality({s \in Sockets : status[s] = "freeing"})
        + Cardinality({h \in HandlerThreads : call[h] # NULL}) < MaxBusy

AllocateSocket(s) ==
    /\ Room
    /\ status[s] = "available"
    /\ \A q \in 0..(s - 1) : status[q] # "available"
    /\ status' = [status EXCEPT ![s] = "used"]

SOCKET(s) ==
    /\ AllocateSocket(s)
    /\ UNCHANGED <<kind, local_addr, remote_addr, port_table, call>>

\* Thread h serves a call for socket s that is about to take port p.
Choose(h, op, s, p, addr, rport, found) ==
    /\ Room
    /\ call[h] = NULL
    /\ call' = [call EXCEPT ![h] = [op |-> op, socket |-> s, port |-> p, addr |-> addr,
                                    rport |-> rport, found |-> found]]
    /\ UNCHANGED <<status, kind, local_addr, remote_addr, port_table>>

\* Mutation of BIND: a port that is in use is given again.
BINDInUse(h, s, a) ==
    /\ status[s] # "available" /\ kind[s] # "passive"
    /\ Choose(h, "BIND", s, a.port, a.addr, 0,
              IF port_table[a.port] = NULL THEN "free" ELSE "taken")

\* BIND tests that the socket is CLOSED, which any but a passive one may be, and
\* that the port is not taken.  A socket may be bound again.
BIND(h, s, a) ==
    /\ status[s] # "available" /\ kind[s] # "passive"
    /\ port_table[a.port] = NULL
    /\ Choose(h, "BIND", s, a.port, a.addr, 0, "free")

\* The rest of BIND.  It tests nothing again, and the port that the socket had
\* before stays taken.
BindSet(h) ==
    /\ call[h] # NULL /\ call[h].op = "BIND"
    /\ LET s == call[h].socket
       IN /\ local_addr' = [local_addr EXCEPT ![s] = [addr |-> call[h].addr, port |-> call[h].port]]
          /\ remote_addr' = [remote_addr EXCEPT ![s] = AnyAddress(0)]
          /\ port_table' = [port_table EXCEPT ![call[h].port] = s]
    /\ call' = [call EXCEPT ![h] = NULL]
    /\ UNCHANGED <<status, kind>>

\* A CONNECT of s is under way.
Connecting(s) == \E h \in HandlerThreads :
                    call[h] # NULL /\ call[h].op = "CONNECT" /\ call[h].socket = s

\* LISTEN and CONNECT require a CLOSED socket, here one that is not initialized:
\* what they do to a socket that is set up already is the subject of Handlers.
LISTEN(s) ==
    /\ status[s] = "used" /\ kind[s] = "uninitialized" /\ ~Connecting(s)
    /\ kind' = [kind EXCEPT ![s] = "passive"]
    /\ UNCHANGED <<status, local_addr, remote_addr, port_table, call>>

CONNECT(h, s, r) ==
    /\ status[s] = "used" /\ kind[s] = "uninitialized" /\ ~Connecting(s)
    /\ Choose(h, "CONNECT", s, FindEphemeralPort, r.addr, r.port,
              IF port_table[FindEphemeralPort] = NULL THEN "free" ELSE "full")

\* The rest of CONNECT.  The local address is the wildcard, or the address of
\* the peer when that is a loopback address.  A port the socket was bound to
\* stays taken.
ConnectSet(h) ==
    /\ call[h] # NULL /\ call[h].op = "CONNECT"
    /\ LET s == call[h].socket
           local == IF call[h].addr \in Loopbacks THEN call[h].addr ELSE Wildcard
       IN /\ kind' = [kind EXCEPT ![s] = "connected"]
          /\ local_addr' = [local_addr EXCEPT ![s] = [addr |-> local, port |-> call[h].port]]
          /\ remote_addr' = [remote_addr EXCEPT ![s] = [addr |-> call[h].addr,
                                                        port |-> call[h].rport]]
          /\ port_table' = [port_table EXCEPT ![call[h].port] = s]
    /\ call' = [call EXCEPT ![h] = NULL]
    /\ UNCHANGED status

\* The address of this host that a peer at address addr sends to.
HostAddr(addr) == IF addr \in Loopbacks THEN addr ELSE Local

\* ACCEPT gives the new socket n the addresses of the segment that was queued at
\* the passive socket s, and does not touch the port table.  A duplicated SYN
\* may have been queued twice.
ACCEPT(s, n, r) ==
    /\ status[s] = "used" /\ kind[s] = "passive" /\ local_addr[s] # NoAddress
    /\ AllocateSocket(n)
    /\ kind' = [kind EXCEPT ![n] = "accepted"]
    /\ local_addr' = [local_addr EXCEPT ![n] = [addr |-> HostAddr(r.addr),
                                                 port |-> local_addr[s].port]]
    /\ remote_addr' = [remote_addr EXCEPT ![n] = r]
    /\ UNCHANGED <<port_table, call>>

\* chitcpd_free_socket_entry: the port of the local address is marked as
\* available, and a socket that has no address gives back the last port.
FreeBegin(s) ==
    /\ Room
    /\ status[s] = "used" /\ kind[s] # "uninitialized"
    /\ status' = [status EXCEPT ![s] = "freeing"]
    /\ UNCHANGED <<kind, local_addr, remote_addr, port_table, call>>

FreeEnd(s) ==
    /\ status[s] = "freeing"
    /\ port_table' = [port_table EXCEPT ![local_addr[s].port] = NULL]
    /\ status' = [status EXCEPT ![s] = "available"]
    /\ kind' = [kind EXCEPT ![s] = "uninitialized"]
    /\ local_addr' = [local_addr EXCEPT ![s] = NoAddress]
    /\ remote_addr' = [remote_addr EXCEPT ![s] = NoAddress]
    /\ UNCHANGED call

RemoteAddresses == [addr : Remotes, port : RemotePorts]

Next ==
    \/ \E h \in HandlerThreads : BindSet(h) \/ ConnectSet(h)
    \/ \E s \in Sockets :
        \/ SOCKET(s) \/ LISTEN(s) \/ FreeBegin(s) \/ FreeEnd(s)
        \/ \E h \in HandlerThreads :
              \/ \E a \in [addr : BindAddrs, port : BindPorts] : BIND(h, s, a)
              \/ \E r \in RemoteAddresses : CONNECT(h, s, r)
        \/ \E n \in Sockets, r \in RemoteAddresses : ACCEPT(s, n, r)

Spec == Init /\ [][Next]_vars

-----------------------------------------------------------------------------
(* Properties.                                                             *)

\* The loop of chitcpd_lookup_socket finds what it is meant to find, for every
\* pair of addresses a segment may have, and for the wildcard as local address:
\* a socket that matches with the fewest wildcards, the first such one; none
\* when no socket matches; and with exact_match_only the same among the matches
\* without wildcards.
BestMatch ==
    \A r \in RemoteAddresses, exact \in BOOLEAN :
    \A l \in [addr : {HostAddr(r.addr), Wildcard}, port : Ports] :
        LET C == {s \in Sockets : Candidate(s, l, r) /\ (exact => Nwildcards(s, l, r) = 0)}
            best == {s \in C : \A q \in C : Nwildcards(s, l, r) <= Nwildcards(q, l, r)}
            found == LookupSocket(l, r, exact)
        IN IF C = {} THEN found = NULL
           ELSE found \in best /\ \A q \in best : found <= q

\* Another socket of the table has the port of s.
Shared(s) ==
    \E q \in Sockets \ {s} : /\ status[q] = "used" /\ local_addr[q] # NoAddress
                             /\ SamePort(local_addr[q], local_addr[s])

\* A segment of a connection reaches a socket of that connection, never the
\* passive socket on the same port nor the socket of another connection, when
\* ACCEPT made the socket, and when CONNECT did, as long as no other socket has
\* its port: it only matches through a wildcard, unless its peer is this host.  A socket of a connection has the wildcard as
\* remote address only when a BIND has replaced its addresses.
ReachesItsConnection ==
    \A s \in Sockets :
        /\ status[s] = "used" /\ kind[s] \in {"connected", "accepted"}
        /\ ~AddrIsAny(remote_addr[s])
        /\ kind[s] = "connected" => ~Shared(s)
        => LET l == [addr |-> HostAddr(remote_addr[s].addr), port |-> local_addr[s].port]
               found == LookupSocket(l, remote_addr[s], FALSE)
           IN found # NULL /\ remote_addr[found] = remote_addr[s]

\* s has its port by BIND or CONNECT, and the port table says so.
Assigned(s) ==
    /\ status[s] = "used" /\ local_addr[s] # NoAddress
    /\ port_table[local_addr[s].port] = s

\* "If not NULL, it contains a pointer to the socket that is assigned to that
\* port" (serverinfo.h): a socket that is in use loses the port it was assigned
\* in three ways only.  chitcpd_free_socket_entry gives a port back by its
\* number, whoever it is assigned to, when it frees a socket that has the same
\* port: an accepted socket, a socket without address (which gives back the last
\* port), or one that has lost the port before.  A BIND or CONNECT that found
\* the port free takes it, although another call has taken it since.  And
\* CONNECT takes the last port when no ephemeral one is left, because the -1
\* that chitcpd_find_ephemeral_port means to return is 16 bits wide.
PortKept ==
    [][\A s \in Sockets :
          LET p == local_addr[s].port
          IN Assigned(s) /\ status'[s] = "used" /\ local_addr'[s] = local_addr[s] =>
               \/ port_table'[p] = s
               \/ \E q \in Sockets \ {s} : /\ status[q] = "freeing" /\ status'[q] = "available"
                                           /\ local_addr[q].port = p
               \/ \E h \in HandlerThreads : /\ call[h] # NULL /\ call'[h] = NULL
                                            /\ call[h].port = p /\ call[h].socket # s
                                            /\ \/ call[h].found = "free"
                                               \/ call[h].found = "full" /\ p = PortMod - 1]_vars
=============================================================================
