------------------------ MODULE CommandSteps_proofs ------------------------
(***************************************************************************)
(* Proofs about the connections between applications and the daemon: the   *)
(* inductive invariant CommandInv, that it holds initially, and that the   *)
(* handler threads, the server thread, the stop of the daemon, and calls   *)
(* that begin and send preserve it.  The steps that make a connection, end *)
(* an exchange or end a client, and the theorems, are in                   *)
(* CommandConnections_proofs.                                              *)
(*                                                                         *)
(* A request has no number by which an answer could be matched with it.    *)
(* That answers do not get mixed up rests on there being one message at    *)
(* most on a connection that its client uses, and on a client that has     *)
(* given up an exchange finding its connection closed.                     *)
(***************************************************************************)
EXTENDS CommandConnections, TLAPS

Kinds == {"none", "plain", "waits", "send", "recv", "debug", "other", "unknown", "init", "cut", "resp"}
Messages == [kind : Kinds, by : Clients, id : Nat, n : Int]

\* The states of a handler thread that has a command at hand, those of a client thread
\* that has a connection in its call, and those of a descriptor that has a number.
Working == {"lock", "run", "respond"}
Using == {"init", "init_resp", "send", "resp"}
InUse == {"open", "shut", "handed"}
FdStates == {"none", "queued", "open", "shut", "handed", "closed"}

In(s, x) == \E i \in 1 .. Len(s) : s[i] = x

ClientType ==
    /\ cpc \in [Clients -> {"idle", "connect", "dead"} \cup Using]
    /\ op \in [Clients -> Kinds]
    /\ key \in [Clients -> Conns \cup {NoConn}]
    /\ sock \in [Clients -> Conns \cup {NoConn}]
    /\ calls \in [Clients -> Nat]
    /\ left \in [Clients -> Int]
    /\ loop \in [Clients -> BOOLEAN]
    /\ result \in [Clients -> {"none", "done", "lost"}]
ConnectionType ==
    /\ fd \in [Conns -> [Ends -> FdStates]]
    /\ pipe \in [Conns -> [Ends -> Seq(Messages)]]
    /\ num \in [Conns -> Nat]
    /\ backlog \in Seq(Conns)
ServerType ==
    /\ state \in {"RUNNING", "STOPPING", "STOPPED"}
    /\ mpc \in {"run", "shutdown", "esocket", "join", "ok"}
    /\ srvsock \in {"listening", "shut", "closed"}
    /\ spc \in {"accept", "recv", "init", "stopping", "join", "exited"}
    /\ scur \in Conns \cup {NoConn}
    /\ sreq \in Messages \cup {NULL}
    /\ handlers \in Seq(Conns)
HandlerType ==
    /\ hpc \in [Conns -> {"none", "recv", "exited"} \cup Working]
    /\ hmsg \in [Conns -> Messages \cup {NULL}]
    /\ owed \in [Clients -> Int]
CommandType == ClientType /\ ConnectionType /\ ServerType /\ HandlerType

\* The server thread joins the handler threads it has started, in the order of its list,
\* and exits when none is left.
HandlersListed ==
    /\ \A k \in Conns : hpc[k] \notin {"none", "exited"} => In(handlers, k)
    /\ \A k \in Conns : In(handlers, k) => hpc[k] # "none"
    /\ spc = "join" => handlers # <<>>
    /\ spc = "exited" => handlers = <<>> \/ srvsock = "closed"
    /\ state = "STOPPED" => spc = "exited"

\* A connection is made in a call, waits in the backlog, is the server thread's, and then
\* its handler thread's.
Fresh(k) ==
    \/ k[2] > calls[Owner(k)]
    \/ k[2] = calls[Owner(k)] /\ cpc[Owner(k)] = "connect"
ConnectionsPass ==
    /\ \A k \in Conns :
          /\ fd[k]["client"] = "none" <=> fd[k]["daemon"] = "none"
          /\ Fresh(k) => fd[k]["client"] = "none"
          /\ fd[k]["daemon"] \in {"none", "queued", "handed"} => hpc[k] = "none"
          /\ In(backlog, k) => fd[k]["daemon"] = "queued"
    /\ \A i, j \in 1 .. Len(backlog) : backlog[i] = backlog[j] => i = j
    /\ spc \in {"recv", "init"} =>
          scur \in Conns /\ fd[scur]["daemon"] = "open" /\ hpc[scur] = "none"

\* Each thread uses connections of its own.
OwnConnections ==
    \A c \in Clients :
        /\ cpc[c] = "connect" => calls[c] \in 1 .. MaxCalls[c]
        /\ key[c] # NoConn => Owner(key[c]) = c
        /\ cpc[c] \in Using => sock[c] # NoConn /\ Owner(sock[c]) = c

\* Of the connections that are open at the daemon's end, no two have one number.
NumbersDiffer ==
    \A j, k \in Conns :
        fd[j]["daemon"] \in InUse /\ fd[k]["daemon"] \in InUse /\ num[j] = num[k] => j = k

-----------------------------------------------------------------------------
(* The messages of a connection are in its pipes, with the handler thread  *)
(* (Held) or with the server thread (AtHand).                              *)

Held(k) == hpc[k] \in Working
AtHand(k) == spc = "init" /\ scur = k

On(k, m) ==
    \/ In(pipe[k]["daemon"], m)
    \/ In(pipe[k]["client"], m)
    \/ Held(k) /\ hmsg[k] = m
    \/ AtHand(k) /\ sreq = m

Quiet(k) ==
    /\ pipe[k]["daemon"] = <<>> /\ pipe[k]["client"] = <<>>
    /\ ~Held(k) /\ ~AtHand(k)

\* The client of the connection waits for an answer on it.
Awaited(k) == cpc[Owner(k)] \in {"init_resp", "resp"} /\ sock[Owner(k)] = k

\* Where no answer is awaited there are only messages of earlier calls, or of a call that
\* has been told that the connection was lost.
InTime(k, m) ==
    \/ m.id < calls[Owner(k)]
    \/ Awaited(k)
    \/ cpc[Owner(k)] = "dead"
    \/ cpc[Owner(k)] = "idle" /\ result[Owner(k)] = "lost"
MessagesOwned(k) ==
    /\ Held(k) => hmsg[k] \in Messages
    /\ hpc[k] = "respond" => hmsg[k].kind = "resp"
    /\ AtHand(k) => sreq \in Messages
    /\ \A m \in Messages : On(k, m) => m.by = Owner(k) /\ m.id <= calls[Owner(k)] /\ InTime(k, m)
    /\ \A m \in Messages : In(pipe[k]["client"], m) => m.kind = "resp"

\* A connection on which its client may send carries nothing.
Usable(k) ==
    \/ fd[k]["client"] = "none"
    \/ fd[k]["client"] = "open" /\ k \in {key[Owner(k)], sock[Owner(k)]} /\ ~Awaited(k)
UsableQuiet(k) == Usable(k) => Quiet(k)

\* The four places of the message on a connection on which an answer is awaited, and what
\* is owed to the client meanwhile.
Bytes(m) == IF m.n > 0 THEN m.n ELSE 0
Unread(k, m) ==
    /\ pipe[k]["daemon"] = <<m>> /\ pipe[k]["client"] = <<>> /\ ~Held(k) /\ ~AtHand(k)
    /\ cpc[Owner(k)] = "init_resp" => hpc[k] = "none"
    /\ owed[Owner(k)] = 0
InServer(k, m) ==
    /\ pipe[k]["daemon"] = <<>> /\ pipe[k]["client"] = <<>> /\ ~Held(k) /\ AtHand(k) /\ sreq = m
    /\ owed[Owner(k)] = 0
InHandler(k, m) ==
    /\ pipe[k]["daemon"] = <<>> /\ pipe[k]["client"] = <<>> /\ Held(k) /\ hmsg[k] = m /\ ~AtHand(k)
    /\ cpc[Owner(k)] = "resp"
    /\ owed[Owner(k)] = IF hpc[k] = "respond" THEN Bytes(m) ELSE 0
Answered(k, m) ==
    /\ pipe[k]["daemon"] = <<>> /\ pipe[k]["client"] = <<m>> /\ ~Held(k) /\ ~AtHand(k)
    /\ owed[Owner(k)] = Bytes(m)
At(k, m) == Unread(k, m) \/ InServer(k, m) \/ InHandler(k, m) \/ Answered(k, m)

\* There is one message at most on such a connection: the request of this call, or the
\* answer to it, whose bytes are those not yet counted.
OneExchange(k) ==
    Awaited(k) =>
        /\ fd[k]["client"] = "open"
        /\ Quiet(k) \/ \E m \in Messages : m.id = calls[Owner(k)] /\ At(k, m)

ConnectionRight(k) == MessagesOwned(k) /\ UsableQuiet(k) /\ OneExchange(k)

\* Nothing is owed but in the exchange of a command; the connections of a client have been
\* made, and have no handler thread before their first message.
Made(c) == \A k \in Conns : k \in {key[c], sock[c]} => fd[k]["client"] # "none"
NothingElseOwed ==
    \A c \in Clients :
        /\ cpc[c] \in Using \cup {"connect"} => result[c] = "none"
        /\ cpc[c] # "resp" /\ result[c] # "lost" => owed[c] = 0
        /\ cpc[c] = "init" => hpc[sock[c]] = "none" /\ fd[sock[c]]["client"] = "open"
        /\ Made(c)

CommandInv ==
    /\ CommandType /\ HandlersListed /\ ConnectionsPass /\ OwnConnections /\ NumbersDiffer
    /\ \A k \in Conns : ConnectionRight(k)
    /\ NothingElseOwed

-----------------------------------------------------------------------------
(* Lemmas on the operators.                                                *)

\* A connection is named by its client and the number of a call.
LEMMA ConnsAre ==
    \A k \in Conns : /\ Owner(k) \in Clients /\ k[2] \in 1 .. MaxCalls[Owner(k)]
                     /\ k = <<Owner(k), k[2]>> /\ k # NoConn
BY CommandAssumption DEF Conns, Owner, NoConn

LEMMA ConnOf ==
    ASSUME NEW c \in Clients, NEW n \in 1 .. MaxCalls[c]
    PROVE  <<c, n>> \in Conns /\ Owner(<<c, n>>) = c /\ <<c, n>>[2] = n
BY DEF Conns, Owner

LEMMA TwoEnds == "client" \in Ends /\ "daemon" \in Ends /\ Other("client") = "daemon"
                 /\ Other("daemon") = "client"
BY DEF Ends, Other

\* What an assignment to one end of one connection does.
LEMMA SetEnd ==
    ASSUME NEW S, NEW f \in [Conns -> [Ends -> S]], NEW k \in Conns, NEW s \in Ends, NEW x \in S,
           NEW g, g = [f EXCEPT ![k][s] = x]
    PROVE  /\ g \in [Conns -> [Ends -> S]]
           /\ \A j \in Conns : j # k => g[j] = f[j]
           /\ \A e \in Ends : e # s => g[k][e] = f[k][e]
           /\ g[k][s] = x
OBVIOUS

LEMMA InAppend ==
    ASSUME NEW S, NEW s \in Seq(S), NEW x \in S
    PROVE  /\ Append(s, x) \in Seq(S)
           /\ \A y : In(Append(s, x), y) <=> In(s, y) \/ y = x
<1>1. /\ Append(s, x) \in Seq(S) /\ Len(Append(s, x)) = Len(s) + 1 /\ Len(s) \in Nat
      /\ \A i \in 1 .. Len(s) : Append(s, x)[i] = s[i]
      /\ Append(s, x)[Len(s) + 1] = x
  OBVIOUS
<1> HIDE DEF In
<1>2. ASSUME NEW y PROVE In(Append(s, x), y) <=> In(s, y) \/ y = x
  <2>1. ASSUME In(Append(s, x), y) PROVE In(s, y) \/ y = x
    BY <1>1, <2>1 DEF In
  <2>2. ASSUME In(s, y) PROVE In(Append(s, x), y)
    BY <1>1, <2>2 DEF In
  <2>3. In(Append(s, x), x)
    <3>1. Len(s) + 1 \in 1 .. Len(Append(s, x))
      BY <1>1
    <3> QED BY Zenon, <1>1, <3>1 DEF In
  <2> QED BY Zenon, <2>1, <2>2, <2>3
<1> QED BY Zenon, <1>1, <1>2

LEMMA InTail ==
    ASSUME NEW S, NEW s \in Seq(S), s # <<>>
    PROVE  /\ Tail(s) \in Seq(S) /\ Head(s) \in S /\ In(s, Head(s))
           /\ \A y : In(s, y) <=> y = Head(s) \/ In(Tail(s), y)
<1>1. /\ Tail(s) \in Seq(S) /\ Len(s) \in Nat /\ Len(s) >= 1 /\ Len(Tail(s)) = Len(s) - 1
      /\ \A i \in 1 .. Len(Tail(s)) : Tail(s)[i] = s[i + 1]
      /\ Head(s) = s[1] /\ Head(s) \in S
  OBVIOUS
<1>2. ASSUME NEW y PROVE In(s, y) <=> y = Head(s) \/ In(Tail(s), y)
  <2>1. ASSUME NEW i \in 1 .. Len(s), s[i] = y, i # 1 PROVE In(Tail(s), y)
    <3>1. i - 1 \in 1 .. Len(Tail(s)) /\ (i - 1) + 1 = i
      BY <1>1, <2>1
    <3>2. Tail(s)[i - 1] = y
      BY <1>1, <2>1, <3>1
    <3> QED BY Zenon, <3>1, <3>2 DEF In
  <2>2. ASSUME NEW i \in 1 .. Len(Tail(s)), Tail(s)[i] = y PROVE In(s, y)
    <3>1. i + 1 \in 1 .. Len(s) /\ s[i + 1] = y
      BY <1>1, <2>2
    <3> QED BY Zenon, <3>1 DEF In
  <2>3. 1 \in 1 .. Len(s)
    BY <1>1
  <2> QED BY Zenon, <1>1, <2>1, <2>2, <2>3 DEF In
<1> QED BY Zenon, <1>1, <1>2

LEMMA InEmpty == \A y : ~In(<<>>, y)
BY DEF In

LEMMA InOne ==
    ASSUME NEW x, NEW S, x \in S
    PROVE  /\ Append(<<>>, x) = <<x>> /\ Head(<<x>>) = x /\ Tail(<<x>>) = <<>> /\ <<x>> # <<>>
           /\ <<x>> \in Seq(S) /\ \A y : In(<<x>>, y) <=> y = x
BY DEF In

LEMMA OneMessage ==
    ASSUME NEW m \in Messages
    PROVE  Append(<<>>, m) = <<m>> /\ \A y : In(<<m>>, y) <=> y = m
BY InOne

\* A message of a client, and the answer to it.
LEMMA MessageIs ==
    ASSUME CommandType, NEW c \in Clients, NEW o \in Kinds, NEW b \in Int
    PROVE  /\ Message(o, c, b) \in Messages
           /\ Message(o, c, b).kind = o /\ Message(o, c, b).by = c
           /\ Message(o, c, b).id = calls[c]
BY DEF Message, Messages, CommandType, ClientType

LEMMA ResponseIs ==
    ASSUME NEW m \in Messages, NEW b \in Int
    PROVE  /\ Response(m, b) \in Messages /\ Response(m, b).kind = "resp"
           /\ Response(m, b).by = m.by /\ Response(m, b).id = m.id /\ Response(m, b).n = b
<1> DEFINE r == [m EXCEPT !.kind = "resp"]
<1>1. Response(m, b) = [r EXCEPT !.n = b]
  BY Zenon DEF Response
<1>2. r \in Messages /\ r.kind = "resp" /\ r.by = m.by /\ r.id = m.id
  BY DEF Messages, Kinds
<1> HIDE DEF r
<1> QED BY <1>1, <1>2 DEF Messages

LEMMA MessageFields == \A m \in Messages : m.by \in Clients /\ m.id \in Nat /\ m.n \in Int /\ m.kind \in Kinds
BY DEF Messages

\* The types of one element of a variable.
LEMMA PipesAre ==
    ASSUME CommandType, NEW k \in Conns
    PROVE  pipe[k]["daemon"] \in Seq(Messages) /\ pipe[k]["client"] \in Seq(Messages)
<1>1. pipe \in [Conns -> [Ends -> Seq(Messages)]]
  BY Zenon DEF CommandType, ConnectionType
<1> QED BY <1>1, TwoEnds

LEMMA PipeAppend ==
    ASSUME NEW s \in Seq(Messages), NEW x \in Messages
    PROVE  Append(s, x) \in Seq(Messages) /\ \A y : In(Append(s, x), y) <=> In(s, y) \/ y = x
BY InAppend

LEMMA ClientIs ==
    ASSUME CommandType, NEW c \in Clients
    PROVE  /\ sock[c] = NoConn \/ sock[c] \in Conns
           /\ key[c] = NoConn \/ key[c] \in Conns
           /\ calls[c] \in Nat /\ left[c] \in Int /\ op[c] \in Kinds
BY DEF CommandType, ClientType

LEMMA SockIs ==
    ASSUME CommandType, OwnConnections, NEW c \in Clients, cpc[c] \in Using
    PROVE  sock[c] \in Conns /\ Owner(sock[c]) = c
BY Zenon, ClientIs DEF OwnConnections


-----------------------------------------------------------------------------
(* What a step leaves alone.                                               *)

SameCall(c) ==
    /\ cpc'[c] = cpc[c] /\ sock'[c] = sock[c] /\ key'[c] = key[c] /\ calls'[c] = calls[c]
    /\ result'[c] = result[c]
SameClient(c) == SameCall(c) /\ owed'[c] = owed[c]

SameMessages(k) ==
    /\ pipe'[k] = pipe[k] /\ hpc'[k] = hpc[k] /\ hmsg'[k] = hmsg[k]
    /\ AtHand(k)' <=> AtHand(k)
    /\ AtHand(k) => sreq' = sreq

\* The places of the messages are the same if what the threads have at hand is.
LEMMA SamePlaces ==
    ASSUME NEW k, SameMessages(k)
    PROVE  /\ \A m : On(k, m)' <=> On(k, m)
           /\ Quiet(k)' <=> Quiet(k)
           /\ Held(k)' <=> Held(k)
BY Zenon DEF SameMessages, On, Quiet, Held

LEMMA SameConnection ==
    ASSUME NEW k \in Conns, ConnectionRight(k), SameMessages(k), SameClient(Owner(k)),
           fd'[k]["client"] = fd[k]["client"]
    PROVE  ConnectionRight(k)'
<1>1. /\ \A m : On(k, m)' <=> On(k, m)
      /\ Quiet(k)' <=> Quiet(k)
      /\ Held(k)' <=> Held(k)
  BY Zenon, SamePlaces
<1>2. (Awaited(k)' <=> Awaited(k)) /\ (Usable(k)' <=> Usable(k))
  BY Zenon DEF SameClient, SameCall, Awaited, Usable
<1>3. \A m : InTime(k, m)' <=> InTime(k, m)
  BY Zenon, <1>2 DEF SameClient, SameCall, InTime
<1>4. MessagesOwned(k)'
  BY Zenon, <1>1, <1>3 DEF ConnectionRight, MessagesOwned, SameClient, SameCall, SameMessages
<1>5. UsableQuiet(k)'
  BY Zenon, <1>1, <1>2 DEF ConnectionRight, UsableQuiet
<1>6. OneExchange(k)'
  <2>1. \A m : At(k, m)' <=> At(k, m)
    BY ZenonT(30), <1>1 DEF At, Unread, InServer, InHandler, Answered, SameClient, SameCall, SameMessages
  <2> QED BY Zenon, <1>1, <1>2, <2>1 DEF ConnectionRight, OneExchange, SameClient, SameCall
<1> QED BY Zenon, <1>4, <1>5, <1>6 DEF ConnectionRight

\* A connection on which no answer is awaited, while its client goes on.
LEMMA OtherConnection ==
    ASSUME NEW k \in Conns, ConnectionRight(k), SameMessages(k), CommandType, CommandType',
           calls[Owner(k)] <= calls'[Owner(k)],
           ~Awaited(k)', Usable(k)' => Usable(k),
           \A m \in Messages : On(k, m) => InTime(k, m)'
    PROVE  ConnectionRight(k)'
<1>1. /\ \A m : On(k, m)' <=> On(k, m)
      /\ Quiet(k)' <=> Quiet(k)
      /\ Held(k)' <=> Held(k)
  BY Zenon, SamePlaces
<1>2. MessagesOwned(k)'
  <2>1. \A m \in Messages : On(k, m)' =>
           m.by = Owner(k) /\ m.id <= calls'[Owner(k)] /\ InTime(k, m)'
    <3>1. Owner(k) \in Clients /\ calls[Owner(k)] \in Nat /\ calls'[Owner(k)] \in Nat
      BY Zenon, ConnsAre DEF CommandType, ClientType
    <3> SUFFICES ASSUME NEW m \in Messages, On(k, m)
                 PROVE  m.by = Owner(k) /\ m.id <= calls'[Owner(k)] /\ InTime(k, m)'
      BY Zenon, <1>1
    <3>2. m.by = Owner(k) /\ m.id <= calls[Owner(k)] /\ m.id \in Nat
      BY Zenon, MessageFields DEF ConnectionRight, MessagesOwned
    <3>3. m.id <= calls'[Owner(k)]
      BY <3>1, <3>2
    <3> QED BY Zenon, <3>2, <3>3
  <2> QED BY Zenon, <1>1, <2>1 DEF ConnectionRight, MessagesOwned, SameMessages
<1> QED BY Zenon, <1>1, <1>2 DEF ConnectionRight, UsableQuiet, OneExchange

\* The daemon moves the message of a connection on, or answers it: the messages after the
\* step are, in whose they are, those before.
LEMMA MovedOwned ==
    ASSUME NEW k \in Conns, ConnectionRight(k), SameCall(Owner(k)),
           Held(k)' => hmsg'[k] \in Messages,
           hpc'[k] = "respond" => hmsg'[k].kind = "resp",
           AtHand(k)' => sreq' \in Messages,
           \A m \in Messages : On(k, m)' =>
               \E q \in Messages : On(k, q) /\ q.by = m.by /\ q.id = m.id,
           \A m \in Messages : In(pipe'[k]["client"], m) =>
               In(pipe[k]["client"], m) \/ m.kind = "resp"
    PROVE  MessagesOwned(k)'
<1>1. Awaited(k)' <=> Awaited(k)
  BY Zenon DEF SameCall, Awaited
<1>2. ASSUME NEW m \in Messages, On(k, m)'
      PROVE  m.by = Owner(k) /\ m.id <= calls'[Owner(k)] /\ InTime(k, m)'
  <2>1. PICK q \in Messages : On(k, q) /\ q.by = m.by /\ q.id = m.id
    BY Zenon, <1>2
  <2>2. q.by = Owner(k) /\ q.id <= calls[Owner(k)] /\ InTime(k, q)
    BY Zenon, <2>1 DEF ConnectionRight, MessagesOwned
  <2> QED BY Zenon, <1>1, <2>1, <2>2 DEF InTime, SameCall
<1> QED BY Zenon, <1>2 DEF ConnectionRight, MessagesOwned

-----------------------------------------------------------------------------
(* The steps of the daemon on a message of connection k.                   *)

\* A connection that carries something is not usable, and stays so.
LEMMA BusyUnusable ==
    ASSUME NEW k \in Conns, ConnectionRight(k), ~Quiet(k), SameCall(Owner(k)),
           fd'[k]["client"] = fd[k]["client"]
    PROVE  UsableQuiet(k)' /\ (Awaited(k)' <=> Awaited(k))
<1>1. ~Usable(k)
  BY Zenon DEF ConnectionRight, UsableQuiet
<1> QED BY Zenon, <1>1 DEF Usable, UsableQuiet, Awaited, SameCall

LEMMA ServerTakes ==
    ASSUME NEW k \in Conns, CommandType, ConnectionRight(k), SameClient(Owner(k)),
           fd'[k]["client"] = fd[k]["client"],
           pipe[k]["daemon"] # <<>>, pipe'[k]["daemon"] = Tail(pipe[k]["daemon"]),
           pipe'[k]["client"] = pipe[k]["client"],
           ~AtHand(k), AtHand(k)', sreq' = Head(pipe[k]["daemon"]),
           hpc'[k] = hpc[k], hmsg'[k] = hmsg[k]
    PROVE  ConnectionRight(k)'
<1>0. pipe[k]["daemon"] \in Seq(Messages)
  BY PipesAre
<1>1. /\ Head(pipe[k]["daemon"]) \in Messages
      /\ \A y : In(pipe[k]["daemon"], y) <=>
                    y = Head(pipe[k]["daemon"]) \/ In(Tail(pipe[k]["daemon"]), y)
  BY Zenon, <1>0, InTail
<1>2. MessagesOwned(k)'
  <2>1. \A m \in Messages : On(k, m)' => On(k, m)
    BY Zenon, <1>1 DEF On, Held
  <2>2. (Held(k)' => hmsg'[k] \in Messages) /\ (hpc'[k] = "respond" => hmsg'[k].kind = "resp")
    BY Zenon DEF ConnectionRight, MessagesOwned, Held
  <2> QED BY Zenon, <1>1, <2>1, <2>2, MovedOwned DEF SameClient
<1>3. UsableQuiet(k)' /\ (Awaited(k)' <=> Awaited(k))
  BY Zenon, BusyUnusable DEF Quiet, SameClient
<1>4. OneExchange(k)'
  <2> SUFFICES ASSUME Awaited(k)
               PROVE  /\ fd'[k]["client"] = "open"
                      /\ \E m \in Messages : m.id = calls'[Owner(k)] /\ At(k, m)'
    BY Zenon, <1>3 DEF OneExchange
  <2>1. PICK m \in Messages : m.id = calls[Owner(k)] /\ At(k, m)
    BY Zenon DEF ConnectionRight, OneExchange, Quiet
  <2>2. Unread(k, m)
    BY Zenon, <2>1 DEF At, InServer, InHandler, Answered
  <2>3. Head(pipe[k]["daemon"]) = m /\ Tail(pipe[k]["daemon"]) = <<>>
    BY Zenon, <2>2, InOne DEF Unread
  <2>4. InServer(k, m)'
    BY Zenon, <2>2, <2>3 DEF Unread, InServer, Held, SameClient
  <2> QED BY Zenon, <2>1, <2>4 DEF At, ConnectionRight, OneExchange, SameClient, SameCall
<1> QED BY Zenon, <1>2, <1>3, <1>4 DEF ConnectionRight

LEMMA HandlerTakes ==
    ASSUME NEW k \in Conns, CommandType, ConnectionRight(k), SameClient(Owner(k)),
           fd'[k]["client"] = fd[k]["client"],
           pipe[k]["daemon"] # <<>>, pipe'[k]["daemon"] = Tail(pipe[k]["daemon"]),
           pipe'[k]["client"] = pipe[k]["client"],
           hpc[k] = "recv", hpc'[k] = "lock", hmsg'[k] = Head(pipe[k]["daemon"]),
           AtHand(k)' <=> AtHand(k), sreq' = sreq
    PROVE  ConnectionRight(k)'
<1>0. pipe[k]["daemon"] \in Seq(Messages)
  BY PipesAre
<1>1. /\ Head(pipe[k]["daemon"]) \in Messages
      /\ \A y : In(pipe[k]["daemon"], y) <=>
                    y = Head(pipe[k]["daemon"]) \/ In(Tail(pipe[k]["daemon"]), y)
  BY Zenon, <1>0, InTail
<1>h. ~Held(k) /\ Held(k)'
  BY Zenon DEF Held, Working
<1>2. MessagesOwned(k)'
  <2>1. \A m \in Messages : On(k, m)' => On(k, m)
    BY Zenon, <1>1 DEF On
  <2>2. hpc'[k] # "respond"
    OBVIOUS
  <2>3. AtHand(k)' => sreq' \in Messages
    BY Zenon DEF ConnectionRight, MessagesOwned
  <2> QED BY Zenon, <1>1, <2>1, <2>2, <2>3, MovedOwned DEF SameClient
<1>3. UsableQuiet(k)' /\ (Awaited(k)' <=> Awaited(k))
  BY Zenon, BusyUnusable DEF Quiet, SameClient
<1>4. OneExchange(k)'
  <2> SUFFICES ASSUME Awaited(k)
               PROVE  /\ fd'[k]["client"] = "open"
                      /\ \E m \in Messages : m.id = calls'[Owner(k)] /\ At(k, m)'
    BY Zenon, <1>3 DEF OneExchange
  <2>1. PICK m \in Messages : m.id = calls[Owner(k)] /\ At(k, m)
    BY Zenon DEF ConnectionRight, OneExchange, Quiet
  <2>2. Unread(k, m)
    BY Zenon, <2>1 DEF At, InServer, InHandler, Answered
  <2>3. Head(pipe[k]["daemon"]) = m /\ Tail(pipe[k]["daemon"]) = <<>>
    BY Zenon, <2>2, InOne DEF Unread
  <2>4. cpc[Owner(k)] = "resp"
    BY Zenon, <2>2 DEF Unread, Awaited
  <2>5. InHandler(k, m)'
    BY Zenon, <1>h, <2>2, <2>3, <2>4 DEF Unread, InHandler, SameClient, SameCall
  <2> QED BY Zenon, <2>1, <2>5 DEF At, ConnectionRight, OneExchange, SameClient, SameCall
<1> QED BY Zenon, <1>2, <1>3, <1>4 DEF ConnectionRight

\* The server thread answers the first message of a connection, or drops it.
LEMMA ServerAnswers ==
    ASSUME NEW k \in Conns, CommandType, ConnectionRight(k), SameClient(Owner(k)),
           fd'[k]["client"] = fd[k]["client"], NEW b \in {0, -1},
           pipe'[k]["daemon"] = pipe[k]["daemon"],
           \/ pipe'[k]["client"] = Append(pipe[k]["client"], Response(sreq, b))
           \/ pipe'[k]["client"] = pipe[k]["client"],
           AtHand(k), ~AtHand(k)', ~Held(k), ~Held(k)'
    PROVE  ConnectionRight(k)'
<1>0. pipe[k]["client"] \in Seq(Messages) /\ sreq \in Messages /\ b \in Int /\ ~(b > 0)
  <2>1. pipe[k]["client"] \in Seq(Messages)
    BY PipesAre
  <2>2. sreq \in Messages
    BY Zenon DEF ConnectionRight, MessagesOwned
  <2>3. b \in Int /\ ~(b > 0)
    OBVIOUS
  <2> QED BY Zenon, <2>1, <2>2, <2>3
<1>1. PICK r \in Messages :
         r = Response(sreq, b) /\ r.kind = "resp" /\ r.by = sreq.by /\ r.id = sreq.id /\ r.n = b
  BY Zenon, <1>0, ResponseIs
<1>2. \A y : In(pipe'[k]["client"], y) => In(pipe[k]["client"], y) \/ y = r
  <2>1. \A y : In(Append(pipe[k]["client"], r), y) <=> In(pipe[k]["client"], y) \/ y = r
    BY Zenon, <1>0, PipeAppend
  <2> QED BY Zenon, <1>1, <2>1
<1>3. MessagesOwned(k)'
  <2>1. \A m \in Messages : On(k, m)' =>
           \E q \in Messages : On(k, q) /\ q.by = m.by /\ q.id = m.id
    <3> SUFFICES ASSUME NEW m \in Messages, On(k, m)'
                 PROVE  \E q \in Messages : On(k, q) /\ q.by = m.by /\ q.id = m.id
      OBVIOUS
    <3>1. On(k, m) \/ m = r
      BY Zenon, <1>2 DEF On
    <3>2. On(k, sreq)
      BY Zenon DEF On
    <3> QED BY Zenon, <1>0, <1>1, <3>1, <3>2
  <2>2. hpc'[k] # "respond"
    BY Zenon DEF Held, Working
  <2>3. \A m \in Messages : In(pipe'[k]["client"], m) => In(pipe[k]["client"], m) \/ m.kind = "resp"
    BY Zenon, <1>1, <1>2
  <2> QED BY Zenon, <2>1, <2>2, <2>3, MovedOwned DEF SameClient
<1>4. UsableQuiet(k)' /\ (Awaited(k)' <=> Awaited(k))
  BY Zenon, BusyUnusable DEF Quiet, SameClient
<1>5. OneExchange(k)'
  <2> SUFFICES ASSUME Awaited(k)
               PROVE  /\ fd'[k]["client"] = "open"
                      /\ Quiet(k)' \/ \E m \in Messages : m.id = calls'[Owner(k)] /\ At(k, m)'
    BY Zenon, <1>4 DEF OneExchange
  <2>1. PICK m \in Messages : m.id = calls[Owner(k)] /\ At(k, m)
    BY Zenon DEF ConnectionRight, OneExchange, Quiet
  <2>2. InServer(k, m)
    BY Zenon, <2>1 DEF At, Unread, InHandler, Answered
  <2>3. CASE pipe'[k]["client"] = pipe[k]["client"]
    <3>1. Quiet(k)'
      BY Zenon, <2>2, <2>3 DEF Quiet, InServer
    <3> QED BY Zenon, <3>1 DEF ConnectionRight, OneExchange
  <2>4. CASE pipe'[k]["client"] = Append(pipe[k]["client"], r)
    <3>1. pipe'[k]["client"] = <<r>>
      BY Zenon, <1>1, <2>2, <2>4, InOne DEF InServer
    <3>2. Bytes(r) = 0
      BY Zenon, <1>0, <1>1 DEF Bytes
    <3>3. Answered(k, r)'
      BY Zenon, <2>2, <3>1, <3>2 DEF Answered, InServer, SameClient
    <3>4. r.id = calls'[Owner(k)]
      BY Zenon, <1>1, <2>1, <2>2 DEF InServer, SameClient, SameCall
    <3> QED BY Zenon, <1>1, <3>3, <3>4 DEF At, ConnectionRight, OneExchange
  <2> QED BY Zenon, <1>1, <2>3, <2>4
<1> QED BY Zenon, <1>3, <1>4, <1>5 DEF ConnectionRight

\* The handler thread answers its command; or the connection is gone, and it exits.
LEMMA HandlerAnswers ==
    ASSUME NEW k \in Conns, CommandType, ConnectionRight(k), SameClient(Owner(k)),
           fd'[k]["client"] = fd[k]["client"],
           pipe'[k]["daemon"] = pipe[k]["daemon"],
           \/ pipe'[k]["client"] = Append(pipe[k]["client"], hmsg[k])
           \/ pipe'[k]["client"] = pipe[k]["client"],
           hpc[k] = "respond", ~Held(k)', AtHand(k)' <=> AtHand(k), sreq' = sreq
    PROVE  ConnectionRight(k)'
<1>0. Held(k) /\ pipe[k]["client"] \in Seq(Messages)
  <2>1. Held(k)
    BY Zenon DEF Held, Working
  <2> QED BY <2>1, PipesAre
<1>1. PICK r \in Messages : r = hmsg[k] /\ r.kind = "resp"
  BY Zenon, <1>0 DEF ConnectionRight, MessagesOwned
<1>2. \A y : In(pipe'[k]["client"], y) => In(pipe[k]["client"], y) \/ y = r
  <2>1. \A y : In(Append(pipe[k]["client"], r), y) <=> In(pipe[k]["client"], y) \/ y = r
    BY Zenon, <1>0, PipeAppend
  <2> QED BY Zenon, <1>1, <2>1
<1>3. MessagesOwned(k)'
  <2>1. \A m \in Messages : On(k, m)' => On(k, m)
    BY Zenon, <1>0, <1>1, <1>2 DEF On
  <2>2. hpc'[k] # "respond"
    BY Zenon DEF Held, Working
  <2>3. \A m \in Messages : In(pipe'[k]["client"], m) => In(pipe[k]["client"], m) \/ m.kind = "resp"
    BY Zenon, <1>1, <1>2
  <2>4. AtHand(k)' => sreq' \in Messages
    BY Zenon DEF ConnectionRight, MessagesOwned
  <2> QED BY Zenon, <2>1, <2>2, <2>3, <2>4, MovedOwned DEF SameClient
<1>4. UsableQuiet(k)' /\ (Awaited(k)' <=> Awaited(k))
  BY Zenon, <1>0, BusyUnusable DEF Quiet, SameClient
<1>5. OneExchange(k)'
  <2> SUFFICES ASSUME Awaited(k)
               PROVE  /\ fd'[k]["client"] = "open"
                      /\ Quiet(k)' \/ \E m \in Messages : m.id = calls'[Owner(k)] /\ At(k, m)'
    BY Zenon, <1>4 DEF OneExchange
  <2>1. PICK m \in Messages : m.id = calls[Owner(k)] /\ At(k, m)
    BY Zenon, <1>0 DEF ConnectionRight, OneExchange, Quiet
  <2>2. InHandler(k, m)
    BY Zenon, <1>0, <2>1 DEF At, Unread, InServer, Answered
  <2>3. m = r
    BY Zenon, <1>1, <2>2 DEF InHandler
  <2>4. CASE pipe'[k]["client"] = pipe[k]["client"]
    <3>1. Quiet(k)'
      BY Zenon, <2>2, <2>4 DEF Quiet, InHandler
    <3> QED BY Zenon, <3>1 DEF ConnectionRight, OneExchange
  <2>5. CASE pipe'[k]["client"] = Append(pipe[k]["client"], r)
    <3>1. pipe'[k]["client"] = <<m>>
      BY Zenon, <2>2, <2>3, <2>5, InOne DEF InHandler
    <3>2. Answered(k, m)'
      BY Zenon, <2>2, <3>1 DEF Answered, InHandler, SameClient
    <3> QED BY Zenon, <2>1, <3>2 DEF At, ConnectionRight, OneExchange, SameClient, SameCall
  <2> QED BY Zenon, <1>1, <2>4, <2>5
<1> QED BY Zenon, <1>3, <1>4, <1>5 DEF ConnectionRight

\* The handler thread goes on with the command at hand, which it executes once.
LEMMA HandlerLocks ==
    ASSUME NEW k \in Conns, CommandType, ConnectionRight(k), SameClient(Owner(k)),
           fd'[k]["client"] = fd[k]["client"], pipe'[k] = pipe[k], hmsg'[k] = hmsg[k],
           hpc[k] = "lock", hpc'[k] = "run", AtHand(k)' <=> AtHand(k), sreq' = sreq
    PROVE  ConnectionRight(k)'
<1>0. Held(k) /\ Held(k)' /\ hpc'[k] # "respond" /\ hpc[k] # "respond"
  BY Zenon DEF Held, Working
<1>1. MessagesOwned(k)'
  <2>1. \A m \in Messages : On(k, m)' => On(k, m)
    BY Zenon, <1>0 DEF On
  <2>2. hmsg'[k] \in Messages /\ (AtHand(k)' => sreq' \in Messages)
    BY Zenon, <1>0 DEF ConnectionRight, MessagesOwned
  <2> QED BY Zenon, <1>0, <2>1, <2>2, MovedOwned DEF SameClient
<1>2. UsableQuiet(k)' /\ (Awaited(k)' <=> Awaited(k))
  BY Zenon, <1>0, BusyUnusable DEF Quiet, SameClient
<1>3. OneExchange(k)'
  <2> SUFFICES ASSUME Awaited(k)
               PROVE  /\ fd'[k]["client"] = "open"
                      /\ \E m \in Messages : m.id = calls'[Owner(k)] /\ At(k, m)'
    BY Zenon, <1>2 DEF OneExchange
  <2>1. PICK m \in Messages : m.id = calls[Owner(k)] /\ At(k, m)
    BY Zenon, <1>0 DEF ConnectionRight, OneExchange, Quiet
  <2>2. InHandler(k, m)
    BY Zenon, <1>0, <2>1 DEF At, Unread, InServer, Answered
  <2>3. InHandler(k, m)'
    BY Zenon, <1>0, <2>2 DEF InHandler, SameClient, SameCall
  <2> QED BY Zenon, <2>1, <2>3 DEF At, ConnectionRight, OneExchange, SameClient, SameCall
<1> QED BY Zenon, <1>1, <1>2, <1>3 DEF ConnectionRight

LEMMA HandlerRuns ==
    ASSUME NEW k \in Conns, CommandType, ConnectionRight(k), SameCall(Owner(k)),
           fd'[k]["client"] = fd[k]["client"], pipe'[k] = pipe[k],
           hpc[k] = "run", hpc'[k] = "respond", NEW b \in Int, hmsg'[k] = Response(hmsg[k], b),
           AtHand(k)' <=> AtHand(k), sreq' = sreq,
           Awaited(k) /\ hmsg[k].id = calls[Owner(k)] /\ owed[Owner(k)] = 0 =>
               owed'[Owner(k)] = IF b > 0 THEN b ELSE 0
    PROVE  ConnectionRight(k)'
<1>0. Held(k) /\ Held(k)' /\ hmsg[k] \in Messages
  <2>1. Held(k) /\ Held(k)'
    BY Zenon DEF Held, Working
  <2> QED BY Zenon, <2>1 DEF ConnectionRight, MessagesOwned
<1>1. PICK r \in Messages :
         r = Response(hmsg[k], b) /\ r.kind = "resp" /\ r.by = hmsg[k].by /\ r.id = hmsg[k].id /\ r.n = b
  BY Zenon, <1>0, ResponseIs
<1>2. MessagesOwned(k)'
  <2>1. \A m \in Messages : On(k, m)' =>
           \E q \in Messages : On(k, q) /\ q.by = m.by /\ q.id = m.id
    <3> SUFFICES ASSUME NEW m \in Messages, On(k, m)'
                 PROVE  \E q \in Messages : On(k, q) /\ q.by = m.by /\ q.id = m.id
      OBVIOUS
    <3>1. On(k, m) \/ m = r
      BY Zenon, <1>1 DEF On
    <3>2. On(k, hmsg[k])
      BY Zenon, <1>0 DEF On
    <3> QED BY Zenon, <1>0, <1>1, <3>1, <3>2
  <2>2. hmsg'[k] \in Messages /\ hmsg'[k].kind = "resp" /\ (AtHand(k)' => sreq' \in Messages)
    BY Zenon, <1>1 DEF ConnectionRight, MessagesOwned
  <2> QED BY Zenon, <2>1, <2>2, MovedOwned
<1>3. UsableQuiet(k)' /\ (Awaited(k)' <=> Awaited(k))
  BY Zenon, <1>0, BusyUnusable DEF Quiet
<1>4. OneExchange(k)'
  <2> SUFFICES ASSUME Awaited(k)
               PROVE  /\ fd'[k]["client"] = "open"
                      /\ \E m \in Messages : m.id = calls'[Owner(k)] /\ At(k, m)'
    BY Zenon, <1>3 DEF OneExchange
  <2>1. PICK m \in Messages : m.id = calls[Owner(k)] /\ At(k, m)
    BY Zenon, <1>0 DEF ConnectionRight, OneExchange, Quiet
  <2>2. InHandler(k, m)
    BY Zenon, <1>0, <2>1 DEF At, Unread, InServer, Answered
  <2>3. owed[Owner(k)] = 0 /\ m = hmsg[k]
    BY Zenon, <2>2 DEF InHandler
  <2>4. owed'[Owner(k)] = Bytes(r)
    BY Zenon, <1>1, <2>1, <2>3 DEF Bytes
  <2>5. InHandler(k, r)'
    BY Zenon, <1>0, <1>1, <2>2, <2>4 DEF InHandler, SameCall
  <2>6. r.id = calls'[Owner(k)]
    BY Zenon, <1>1, <2>1, <2>3 DEF SameCall
  <2> QED BY Zenon, <2>5, <2>6 DEF At, ConnectionRight, OneExchange
<1> QED BY Zenon, <1>2, <1>3, <1>4 DEF ConnectionRight

\* A handler thread that has no command at hand exits.
LEMMA HandlerLeaves ==
    ASSUME NEW k \in Conns, CommandType, ConnectionRight(k), SameClient(Owner(k)),
           fd'[k]["client"] = fd[k]["client"], pipe'[k] = pipe[k], hmsg'[k] = hmsg[k],
           hpc[k] = "recv", hpc'[k] = "exited", AtHand(k)' <=> AtHand(k), sreq' = sreq
    PROVE  ConnectionRight(k)'
<1>0. ~Held(k) /\ ~Held(k)' /\ hpc'[k] # "respond" /\ hpc[k] # "none"
  BY Zenon DEF Held, Working
<1>1. (\A m : On(k, m)' <=> On(k, m)) /\ (Quiet(k)' <=> Quiet(k))
  BY Zenon, <1>0 DEF On, Quiet
<1>2. (Awaited(k)' <=> Awaited(k)) /\ (Usable(k)' <=> Usable(k))
  BY Zenon DEF SameClient, SameCall, Awaited, Usable
<1>3. MessagesOwned(k)'
  <2>1. AtHand(k)' => sreq' \in Messages
    BY Zenon DEF ConnectionRight, MessagesOwned
  <2> QED BY Zenon, <1>0, <1>1, <2>1, MovedOwned DEF SameClient
<1>4. OneExchange(k)'
  <2>1. \A m : At(k, m) => At(k, m)'
    BY Zenon, <1>0 DEF At, Unread, InServer, InHandler, Answered, Awaited, SameClient, SameCall
  <2> QED BY Zenon, <1>1, <1>2, <2>1 DEF ConnectionRight, OneExchange, SameClient, SameCall
<1> QED BY Zenon, <1>1, <1>2, <1>3, <1>4 DEF ConnectionRight, UsableQuiet

-----------------------------------------------------------------------------
(* What the operations on a connection do to fd and pipe.                  *)

LEMMA TypesOf ==
    ASSUME CommandType
    PROVE  /\ fd \in [Conns -> [Ends -> FdStates]] /\ pipe \in [Conns -> [Ends -> Seq(Messages)]]
           /\ hpc \in [Conns -> {"none", "recv", "exited"} \cup Working]
           /\ hmsg \in [Conns -> Messages \cup {NULL}] /\ owed \in [Clients -> Int]
BY Zenon DEF CommandType, ConnectionType, HandlerType

LEMMA SendIs ==
    ASSUME CommandType, NEW k \in Conns, NEW s \in Ends, NEW m \in Messages, SendMsg(k, s, m)
    PROVE  /\ fd' \in [Conns -> [Ends -> FdStates]] /\ pipe' \in [Conns -> [Ends -> Seq(Messages)]]
           /\ \A j \in Conns : j # k => fd'[j] = fd[j] /\ pipe'[j] = pipe[j]
           /\ fd'[k][Other(s)] = fd[k][Other(s)] /\ pipe'[k][s] = pipe[k][s]
           /\ \/ /\ CanSend(k, s) /\ fd' = fd
                 /\ pipe'[k][Other(s)] = Append(pipe[k][Other(s)], m)
              \/ ~CanSend(k, s) /\ pipe' = pipe /\ fd'[k][s] = "closed"
<1>1. Other(s) \in Ends /\ Other(s) # s
  BY DEF Other, Ends
<1>2. CASE CanSend(k, s)
  <2>1. pipe' = [pipe EXCEPT ![k][Other(s)] = Append(pipe[k][Other(s)], m)] /\ fd' = fd
    BY Zenon, <1>2 DEF SendMsg
  <2>2. Append(pipe[k][Other(s)], m) \in Seq(Messages)
    BY <1>1, TypesOf
  <2>3. /\ pipe' \in [Conns -> [Ends -> Seq(Messages)]]
        /\ \A j \in Conns : j # k => pipe'[j] = pipe[j]
        /\ pipe'[k][s] = pipe[k][s]
        /\ pipe'[k][Other(s)] = Append(pipe[k][Other(s)], m)
    BY <1>1, <2>1, <2>2, TypesOf, SetEnd
  <2> QED BY Zenon, <1>2, <2>1, <2>3, TypesOf
<1>3. CASE ~CanSend(k, s)
  <2>1. fd' = [fd EXCEPT ![k][s] = "closed"] /\ pipe' = pipe
    BY Zenon, <1>3 DEF SendMsg
  <2>2. /\ fd' \in [Conns -> [Ends -> FdStates]]
        /\ \A j \in Conns : j # k => fd'[j] = fd[j]
        /\ fd'[k][Other(s)] = fd[k][Other(s)]
        /\ fd'[k][s] = "closed"
    <3>1. "closed" \in FdStates
      BY DEF FdStates
    <3> QED BY <1>1, <2>1, <3>1, TypesOf, SetEnd
  <2> QED BY Zenon, <1>3, <2>1, <2>2, TypesOf
<1> QED BY Zenon, <1>2, <1>3

LEMMA RecvIs ==
    ASSUME CommandType, NEW k \in Conns, NEW s \in Ends, RecvMsg(k, s)
    PROVE  /\ pipe' \in [Conns -> [Ends -> Seq(Messages)]]
           /\ \A j \in Conns : j # k => pipe'[j] = pipe[j]
           /\ pipe'[k][Other(s)] = pipe[k][Other(s)]
           /\ pipe[k][s] # <<>> /\ pipe'[k][s] = Tail(pipe[k][s])
           /\ Head(pipe[k][s]) \in Messages
<1>1. Other(s) \in Ends /\ Other(s) # s
  BY DEF Other, Ends
<1>2. pipe[k][s] # <<>> /\ pipe' = [pipe EXCEPT ![k][s] = Tail(pipe[k][s])]
  BY Zenon DEF RecvMsg, Complete
<1>3. Tail(pipe[k][s]) \in Seq(Messages) /\ Head(pipe[k][s]) \in Messages
  BY <1>2, TypesOf
<1> QED BY <1>1, <1>2, <1>3, TypesOf, SetEnd

LEMMA RecvFailsIs ==
    ASSUME CommandType, NEW k \in Conns, NEW s \in Ends, RecvFails(k, s)
    PROVE  /\ fd' \in [Conns -> [Ends -> FdStates]]
           /\ \A j \in Conns : j # k => fd'[j] = fd[j]
           /\ fd'[k][Other(s)] = fd[k][Other(s)]
           /\ fd'[k][s] = "closed" \/ (fd' = fd /\ pipe[k][s] # <<>>)
<1>1. Other(s) \in Ends /\ Other(s) # s
  BY DEF Other, Ends
<1>2. CASE fd' = [fd EXCEPT ![k][s] = "closed"]
  <2>1. "closed" \in FdStates
    BY DEF FdStates
  <2> QED BY <1>1, <1>2, <2>1, TypesOf, SetEnd
<1>3. CASE pipe[k][s] # <<>> /\ fd' = fd
  BY Zenon, <1>3, TypesOf
<1> QED BY Zenon, <1>2, <1>3 DEF RecvFails

\* The same at the daemon's end.
LEMMA DaemonSends ==
    ASSUME CommandType, NEW k \in Conns, NEW m \in Messages, SendMsg(k, "daemon", m)
    PROVE  /\ fd' \in [Conns -> [Ends -> FdStates]] /\ pipe' \in [Conns -> [Ends -> Seq(Messages)]]
           /\ \A j \in Conns : j # k => fd'[j] = fd[j] /\ pipe'[j] = pipe[j]
           /\ fd'[k]["client"] = fd[k]["client"] /\ pipe'[k]["daemon"] = pipe[k]["daemon"]
           /\ fd'[k]["daemon"] = fd[k]["daemon"] \/ fd'[k]["daemon"] = "closed"
           /\ \/ pipe'[k]["client"] = Append(pipe[k]["client"], m)
              \/ pipe'[k]["client"] = pipe[k]["client"]
BY TwoEnds, SendIs

LEMMA DaemonReceives ==
    ASSUME CommandType, NEW k \in Conns, RecvMsg(k, "daemon")
    PROVE  /\ pipe' \in [Conns -> [Ends -> Seq(Messages)]]
           /\ \A j \in Conns : j # k => pipe'[j] = pipe[j]
           /\ pipe'[k]["client"] = pipe[k]["client"] /\ pipe[k]["daemon"] # <<>>
           /\ pipe'[k]["daemon"] = Tail(pipe[k]["daemon"]) /\ Head(pipe[k]["daemon"]) \in Messages
BY TwoEnds, RecvIs

LEMMA DaemonReceiveFails ==
    ASSUME CommandType, NEW k \in Conns, RecvFails(k, "daemon")
    PROVE  /\ fd' \in [Conns -> [Ends -> FdStates]]
           /\ \A j \in Conns : j # k => fd'[j] = fd[j]
           /\ fd'[k]["client"] = fd[k]["client"]
           /\ fd'[k]["daemon"] = fd[k]["daemon"] \/ fd'[k]["daemon"] = "closed"
BY TwoEnds, RecvFailsIs

\* The same at the client's end.
LEMMA ClientSends ==
    ASSUME CommandType, NEW k \in Conns, NEW m \in Messages, SendMsg(k, "client", m)
    PROVE  /\ fd' \in [Conns -> [Ends -> FdStates]] /\ pipe' \in [Conns -> [Ends -> Seq(Messages)]]
           /\ \A j \in Conns : j # k => fd'[j] = fd[j] /\ pipe'[j] = pipe[j]
           /\ fd'[k]["daemon"] = fd[k]["daemon"] /\ pipe'[k]["client"] = pipe[k]["client"]
           /\ \/ /\ CanSend(k, "client") /\ fd' = fd
                 /\ pipe'[k]["daemon"] = Append(pipe[k]["daemon"], m)
              \/ ~CanSend(k, "client") /\ pipe' = pipe /\ fd'[k]["client"] = "closed"
BY TwoEnds, SendIs

LEMMA ClientReceives ==
    ASSUME CommandType, NEW k \in Conns, RecvMsg(k, "client")
    PROVE  /\ pipe' \in [Conns -> [Ends -> Seq(Messages)]]
           /\ \A j \in Conns : j # k => pipe'[j] = pipe[j]
           /\ pipe'[k]["daemon"] = pipe[k]["daemon"] /\ pipe[k]["client"] # <<>>
           /\ pipe'[k]["client"] = Tail(pipe[k]["client"]) /\ Head(pipe[k]["client"]) \in Messages
BY TwoEnds, RecvIs

LEMMA ClientReceiveFails ==
    ASSUME CommandType, NEW k \in Conns, RecvFails(k, "client")
    PROVE  /\ fd' \in [Conns -> [Ends -> FdStates]]
           /\ \A j \in Conns : j # k => fd'[j] = fd[j]
           /\ fd'[k]["daemon"] = fd[k]["daemon"]
           /\ fd'[k]["client"] = "closed" \/ (fd' = fd /\ pipe[k]["client"] # <<>>)
BY TwoEnds, RecvFailsIs

\* One end of several connections is closed.
LEMMA DaemonEnds ==
    ASSUME CommandType, NEW B,
           fd' = [j \in Conns |-> IF j \in B THEN [fd[j] EXCEPT !["daemon"] = "closed"] ELSE fd[j]]
    PROVE  /\ fd' \in [Conns -> [Ends -> FdStates]]
           /\ \A j \in Conns : j \notin B => fd'[j] = fd[j]
           /\ \A j \in B \cap Conns : fd'[j]["daemon"] = "closed" /\ fd'[j]["client"] = fd[j]["client"]
<1>1. fd \in [Conns -> [Ends -> FdStates]]
  BY Zenon, TypesOf
<1> QED BY <1>1 DEF Ends, FdStates

LEMMA ClientEnds ==
    ASSUME CommandType, NEW B,
           fd' = [j \in Conns |-> IF j \in B THEN [fd[j] EXCEPT !["client"] = "closed"] ELSE fd[j]]
    PROVE  /\ fd' \in [Conns -> [Ends -> FdStates]]
           /\ \A j \in Conns : j \notin B => fd'[j] = fd[j]
           /\ \A j \in B \cap Conns : fd'[j]["client"] = "closed" /\ fd'[j]["daemon"] = fd[j]["daemon"]
<1>1. fd \in [Conns -> [Ends -> FdStates]]
  BY Zenon, TypesOf
<1> QED BY <1>1 DEF Ends, FdStates

-----------------------------------------------------------------------------
(* Conjuncts that most steps leave alone.                                  *)

LEMMA NumbersKept ==
    ASSUME NumbersDiffer, num' = num,
           \A k \in Conns : fd'[k]["daemon"] \in InUse => fd[k]["daemon"] \in InUse
    PROVE  NumbersDiffer'
BY Zenon DEF NumbersDiffer

LEMMA PassKept ==
    ASSUME ConnectionsPass, cpc' = cpc, calls' = calls, backlog' = backlog,
           \A k \in Conns : fd'[k]["client"] = fd[k]["client"],
           \A k \in Conns : \/ fd'[k]["daemon"] = fd[k]["daemon"]
                            \/ /\ fd[k]["daemon"] \notin {"none", "queued"}
                               /\ fd'[k]["daemon"] \notin {"none", "queued"}
                               /\ fd'[k]["daemon"] = "handed" => hpc'[k] = "none",
           \A k \in Conns : \/ hpc'[k] = hpc[k]
                            \/ fd[k]["daemon"] \notin {"none", "queued", "handed"},
           spc' \in {"recv", "init"} =>
               scur' \in Conns /\ fd'[scur']["daemon"] = "open" /\ hpc'[scur'] = "none"
    PROVE  ConnectionsPass'
<1>1. ASSUME NEW k \in Conns
      PROVE  /\ fd'[k]["client"] = "none" <=> fd'[k]["daemon"] = "none"
             /\ Fresh(k)' => fd'[k]["client"] = "none"
             /\ fd'[k]["daemon"] \in {"none", "queued", "handed"} => hpc'[k] = "none"
             /\ In(backlog', k) => fd'[k]["daemon"] = "queued"
  BY Zenon DEF ConnectionsPass, Fresh
<1> QED BY Zenon, <1>1 DEF ConnectionsPass

LEMMA OwnKept ==
    ASSUME OwnConnections, cpc' = cpc, sock' = sock, key' = key, calls' = calls
    PROVE  OwnConnections'
BY Zenon DEF OwnConnections

\* The variables of the client threads, one by one.
LEMMA SameClients ==
    ASSUME UNCHANGED clientVars
    PROVE  /\ cpc' = cpc /\ op' = op /\ key' = key /\ sock' = sock /\ calls' = calls /\ left' = left
           /\ loop' = loop /\ result' = result
           /\ ClientType => ClientType'
           /\ OwnConnections => OwnConnections'
           /\ \A c : SameCall(c)
<1>1. /\ cpc' = cpc /\ op' = op /\ key' = key /\ sock' = sock /\ calls' = calls /\ left' = left
      /\ loop' = loop /\ result' = result
  BY DEF clientVars
<1>2. ClientType => ClientType'
  BY Zenon, <1>1 DEF ClientType
<1> QED BY Zenon, <1>1, <1>2, OwnKept DEF SameCall

\* The variables of the server thread, one by one.
LEMMA SameServer ==
    ASSUME UNCHANGED <<serverVars, stopVars>>
    PROVE  /\ srvsock' = srvsock /\ spc' = spc /\ scur' = scur /\ sreq' = sreq
           /\ handlers' = handlers /\ state' = state /\ mpc' = mpc
           /\ ServerType => ServerType'
           /\ \A k : AtHand(k)' <=> AtHand(k)
<1>1. /\ srvsock' = srvsock /\ spc' = spc /\ scur' = scur /\ sreq' = sreq
      /\ handlers' = handlers /\ state' = state /\ mpc' = mpc
  BY DEF serverVars, stopVars
<1> QED BY Zenon, <1>1 DEF ServerType, AtHand

LEMMA MadeKept ==
    ASSUME NEW c, Made(c), key'[c] = key[c], sock'[c] = sock[c],
           \A k \in Conns : fd[k]["client"] # "none" => fd'[k]["client"] # "none"
    PROVE  Made(c)'
BY Zenon DEF Made

-----------------------------------------------------------------------------
(* The handler threads.                                                    *)

\* A step of the handler thread of connection k that keeps its connection right.
LEMMA HandlerKeeps ==
    ASSUME CommandInv, NEW k \in Conns, NEW l \in {"recv", "exited"} \cup Working,
           UNCHANGED <<clientVars, num, backlog, serverVars, stopVars>>,
           hpc[k] \notin {"none", "exited"}, hpc' = [hpc EXCEPT ![k] = l],
           fd' \in [Conns -> [Ends -> FdStates]], pipe' \in [Conns -> [Ends -> Seq(Messages)]],
           hmsg' \in [Conns -> Messages \cup {NULL}], owed' \in [Clients -> Int],
           \A j \in Conns : j # k => fd'[j] = fd[j] /\ pipe'[j] = pipe[j] /\ hmsg'[j] = hmsg[j],
           fd'[k]["client"] = fd[k]["client"],
           fd'[k]["daemon"] = fd[k]["daemon"] \/ fd'[k]["daemon"] = "closed",
           \A c \in Clients : \/ owed'[c] = owed[c]
                              \/ cpc[c] = "resp" /\ sock[c] = k
                              \/ result[c] = "lost" /\ cpc[c] = "idle",
           ConnectionRight(k)'
    PROVE  CommandInv'
<1>1. /\ cpc' = cpc /\ op' = op /\ key' = key /\ sock' = sock /\ calls' = calls /\ left' = left
      /\ loop' = loop /\ result' = result
      /\ num' = num /\ backlog' = backlog /\ srvsock' = srvsock /\ spc' = spc /\ scur' = scur
      /\ sreq' = sreq /\ handlers' = handlers /\ state' = state /\ mpc' = mpc
  BY SameClients, SameServer
<1>2. /\ CommandType /\ HandlersListed /\ ConnectionsPass /\ OwnConnections /\ NumbersDiffer
      /\ (\A j \in Conns : ConnectionRight(j)) /\ NothingElseOwed
  BY Zenon DEF CommandInv
<1>3. /\ hpc' \in [Conns -> {"none", "recv", "exited"} \cup Working]
      /\ \A j \in Conns : j # k => hpc'[j] = hpc[j]
      /\ hpc'[k] = l /\ l # "none"
  <2>1. hpc \in [Conns -> {"none", "recv", "exited"} \cup Working]
    BY Zenon, <1>2, TypesOf
  <2>2. l # "none"
    BY Zenon DEF Working
  <2> QED BY <2>1, <2>2
<1>4. CommandType'
  <2>1. ClientType'
    BY Zenon, <1>2, SameClients DEF CommandType
  <2>2. ConnectionType'
    BY Zenon, <1>1, <1>2 DEF CommandType, ConnectionType
  <2>3. ServerType'
    BY Zenon, <1>2, SameServer DEF CommandType
  <2>4. HandlerType'
    BY Zenon, <1>3 DEF HandlerType
  <2> QED BY Zenon, <2>1, <2>2, <2>3, <2>4 DEF CommandType
<1>5. HandlersListed'
  BY Zenon, <1>1, <1>2, <1>3 DEF HandlersListed
<1>6. fd[k]["daemon"] \notin {"none", "queued", "handed"}
  BY Zenon, <1>2 DEF ConnectionsPass
<1>7. ConnectionsPass'
  <2>1. \A j \in Conns : fd'[j]["client"] = fd[j]["client"]
    BY Zenon
  <2>2. \A j \in Conns : \/ fd'[j]["daemon"] = fd[j]["daemon"]
                         \/ /\ fd[j]["daemon"] \notin {"none", "queued"}
                            /\ fd'[j]["daemon"] \notin {"none", "queued"}
                            /\ fd'[j]["daemon"] = "handed" => hpc'[j] = "none"
    BY Zenon, <1>6
  <2>3. \A j \in Conns : hpc'[j] = hpc[j] \/ fd[j]["daemon"] \notin {"none", "queued", "handed"}
    BY Zenon, <1>3, <1>6
  <2>4. spc' \in {"recv", "init"} =>
           scur' \in Conns /\ fd'[scur']["daemon"] = "open" /\ hpc'[scur'] = "none"
    BY Zenon, <1>1, <1>2, <1>3 DEF ConnectionsPass
  <2> QED BY Zenon, <1>1, <1>2, <2>1, <2>2, <2>3, <2>4, PassKept
<1>8. OwnConnections'
  BY Zenon, <1>1, <1>2, OwnKept
<1>9. NumbersDiffer'
  <2>1. "closed" \notin InUse
    BY Zenon DEF InUse
  <2>2. \A j \in Conns : fd'[j]["daemon"] \in InUse => fd[j]["daemon"] \in InUse
    BY Zenon, <2>1
  <2> QED BY Zenon, <1>1, <1>2, <2>2, NumbersKept
<1>10. ASSUME NEW j \in Conns PROVE ConnectionRight(j)'
  <2>1. CASE j = k
    BY Zenon, <2>1
  <2>2. CASE j # k
    <3>1. SameMessages(j) /\ SameCall(Owner(j)) /\ Owner(j) \in Clients
      BY Zenon, <1>1, <1>3, <2>2, ConnsAre DEF SameMessages, SameCall, AtHand
    <3>2. CASE owed'[Owner(j)] = owed[Owner(j)]
      BY Zenon, <1>2, <2>2, <3>1, <3>2, SameConnection DEF SameClient
    <3>3. CASE owed'[Owner(j)] # owed[Owner(j)]
      <4>1. ~Awaited(j)
        BY Zenon, <2>2, <3>1, <3>3 DEF Awaited
      <4>2. ~Awaited(j)' /\ (Usable(j)' => Usable(j)) /\ (\A m : InTime(j, m)' <=> InTime(j, m))
        BY Zenon, <1>1, <2>2, <4>1 DEF Awaited, Usable, InTime
      <4>3. \A m \in Messages : On(j, m) => InTime(j, m)'
        BY Zenon, <1>2, <4>2 DEF ConnectionRight, MessagesOwned
      <4>4. calls[Owner(j)] <= calls'[Owner(j)]
        <5>1. calls[Owner(j)] \in Nat
          BY Zenon, <1>2, <3>1 DEF CommandType, ClientType
        <5> QED BY <1>1, <5>1
      <4> QED BY Zenon, <1>2, <1>4, <3>1, <4>2, <4>3, <4>4, OtherConnection
    <3> QED BY Zenon, <3>2, <3>3
  <2> QED BY Zenon, <2>1, <2>2
<1>11. NothingElseOwed'
  <2> SUFFICES ASSUME NEW c \in Clients
               PROVE  /\ cpc'[c] \in Using \cup {"connect"} => result'[c] = "none"
                      /\ cpc'[c] # "resp" /\ result'[c] # "lost" => owed'[c] = 0
                      /\ cpc'[c] = "init" =>
                             hpc'[sock'[c]] = "none" /\ fd'[sock'[c]]["client"] = "open"
                      /\ Made(c)'
    BY Zenon DEF NothingElseOwed
  <2>0. /\ cpc[c] \in Using \cup {"connect"} => result[c] = "none"
        /\ cpc[c] # "resp" /\ result[c] # "lost" => owed[c] = 0
        /\ cpc[c] = "init" => hpc[sock[c]] = "none" /\ fd[sock[c]]["client"] = "open"
        /\ Made(c)
    BY Zenon, <1>2 DEF NothingElseOwed
  <2>1. cpc[c] = "init" => hpc'[sock[c]] = "none" /\ fd'[sock[c]]["client"] = "open"
    <3>1. cpc[c] = "init" => sock[c] \in Conns
      BY Zenon, <1>2, SockIs DEF Using
    <3> QED BY Zenon, <1>3, <2>0, <3>1
  <2>2. \A j \in Conns : fd[j]["client"] # "none" => fd'[j]["client"] # "none"
    BY Zenon
  <2>3. Made(c)'
    BY Zenon, <1>1, <2>0, <2>2, MadeKept
  <2> QED BY Zenon, <1>1, <2>0, <2>1, <2>3
<1> QED BY Zenon, <1>4, <1>5, <1>7, <1>8, <1>9, <1>10, <1>11 DEF CommandInv

LEMMA HandlerRecvPreserves ==
    ASSUME CommandInv, NEW k \in Conns, HandlerRecv(k)
    PROVE  CommandInv'
<1>1. /\ UNCHANGED <<clientVars, num, backlog, serverVars, stopVars>>
      /\ fd' = fd /\ owed' = owed /\ hpc[k] = "recv" /\ hpc' = [hpc EXCEPT ![k] = "lock"]
      /\ hmsg' = [hmsg EXCEPT ![k] = Head(pipe[k]["daemon"])] /\ RecvMsg(k, "daemon")
  BY Zenon DEF HandlerRecv, HGoto
<1>2. CommandType /\ ConnectionRight(k) /\ Owner(k) \in Clients
  BY Zenon, ConnsAre DEF CommandInv
<1>3. /\ pipe' \in [Conns -> [Ends -> Seq(Messages)]]
      /\ \A j \in Conns : j # k => pipe'[j] = pipe[j]
      /\ pipe'[k]["client"] = pipe[k]["client"] /\ pipe[k]["daemon"] # <<>>
      /\ pipe'[k]["daemon"] = Tail(pipe[k]["daemon"]) /\ Head(pipe[k]["daemon"]) \in Messages
  BY Zenon, <1>1, <1>2, DaemonReceives
<1>4. /\ hmsg' \in [Conns -> Messages \cup {NULL}] /\ hmsg'[k] = Head(pipe[k]["daemon"])
      /\ \A j \in Conns : j # k => hmsg'[j] = hmsg[j]
      /\ hpc'[k] = "lock"
  BY <1>1, <1>2, <1>3, TypesOf
<1>5. ConnectionRight(k)'
  <2>1. SameClient(Owner(k)) /\ (AtHand(k)' <=> AtHand(k)) /\ sreq' = sreq
    BY Zenon, <1>1, SameClients, SameServer DEF SameClient
  <2> QED BY Zenon, <1>1, <1>2, <1>3, <1>4, <2>1, HandlerTakes
<1>6. "lock" \in {"recv", "exited"} \cup Working
  BY DEF Working
<1> QED BY Zenon, <1>1, <1>2, <1>3, <1>4, <1>5, <1>6, TypesOf, HandlerKeeps

LEMMA HandlerRecvFailsPreserves ==
    ASSUME CommandInv, NEW k \in Conns, HandlerRecvFails(k)
    PROVE  CommandInv'
<1>1. /\ UNCHANGED <<clientVars, num, backlog, serverVars, stopVars>>
      /\ pipe' = pipe /\ hmsg' = hmsg /\ owed' = owed
      /\ hpc[k] = "recv" /\ hpc' = [hpc EXCEPT ![k] = "exited"] /\ RecvFails(k, "daemon")
  BY Zenon DEF HandlerRecvFails, HGoto
<1>2. CommandType /\ ConnectionRight(k) /\ Owner(k) \in Clients
  BY Zenon, ConnsAre DEF CommandInv
<1>3. /\ fd' \in [Conns -> [Ends -> FdStates]]
      /\ \A j \in Conns : j # k => fd'[j] = fd[j]
      /\ fd'[k]["client"] = fd[k]["client"]
      /\ fd'[k]["daemon"] = fd[k]["daemon"] \/ fd'[k]["daemon"] = "closed"
  BY Zenon, <1>1, <1>2, DaemonReceiveFails
<1>4. hpc'[k] = "exited"
  BY <1>1, <1>2, TypesOf
<1>5. ConnectionRight(k)'
  <2>1. SameClient(Owner(k)) /\ (AtHand(k)' <=> AtHand(k)) /\ sreq' = sreq
    BY Zenon, <1>1, SameClients, SameServer DEF SameClient
  <2> QED BY Zenon, <1>1, <1>2, <1>3, <1>4, <2>1, HandlerLeaves
<1> QED BY Zenon, <1>1, <1>2, <1>3, <1>5, TypesOf, HandlerKeeps

LEMMA HandlerLockPreserves ==
    ASSUME CommandInv, NEW k \in Conns, HandlerLock(k)
    PROVE  CommandInv'
<1>1. /\ UNCHANGED <<clientVars, connVars, serverVars, stopVars>> /\ hmsg' = hmsg /\ owed' = owed
      /\ hpc[k] = "lock" /\ hpc' = [hpc EXCEPT ![k] = "run"]
  BY Zenon DEF HandlerLock, HGoto
<1>2. CommandType /\ ConnectionRight(k) /\ Owner(k) \in Clients
  BY Zenon, ConnsAre DEF CommandInv
<1>3. fd' = fd /\ pipe' = pipe /\ num' = num /\ backlog' = backlog
  BY <1>1 DEF connVars
<1>4. hpc'[k] = "run"
  BY <1>1, <1>2, TypesOf
<1>5. ConnectionRight(k)'
  <2>1. SameClient(Owner(k)) /\ (AtHand(k)' <=> AtHand(k)) /\ sreq' = sreq
    BY Zenon, <1>1, SameClients, SameServer DEF SameClient
  <2> QED BY Zenon, <1>1, <1>2, <1>3, <1>4, <2>1, HandlerLocks
<1>6. "run" \in {"recv", "exited"} \cup Working
  BY DEF Working
<1> QED BY Zenon, <1>1, <1>2, <1>3, <1>5, <1>6, TypesOf, HandlerKeeps

LEMMA HandlerRunPreserves ==
    ASSUME CommandInv, NEW k \in Conns, HandlerRun(k)
    PROVE  CommandInv'
<1>1. PICK ret \in Answers(hmsg[k]) :
         /\ hmsg' = [hmsg EXCEPT ![k] = Response(hmsg[k], ret)]
         /\ owed' = [owed EXCEPT ![hmsg[k].by] =
               IF ret > 0 /\ cpc[hmsg[k].by] # "dead" /\ calls[hmsg[k].by] = hmsg[k].id
               THEN owed[hmsg[k].by] + ret ELSE owed[hmsg[k].by]]
  BY Zenon DEF HandlerRun
<1>2. /\ UNCHANGED <<clientVars, connVars, serverVars, stopVars>>
      /\ hpc[k] = "run" /\ hpc' = [hpc EXCEPT ![k] = "respond"]
  BY Zenon DEF HandlerRun, HGoto
<1>3. CommandType /\ ConnectionRight(k) /\ Owner(k) \in Clients
  BY Zenon, ConnsAre DEF CommandInv
<1>4. fd' = fd /\ pipe' = pipe /\ num' = num /\ backlog' = backlog
  BY <1>2 DEF connVars
<1>5. Held(k) /\ hmsg[k] \in Messages
  <2>1. Held(k)
    BY Zenon, <1>2 DEF Held, Working
  <2> QED BY Zenon, <1>3, <2>1 DEF ConnectionRight, MessagesOwned
<1>6. hmsg[k].by = Owner(k) /\ InTime(k, hmsg[k]) /\ hmsg[k].n \in Int /\ hmsg[k].id \in Nat
  <2>1. On(k, hmsg[k])
    BY Zenon, <1>5 DEF On
  <2> QED BY Zenon, <1>3, <1>5, <2>1, MessageFields DEF ConnectionRight, MessagesOwned
<1>7. ret \in Int
  BY <1>6 DEF Answers
<1>8. /\ hmsg' \in [Conns -> Messages \cup {NULL}] /\ hmsg'[k] = Response(hmsg[k], ret)
      /\ \A j \in Conns : j # k => hmsg'[j] = hmsg[j]
      /\ hpc'[k] = "respond"
  <2>1. Response(hmsg[k], ret) \in Messages
    BY Zenon, <1>5, <1>7, ResponseIs
  <2> HIDE DEF Response
  <2> QED BY <1>1, <1>2, <1>3, <2>1, TypesOf
<1>9. /\ owed' \in [Clients -> Int] /\ \A c \in Clients : c # Owner(k) => owed'[c] = owed[c]
      /\ ret > 0 /\ cpc[Owner(k)] # "dead" /\ calls[Owner(k)] = hmsg[k].id =>
            owed'[Owner(k)] = owed[Owner(k)] + ret
      /\ ~(ret > 0 /\ cpc[Owner(k)] # "dead" /\ calls[Owner(k)] = hmsg[k].id) =>
            owed'[Owner(k)] = owed[Owner(k)]
  BY <1>1, <1>3, <1>6, <1>7, TypesOf
<1>10. \A c \in Clients : \/ owed'[c] = owed[c]
                          \/ cpc[c] = "resp" /\ sock[c] = k
                          \/ result[c] = "lost" /\ cpc[c] = "idle"
  <2> SUFFICES ASSUME owed'[Owner(k)] # owed[Owner(k)]
               PROVE  \/ cpc[Owner(k)] = "resp" /\ sock[Owner(k)] = k
                      \/ result[Owner(k)] = "lost" /\ cpc[Owner(k)] = "idle"
    BY Zenon, <1>9
  <2>1. cpc[Owner(k)] # "dead" /\ ~(hmsg[k].id < calls[Owner(k)])
    BY <1>6, <1>9
  <2>2. Awaited(k) => cpc[Owner(k)] = "resp"
    <3> SUFFICES ASSUME Awaited(k) PROVE cpc[Owner(k)] = "resp"
      OBVIOUS
    <3>1. PICK m \in Messages : At(k, m)
      BY Zenon, <1>3, <1>5 DEF ConnectionRight, OneExchange, Quiet
    <3> QED BY Zenon, <1>5, <3>1 DEF At, Unread, InServer, InHandler, Answered
  <2> QED BY Zenon, <1>6, <2>1, <2>2 DEF InTime, Awaited
<1>11. ConnectionRight(k)'
  <2>1. SameCall(Owner(k)) /\ (AtHand(k)' <=> AtHand(k)) /\ sreq' = sreq
    BY Zenon, <1>2, SameClients, SameServer
  <2>2. Awaited(k) /\ hmsg[k].id = calls[Owner(k)] /\ owed[Owner(k)] = 0 =>
           owed'[Owner(k)] = IF ret > 0 THEN ret ELSE 0
    <3>1. Awaited(k) => cpc[Owner(k)] # "dead"
      BY Zenon DEF Awaited
    <3> HIDE DEF Awaited, Owner
    <3> QED BY <1>7, <1>9, <3>1
  <2> QED BY Zenon, <1>2, <1>3, <1>4, <1>7, <1>8, <2>1, <2>2, HandlerRuns
<1>12. "respond" \in {"recv", "exited"} \cup Working
  BY DEF Working
<1> QED BY Zenon, <1>2, <1>3, <1>4, <1>8, <1>9, <1>10, <1>11, <1>12, TypesOf, HandlerKeeps

LEMMA HandlerRespondPreserves ==
    ASSUME CommandInv, NEW k \in Conns, HandlerRespond(k)
    PROVE  CommandInv'
<1>1. PICK l \in {"recv", "exited"} : hpc' = [hpc EXCEPT ![k] = l]
  BY Zenon DEF HandlerRespond, HGoto
<1>2. /\ UNCHANGED <<clientVars, num, backlog, serverVars, stopVars>> /\ owed' = owed
      /\ hpc[k] = "respond" /\ hmsg' = [hmsg EXCEPT ![k] = NULL] /\ SendMsg(k, "daemon", hmsg[k])
  BY Zenon DEF HandlerRespond
<1>3. CommandType /\ ConnectionRight(k) /\ Owner(k) \in Clients
  BY Zenon, ConnsAre DEF CommandInv
<1>4. hmsg[k] \in Messages
  <2>1. Held(k)
    BY Zenon, <1>2 DEF Held, Working
  <2> QED BY Zenon, <1>3, <2>1 DEF ConnectionRight, MessagesOwned
<1>5. /\ fd' \in [Conns -> [Ends -> FdStates]] /\ pipe' \in [Conns -> [Ends -> Seq(Messages)]]
      /\ \A j \in Conns : j # k => fd'[j] = fd[j] /\ pipe'[j] = pipe[j]
      /\ fd'[k]["client"] = fd[k]["client"] /\ pipe'[k]["daemon"] = pipe[k]["daemon"]
      /\ fd'[k]["daemon"] = fd[k]["daemon"] \/ fd'[k]["daemon"] = "closed"
      /\ \/ pipe'[k]["client"] = Append(pipe[k]["client"], hmsg[k])
         \/ pipe'[k]["client"] = pipe[k]["client"]
  BY Zenon, <1>2, <1>3, <1>4, DaemonSends
<1>6. /\ hmsg' \in [Conns -> Messages \cup {NULL}] /\ \A j \in Conns : j # k => hmsg'[j] = hmsg[j]
      /\ hpc'[k] = l
  BY <1>1, <1>2, <1>3, TypesOf
<1>7. ConnectionRight(k)'
  <2>1. SameClient(Owner(k)) /\ (AtHand(k)' <=> AtHand(k)) /\ sreq' = sreq
    BY Zenon, <1>2, SameClients, SameServer DEF SameClient
  <2>2. ~Held(k)'
    BY <1>6 DEF Held, Working
  <2> QED BY Zenon, <1>2, <1>3, <1>5, <2>1, <2>2, HandlerAnswers
<1>8. l \in {"recv", "exited"} \cup Working /\ hpc[k] \notin {"none", "exited"}
  BY Zenon, <1>2
<1> QED BY Zenon, <1>1, <1>2, <1>3, <1>5, <1>6, <1>7, <1>8, TypesOf, HandlerKeeps

-----------------------------------------------------------------------------
(* The server thread, and the stop of the daemon.                          *)

\* A step that leaves the messages where they are.
LEMMA MessagesStay ==
    ASSUME CommandInv, UNCHANGED <<clientVars, pipe, handlerVars>>,
           \A k \in Conns : fd'[k]["client"] = fd[k]["client"],
           \/ spc # "init" /\ spc' # "init"
           \/ spc' = spc /\ scur' = scur /\ sreq' = sreq
    PROVE  /\ ClientType' /\ HandlerType' /\ OwnConnections'
           /\ (\A k \in Conns : ConnectionRight(k)') /\ NothingElseOwed'
<1>1. hpc' = hpc /\ hmsg' = hmsg /\ owed' = owed /\ pipe' = pipe
  BY DEF handlerVars
<1>2. /\ CommandType /\ OwnConnections /\ (\A j \in Conns : ConnectionRight(j)) /\ NothingElseOwed
  BY Zenon DEF CommandInv
<1>3. HandlerType'
  BY Zenon, <1>1, <1>2 DEF CommandType, HandlerType
<1>4. ClientType' /\ OwnConnections' /\ (\A c : SameClient(c))
  BY Zenon, <1>1, <1>2, SameClients DEF CommandType, SameClient
<1>5. ASSUME NEW k \in Conns PROVE ConnectionRight(k)'
  <2>1. SameMessages(k)
    BY Zenon, <1>1 DEF SameMessages, AtHand
  <2> QED BY Zenon, <1>2, <1>4, <2>1, SameConnection
<1>6. NothingElseOwed'
  <2>1. cpc' = cpc /\ sock' = sock /\ result' = result /\ key' = key
    BY Zenon, SameClients
  <2>0. \A c \in Clients : Made(c)'
    BY Zenon, <1>2, <2>1, MadeKept DEF NothingElseOwed
  <2>2. \A c \in Clients : cpc[c] = "init" => fd'[sock[c]]["client"] = fd[sock[c]]["client"]
    BY Zenon, <1>2, SockIs DEF Using
  <2> QED BY Zenon, <1>1, <1>2, <2>0, <2>1, <2>2 DEF NothingElseOwed
<1> QED BY Zenon, <1>3, <1>4, <1>5, <1>6

\* A step of the server thread on the first message of its connection.
LEMMA ServerKeeps ==
    ASSUME CommandInv, NEW k \in Conns, k = scur, spc \in {"recv", "init"},
           UNCHANGED <<clientVars, hmsg, owed>>,
           spc' = "init" => scur' = k,
           \A j \in Conns : j # k => pipe'[j] = pipe[j] /\ hpc'[j] = hpc[j],
           \A j \in Conns : fd'[j]["client"] = fd[j]["client"],
           hpc'[k] = hpc[k] \/ spc = "init",
           hpc' \in [Conns -> {"none", "recv", "exited"} \cup Working],
           ConnectionRight(k)'
    PROVE  /\ ClientType' /\ HandlerType' /\ OwnConnections'
           /\ (\A j \in Conns : ConnectionRight(j)') /\ NothingElseOwed'
<1>2. /\ CommandType /\ OwnConnections /\ (\A j \in Conns : ConnectionRight(j)) /\ NothingElseOwed
  BY Zenon DEF CommandInv
<1>3. HandlerType'
  BY Zenon, <1>2 DEF CommandType, HandlerType
<1>4. ClientType' /\ OwnConnections' /\ (\A c : SameClient(c))
  BY Zenon, <1>2, SameClients DEF CommandType, SameClient
<1>5. ASSUME NEW j \in Conns PROVE ConnectionRight(j)'
  <2>1. CASE j = k
    BY Zenon, <2>1
  <2>2. CASE j # k
    <3>1. SameMessages(j)
      BY Zenon, <2>2 DEF SameMessages, AtHand
    <3> QED BY Zenon, <1>2, <1>4, <3>1, SameConnection
  <2> QED BY Zenon, <2>1, <2>2
<1>6. NothingElseOwed'
  <2>1. cpc' = cpc /\ sock' = sock /\ result' = result /\ key' = key
    BY Zenon, SameClients
  <2>0. \A c \in Clients : Made(c)'
    BY Zenon, <1>2, <2>1, MadeKept DEF NothingElseOwed
  <2>2. ASSUME NEW c \in Clients, cpc[c] = "init"
        PROVE  hpc'[sock[c]] = "none" /\ fd'[sock[c]]["client"] = "open"
    <3>1. sock[c] \in Conns /\ Owner(sock[c]) = c
      BY Zenon, <1>2, <2>2, SockIs DEF Using
    <3>2. hpc[sock[c]] = "none" /\ fd[sock[c]]["client"] = "open"
      BY Zenon, <1>2, <2>2 DEF NothingElseOwed
    <3>3. Usable(sock[c])
      BY Zenon, <2>2, <3>1, <3>2 DEF Usable, Awaited
    <3>4. ~AtHand(sock[c])
      BY Zenon, <1>2, <3>1, <3>3 DEF ConnectionRight, UsableQuiet, Quiet
    <3>5. hpc'[sock[c]] = hpc[sock[c]]
      BY Zenon, <3>1, <3>4 DEF AtHand
    <3> QED BY Zenon, <3>1, <3>2, <3>5
  <2> QED BY Zenon, <1>2, <2>0, <2>1, <2>2 DEF NothingElseOwed
<1> QED BY Zenon, <1>3, <1>4, <1>5, <1>6

\* accept(), which gives the connection a number that is not in use (see LeastFreeIsFree).
LEMMA AcceptKeeps ==
    ASSUME CommandInv, Accept,
           \A q \in Conns : fd[q]["daemon"] \notin InUse =>
               LeastFree \in Nat /\ \A j \in Conns : fd[j]["daemon"] \in InUse => num[j] # LeastFree
    PROVE  CommandInv'
<1>1. /\ UNCHANGED <<clientVars, pipe, srvsock, sreq, handlers, handlerVars, stopVars>>
      /\ spc = "accept" /\ backlog # <<>> /\ scur' = Head(backlog) /\ backlog' = Tail(backlog)
      /\ num' = [num EXCEPT ![scur'] = LeastFree]
      /\ fd' = [fd EXCEPT ![scur']["daemon"] = "open"] /\ spc' = "recv"
  BY Zenon DEF Accept, SGoto
<1>2. /\ CommandType /\ HandlersListed /\ ConnectionsPass /\ NumbersDiffer
  BY Zenon DEF CommandInv
<1>b. backlog \in Seq(Conns)
  BY Zenon, <1>2 DEF CommandType, ConnectionType
<1>3. PICK k \in Conns : k = Head(backlog)
  BY Zenon, <1>1, <1>b, InTail
<1>4. /\ \A j : In(backlog, j) <=> j = k \/ In(Tail(backlog), j)
      /\ In(backlog, k) /\ Tail(backlog) \in Seq(Conns)
  BY Zenon, <1>1, <1>b, <1>3, InTail
<1>5. /\ ~In(Tail(backlog), k)
      /\ \A i, j \in 1 .. Len(Tail(backlog)) : Tail(backlog)[i] = Tail(backlog)[j] => i = j
  <2>1. \A i, j \in 1 .. Len(backlog) : backlog[i] = backlog[j] => i = j
    BY Zenon, <1>2 DEF ConnectionsPass
  <2>2. /\ Len(Tail(backlog)) = Len(backlog) - 1 /\ Len(backlog) \in Nat /\ Len(backlog) > 0
        /\ \A i \in 1 .. Len(Tail(backlog)) : Tail(backlog)[i] = backlog[i + 1]
        /\ Head(backlog) = backlog[1]
    BY <1>1, <1>b
  <2>3. \A i \in 1 .. Len(Tail(backlog)) : i + 1 \in 1 .. Len(backlog) /\ i + 1 # 1 /\ i \in Int
    BY <2>2
  <2>4. ~In(Tail(backlog), k)
    <3>1. 1 \in 1 .. Len(backlog)
      BY <2>2
    <3> QED BY Zenon, <1>3, <2>1, <2>2, <2>3, <3>1 DEF In
  <2>5. ASSUME NEW i \in 1 .. Len(Tail(backlog)), NEW j \in 1 .. Len(Tail(backlog)),
               Tail(backlog)[i] = Tail(backlog)[j]
        PROVE  i = j
    <3>1. i + 1 = j + 1
      BY ZenonT(30), <2>1, <2>2, <2>3, <2>5
    <3> QED BY <2>3, <3>1
  <2> QED BY Zenon, <2>4, <2>5
<1>6. fd[k]["daemon"] = "queued" /\ hpc[k] = "none"
  BY Zenon, <1>2, <1>4 DEF ConnectionsPass
<1>7. LeastFree \in Nat /\ \A j \in Conns : fd[j]["daemon"] \in InUse => num[j] # LeastFree
  <2>1. fd[k]["daemon"] \notin InUse
    BY <1>6 DEF InUse
  <2> QED BY Zenon, <2>1
<1>8. /\ fd' \in [Conns -> [Ends -> FdStates]]
      /\ \A j \in Conns : j # k => fd'[j] = fd[j]
      /\ fd'[k]["client"] = fd[k]["client"] /\ fd'[k]["daemon"] = "open"
  <2>1. "open" \in FdStates /\ fd' = [fd EXCEPT ![k]["daemon"] = "open"]
    BY <1>1, <1>3 DEF FdStates
  <2> QED BY SMTT(20), <1>2, <2>1, TwoEnds, TypesOf, SetEnd
<1>9. /\ num' \in [Conns -> Nat] /\ num'[k] = LeastFree
      /\ \A j \in Conns : j # k => num'[j] = num[j]
  <2>1. num \in [Conns -> Nat] /\ num' = [num EXCEPT ![k] = LeastFree]
    BY Zenon, <1>1, <1>2, <1>3 DEF CommandType, ConnectionType
  <2> HIDE DEF LeastFree
  <2> QED BY <1>7, <2>1
<1>10. hpc' = hpc /\ hmsg' = hmsg /\ owed' = owed /\ state' = state /\ mpc' = mpc
  BY <1>1 DEF handlerVars, stopVars
<1>11. /\ ClientType' /\ HandlerType' /\ OwnConnections'
       /\ (\A j \in Conns : ConnectionRight(j)') /\ NothingElseOwed'
  <2>1. \A j \in Conns : fd'[j]["client"] = fd[j]["client"]
    BY Zenon, <1>8
  <2>2. spc # "init" /\ spc' # "init"
    BY Zenon, <1>1
  <2> QED BY Zenon, <1>1, <2>1, <2>2, MessagesStay
<1>12. CommandType'
  <2>1. ConnectionType'
    BY Zenon, <1>1, <1>2, <1>4, <1>8, <1>9, TypesOf DEF ConnectionType
  <2>2. ServerType'
    BY Zenon, <1>1, <1>2, <1>3, <1>10 DEF CommandType, ServerType
  <2> QED BY Zenon, <1>11, <2>1, <2>2 DEF CommandType
<1>13. HandlersListed'
  BY Zenon, <1>1, <1>2, <1>10 DEF HandlersListed
<1>14. ConnectionsPass'
  <2>1. ASSUME NEW j \in Conns
        PROVE  /\ fd'[j]["client"] = "none" <=> fd'[j]["daemon"] = "none"
               /\ Fresh(j)' => fd'[j]["client"] = "none"
               /\ fd'[j]["daemon"] \in {"none", "queued", "handed"} => hpc'[j] = "none"
               /\ In(backlog', j) => fd'[j]["daemon"] = "queued"
    <3>1. Fresh(j)' <=> Fresh(j)
      BY Zenon, <1>1, SameClients DEF Fresh
    <3>2. /\ fd[j]["client"] = "none" <=> fd[j]["daemon"] = "none"
          /\ Fresh(j) => fd[j]["client"] = "none"
          /\ fd[j]["daemon"] \in {"none", "queued", "handed"} => hpc[j] = "none"
          /\ In(backlog, j) => fd[j]["daemon"] = "queued"
      BY Zenon, <1>2 DEF ConnectionsPass
    <3>3. CASE j = k
      BY Zenon, <1>1, <1>5, <1>6, <1>8, <3>1, <3>2, <3>3
    <3>4. CASE j # k
      BY Zenon, <1>1, <1>4, <1>8, <1>10, <3>1, <3>2, <3>4
    <3> QED BY Zenon, <3>3, <3>4
  <2>2. scur' \in Conns /\ fd'[scur']["daemon"] = "open" /\ hpc'[scur'] = "none"
    BY Zenon, <1>1, <1>3, <1>6, <1>8, <1>10
  <2> QED BY Zenon, <1>1, <1>5, <2>1, <2>2 DEF ConnectionsPass
<1>15. NumbersDiffer'
  <2> SUFFICES ASSUME NEW i \in Conns, NEW j \in Conns, fd'[i]["daemon"] \in InUse,
                      fd'[j]["daemon"] \in InUse, num'[i] = num'[j]
               PROVE  i = j
    BY Zenon DEF NumbersDiffer
  <2>1. CASE i # k /\ j # k
    BY ZenonT(30), <1>2, <1>8, <1>9, <2>1 DEF NumbersDiffer
  <2> QED BY Zenon, <1>7, <1>8, <1>9, <2>1
<1> QED BY Zenon, <1>11, <1>12, <1>13, <1>14, <1>15 DEF CommandInv

\* The steps of the server thread that leave the connections as they are.
LEMMA ServerWaits ==
    ASSUME CommandInv, UNCHANGED <<clientVars, pipe, num, backlog, handlerVars>>,
           spc # "init", spc' \notin {"recv", "init"}, ServerType', HandlersListed',
           fd' \in [Conns -> [Ends -> FdStates]],
           \A k \in Conns :
               /\ fd'[k]["client"] = fd[k]["client"]
               /\ \/ fd'[k]["daemon"] = fd[k]["daemon"]
                  \/ fd[k]["daemon"] = "open" /\ fd'[k]["daemon"] \in {"shut", "closed"}
    PROVE  CommandInv'
<1>1. hpc' = hpc /\ num' = num /\ backlog' = backlog /\ pipe' = pipe /\ cpc' = cpc /\ calls' = calls
  BY SameClients DEF handlerVars
<1>2. CommandType /\ ConnectionsPass /\ NumbersDiffer
  BY Zenon DEF CommandInv
<1>3. /\ ClientType' /\ HandlerType' /\ OwnConnections'
      /\ (\A k \in Conns : ConnectionRight(k)') /\ NothingElseOwed'
  <2>1. spc' # "init" /\ \A k \in Conns : fd'[k]["client"] = fd[k]["client"]
    BY Zenon
  <2> QED BY Zenon, <2>1, MessagesStay
<1>4. ConnectionsPass'
  <2>1. \A k \in Conns : \/ fd'[k]["daemon"] = fd[k]["daemon"]
                         \/ /\ fd[k]["daemon"] \notin {"none", "queued"}
                            /\ fd'[k]["daemon"] \notin {"none", "queued"}
                            /\ fd'[k]["daemon"] = "handed" => hpc'[k] = "none"
    BY Zenon
  <2>2. \A k \in Conns : fd'[k]["client"] = fd[k]["client"] /\ hpc'[k] = hpc[k]
    BY Zenon, <1>1
  <2> QED BY Zenon, <1>1, <1>2, <2>1, <2>2, PassKept
<1>5. NumbersDiffer'
  <2>1. \A k \in Conns : fd'[k]["daemon"] \in InUse => fd[k]["daemon"] \in InUse
    BY Zenon DEF InUse
  <2> QED BY Zenon, <1>1, <1>2, <2>1, NumbersKept
<1>6. CommandType'
  <2>1. ConnectionType'
    BY Zenon, <1>1, <1>2 DEF CommandType, ConnectionType
  <2> QED BY Zenon, <1>3, <2>1 DEF CommandType
<1> QED BY Zenon, <1>3, <1>4, <1>5, <1>6 DEF CommandInv

LEMMA AcceptFailsPreserves ==
    ASSUME CommandInv, AcceptFails
    PROVE  CommandInv'
<1>1. /\ UNCHANGED <<clientVars, connVars, srvsock, scur, sreq, handlers, handlerVars, stopVars>>
      /\ spc = "accept" /\ spc' = "stopping" /\ state = "STOPPING"
  BY Zenon DEF AcceptFails, SGoto
<1>2. /\ fd' = fd /\ pipe' = pipe /\ num' = num /\ backlog' = backlog /\ hpc' = hpc
      /\ state' = state /\ mpc' = mpc
  BY <1>1 DEF connVars, handlerVars, stopVars
<1>3. CommandType /\ HandlersListed
  BY Zenon DEF CommandInv
<1>4. ServerType'
  BY Zenon, <1>1, <1>2, <1>3 DEF CommandType, ServerType
<1>5. HandlersListed'
  BY Zenon, <1>1, <1>2, <1>3 DEF HandlersListed
<1>6. spc # "init" /\ spc' \notin {"recv", "init"}
  BY Zenon, <1>1
<1> QED BY Zenon, <1>1, <1>2, <1>3, <1>4, <1>5, <1>6, TypesOf, ServerWaits

LEMMA ServerRecvFailsPreserves ==
    ASSUME CommandInv, ServerRecvFails
    PROVE  CommandInv'
<1>1. /\ UNCHANGED <<clientVars, pipe, num, backlog, srvsock, sreq, handlers, handlerVars, stopVars>>
      /\ spc = "recv" /\ spc' \in {"stopping", "accept"} /\ scur' = NoConn
      /\ RecvFails(scur, "daemon")
  BY Zenon DEF ServerRecvFails, SGoto
<1>2. hpc' = hpc /\ state' = state /\ mpc' = mpc
  BY <1>1 DEF handlerVars, stopVars
<1>3. CommandType /\ HandlersListed /\ scur \in Conns /\ fd[scur]["daemon"] = "open"
  BY Zenon, <1>1 DEF CommandInv, ConnectionsPass
<1>4. ServerType'
  BY Zenon, <1>1, <1>2, <1>3 DEF CommandType, ServerType
<1>5. HandlersListed'
  BY Zenon, <1>1, <1>2, <1>3 DEF HandlersListed
<1>6. spc # "init" /\ spc' \notin {"recv", "init"}
  BY Zenon, <1>1
<1>7. /\ fd' \in [Conns -> [Ends -> FdStates]]
      /\ \A k \in Conns :
            /\ fd'[k]["client"] = fd[k]["client"]
            /\ \/ fd'[k]["daemon"] = fd[k]["daemon"]
               \/ fd[k]["daemon"] = "open" /\ fd'[k]["daemon"] \in {"shut", "closed"}
  BY Zenon, <1>1, <1>3, DaemonReceiveFails
<1> QED BY Zenon, <1>1, <1>4, <1>5, <1>6, <1>7, ServerWaits

LEMMA ShutdownHandlerPreserves ==
    ASSUME CommandInv, ShutdownHandler
    PROVE  CommandInv'
<1>1. /\ UNCHANGED <<clientVars, pipe, num, backlog, srvsock, scur, sreq, handlers, handlerVars, stopVars>>
      /\ spc = "stopping" /\ spc' = "join" /\ handlers # <<>>
      /\ Shutdown({k \in Conns : num[k] = num[Head(handlers)]})
  BY Zenon DEF ShutdownHandler, SGoto
<1>2. hpc' = hpc /\ state' = state /\ mpc' = mpc
  BY <1>1 DEF handlerVars, stopVars
<1>3. CommandType /\ HandlersListed
  BY Zenon, <1>1 DEF CommandInv
<1>4. ServerType'
  BY Zenon, <1>1, <1>2, <1>3 DEF CommandType, ServerType
<1>5. HandlersListed'
  BY Zenon, <1>1, <1>2, <1>3 DEF HandlersListed
<1>6. spc # "init" /\ spc' \notin {"recv", "init"}
  BY Zenon, <1>1
<1>7. /\ fd' \in [Conns -> [Ends -> FdStates]]
      /\ \A k \in Conns :
            /\ fd'[k]["client"] = fd[k]["client"]
            /\ \/ fd'[k]["daemon"] = fd[k]["daemon"]
               \/ fd[k]["daemon"] = "open" /\ fd'[k]["daemon"] \in {"shut", "closed"}
  <2>1. PICK S \in SUBSET Conns :
           fd' = [k \in Conns |-> IF k \in S /\ fd[k]["daemon"] = "open"
                                  THEN [fd[k] EXCEPT !["daemon"] = "shut"] ELSE fd[k]]
    BY Zenon, <1>1 DEF Shutdown
  <2>2. "shut" \in FdStates
    BY DEF FdStates
  <2> QED BY SMTT(20), <1>3, <2>1, <2>2, TypesOf, TwoEnds
<1> QED BY Zenon, <1>1, <1>4, <1>5, <1>6, <1>7, ServerWaits

LEMMA JoinHandlerPreserves ==
    ASSUME CommandInv, JoinHandler
    PROVE  CommandInv'
<1>1. /\ UNCHANGED <<clientVars, connVars, srvsock, scur, sreq, handlerVars, stopVars>>
      /\ spc = "join" /\ spc' = "stopping" /\ handlers' = Tail(handlers)
      /\ hpc[Head(handlers)] = "exited"
  BY Zenon DEF JoinHandler, SGoto
<1>2. /\ fd' = fd /\ pipe' = pipe /\ num' = num /\ backlog' = backlog /\ hpc' = hpc
      /\ state' = state /\ mpc' = mpc
  BY <1>1 DEF connVars, handlerVars, stopVars
<1>3. CommandType /\ HandlersListed /\ handlers \in Seq(Conns) /\ handlers # <<>>
  BY Zenon, <1>1 DEF CommandInv, CommandType, ServerType, HandlersListed
<1>4. /\ Tail(handlers) \in Seq(Conns)
      /\ \A j : In(handlers, j) <=> j = Head(handlers) \/ In(Tail(handlers), j)
  BY Zenon, <1>3, InTail
<1>5. ServerType'
  BY Zenon, <1>1, <1>2, <1>3, <1>4 DEF CommandType, ServerType
<1>6. HandlersListed'
  <2>1. \A j \in Conns : /\ hpc[j] \notin {"none", "exited"} => In(handlers', j)
                         /\ In(handlers', j) => hpc[j] # "none"
    BY Zenon, <1>1, <1>3, <1>4 DEF HandlersListed
  <2> QED BY Zenon, <1>1, <1>2, <1>3, <2>1 DEF HandlersListed
<1>7. spc # "init" /\ spc' \notin {"recv", "init"}
  BY Zenon, <1>1
<1> QED BY Zenon, <1>1, <1>2, <1>3, <1>5, <1>6, <1>7, TypesOf, ServerWaits

LEMMA ServerExitsPreserves ==
    ASSUME CommandInv, ServerExits
    PROVE  CommandInv'
<1>1. /\ UNCHANGED <<clientVars, connVars, srvsock, scur, sreq, handlers, handlerVars, stopVars>>
      /\ spc = "stopping" /\ spc' = "exited" /\ handlers = <<>>
  BY Zenon DEF ServerExits, SGoto
<1>2. /\ fd' = fd /\ pipe' = pipe /\ num' = num /\ backlog' = backlog /\ hpc' = hpc
      /\ state' = state /\ mpc' = mpc
  BY <1>1 DEF connVars, handlerVars, stopVars
<1>3. CommandType /\ HandlersListed
  BY Zenon DEF CommandInv
<1>4. ServerType'
  BY Zenon, <1>1, <1>2, <1>3 DEF CommandType, ServerType
<1>5. HandlersListed'
  BY Zenon, <1>1, <1>2, <1>3 DEF HandlersListed
<1>6. spc # "init" /\ spc' \notin {"recv", "init"}
  BY Zenon, <1>1
<1> QED BY Zenon, <1>1, <1>2, <1>3, <1>4, <1>5, <1>6, TypesOf, ServerWaits

\* chitcpd_server_stop.
LEMMA StopPreserves ==
    ASSUME CommandInv, StopServer \/ ShutdownServerSocket \/ JoinServerThread
    PROVE  CommandInv'
<1>1. /\ UNCHANGED <<clientVars, connVars, handlerVars>>
      /\ spc' = spc /\ scur' = scur /\ sreq' = sreq /\ handlers' = handlers
      /\ srvsock' \in {srvsock, "shut"} /\ (srvsock = "closed" => srvsock' = "closed")
      /\ state' \in {state, "STOPPING", "STOPPED"} /\ (state' = "STOPPED" => spc = "exited" \/ state = "STOPPED")
      /\ mpc' \in {"run", "shutdown", "esocket", "join", "ok"}
  BY DEF StopServer, ShutdownServerSocket, JoinServerThread, serverVars
<1>2. /\ fd' = fd /\ pipe' = pipe /\ num' = num /\ backlog' = backlog /\ hpc' = hpc
      /\ cpc' = cpc /\ calls' = calls
  BY <1>1, SameClients DEF connVars, handlerVars
<1>3. CommandType /\ HandlersListed /\ ConnectionsPass /\ NumbersDiffer
  BY Zenon DEF CommandInv
<1>4. /\ ClientType' /\ HandlerType' /\ OwnConnections'
      /\ (\A k \in Conns : ConnectionRight(k)') /\ NothingElseOwed'
  <2>1. \A k \in Conns : fd'[k]["client"] = fd[k]["client"]
    BY Zenon, <1>2
  <2> QED BY Zenon, <1>1, <1>2, <2>1, MessagesStay
<1>5. ServerType'
  BY <1>1, <1>3 DEF CommandType, ServerType
<1>6. HandlersListed'
  BY Zenon, <1>1, <1>2, <1>3 DEF HandlersListed
<1>7. ConnectionType'
  BY Zenon, <1>2, <1>3 DEF CommandType, ConnectionType
<1>8. ConnectionsPass' /\ NumbersDiffer'
  BY ZenonT(30), <1>1, <1>2, <1>3 DEF ConnectionsPass, Fresh, NumbersDiffer
<1> QED BY Zenon, <1>4, <1>5, <1>6, <1>7, <1>8 DEF CommandInv, CommandType

\* The steps on the first message of a connection.
LEMMA ServerActs ==
    ASSUME CommandInv, NEW k \in Conns, k = scur, spc \in {"recv", "init"},
           UNCHANGED <<clientVars, num, backlog, srvsock, stopVars, hmsg, owed>>,
           spc' \in {"init", "accept"}, scur' \in {k, NoConn}, sreq' \in Messages \cup {NULL},
           spc' = "init" => scur' = k /\ fd'[k]["daemon"] = "open" /\ hpc'[k] = "none",
           fd' \in [Conns -> [Ends -> FdStates]], pipe' \in [Conns -> [Ends -> Seq(Messages)]],
           \A j \in Conns : j # k => fd'[j] = fd[j] /\ pipe'[j] = pipe[j],
           fd'[k]["client"] = fd[k]["client"],
           fd'[k]["daemon"] \in {"open", "shut", "closed", "handed"},
           \/ hpc' = hpc /\ handlers' = handlers
           \/ /\ spc = "init" /\ fd'[k]["daemon"] # "handed"
              /\ hpc' = [hpc EXCEPT ![k] = "recv"] /\ handlers' = Append(handlers, k),
           ConnectionRight(k)'
    PROVE  CommandInv'
<1>1. state' = state /\ mpc' = mpc /\ cpc' = cpc /\ calls' = calls
  BY SameClients DEF stopVars
<1>2. /\ CommandType /\ HandlersListed /\ ConnectionsPass /\ NumbersDiffer
      /\ fd[k]["daemon"] = "open" /\ hpc[k] = "none" /\ handlers \in Seq(Conns)
  BY Zenon DEF CommandInv, ConnectionsPass, CommandType, ServerType
<1>3. /\ hpc' \in [Conns -> {"none", "recv", "exited"} \cup Working]
      /\ (\A j \in Conns : j # k => hpc'[j] = hpc[j])
      /\ handlers' \in Seq(Conns)
      /\ \/ hpc' = hpc /\ handlers' = handlers
         \/ /\ spc = "init" /\ fd'[k]["daemon"] # "handed"
            /\ hpc'[k] = "recv" /\ \A j : In(handlers', j) <=> In(handlers, j) \/ j = k
  <2>1. CASE hpc' = hpc /\ handlers' = handlers
    BY Zenon, <1>2, <2>1, TypesOf
  <2>2. CASE /\ spc = "init" /\ fd'[k]["daemon"] # "handed"
             /\ hpc' = [hpc EXCEPT ![k] = "recv"] /\ handlers' = Append(handlers, k)
    <3>1. /\ hpc' \in [Conns -> {"none", "recv", "exited"} \cup Working]
          /\ (\A j \in Conns : j # k => hpc'[j] = hpc[j]) /\ hpc'[k] = "recv"
      BY SMTT(20), <1>2, <2>2, TypesOf
    <3>2. handlers' \in Seq(Conns) /\ \A j : In(handlers', j) <=> In(handlers, j) \/ j = k
      BY <1>2, <2>2, InAppend
    <3> QED BY Zenon, <2>2, <3>1, <3>2
  <2> QED BY Zenon, <2>1, <2>2
<1>4. /\ ClientType' /\ HandlerType' /\ OwnConnections'
      /\ (\A j \in Conns : ConnectionRight(j)') /\ NothingElseOwed'
  <2>1. \A j \in Conns : fd'[j]["client"] = fd[j]["client"]
    BY Zenon
  <2>2. hpc'[k] = hpc[k] \/ spc = "init"
    BY Zenon, <1>3
  <2> QED BY Zenon, <1>3, <2>1, <2>2, ServerKeeps
<1>5. CommandType'
  <2>1. ConnectionType'
    BY Zenon, <1>2 DEF CommandType, ConnectionType
  <2>2. ServerType'
    BY Zenon, <1>1, <1>2, <1>3 DEF CommandType, ServerType
  <2> QED BY Zenon, <1>4, <2>1, <2>2 DEF CommandType
<1>6. HandlersListed'
  <2>1. \A j \in Conns : /\ hpc'[j] \notin {"none", "exited"} => In(handlers', j)
                         /\ In(handlers', j) => hpc'[j] # "none"
    BY ZenonT(30), <1>2, <1>3 DEF HandlersListed
  <2>2. state' # "STOPPED"
    BY Zenon, <1>1, <1>2 DEF HandlersListed
  <2> QED BY Zenon, <2>1, <2>2 DEF HandlersListed
<1>7. ConnectionsPass'
  <2>1. \A j \in Conns : \/ fd'[j]["daemon"] = fd[j]["daemon"]
                         \/ /\ fd[j]["daemon"] \notin {"none", "queued"}
                            /\ fd'[j]["daemon"] \notin {"none", "queued"}
                            /\ fd'[j]["daemon"] = "handed" => hpc'[j] = "none"
    BY Zenon, <1>2, <1>3
  <2>2. \A j \in Conns : /\ fd'[j]["client"] = fd[j]["client"]
                         /\ hpc'[j] = hpc[j] \/ fd[j]["daemon"] \notin {"none", "queued", "handed"}
    BY Zenon, <1>2, <1>3
  <2>3. spc' \in {"recv", "init"} =>
           scur' \in Conns /\ fd'[scur']["daemon"] = "open" /\ hpc'[scur'] = "none"
    BY Zenon
  <2> QED BY Zenon, <1>1, <1>2, <2>1, <2>2, <2>3, PassKept
<1>8. NumbersDiffer'
  <2>1. \A j \in Conns : fd'[j]["daemon"] \in InUse => fd[j]["daemon"] \in InUse
    BY Zenon, <1>2 DEF InUse
  <2> QED BY Zenon, <1>2, <2>1, NumbersKept
<1> QED BY ZenonT(30), <1>4, <1>5, <1>6, <1>7, <1>8 DEF CommandInv

\* The connection the server thread has at hand.
LEMMA AtServer ==
    ASSUME CommandInv, spc \in {"recv", "init"}, UNCHANGED <<clientVars, owed>>
    PROVE  /\ CommandType /\ scur \in Conns /\ ConnectionRight(scur) /\ SameClient(Owner(scur))
           /\ fd[scur]["daemon"] = "open" /\ hpc[scur] = "none" /\ ~Held(scur)
           /\ spc = "init" => AtHand(scur) /\ sreq \in Messages
<1>1. /\ CommandType /\ scur \in Conns /\ ConnectionRight(scur)
      /\ fd[scur]["daemon"] = "open" /\ hpc[scur] = "none"
  BY Zenon DEF CommandInv, ConnectionsPass
<1>2. ~Held(scur) /\ (spc = "init" => AtHand(scur))
  BY <1>1 DEF Held, Working, AtHand
<1> QED BY Zenon, <1>1, <1>2, SameClients DEF SameClient, ConnectionRight, MessagesOwned

LEMMA ServerRecvPreserves ==
    ASSUME CommandInv, ServerRecv
    PROVE  CommandInv'
<1>1. /\ UNCHANGED <<clientVars, fd, num, backlog, srvsock, scur, handlers, handlerVars, stopVars>>
      /\ spc = "recv" /\ spc' = "init" /\ sreq' = Head(pipe[scur]["daemon"]) /\ RecvMsg(scur, "daemon")
  BY Zenon DEF ServerRecv, SGoto
<1>2. hpc' = hpc /\ hmsg' = hmsg /\ owed' = owed
  BY <1>1 DEF handlerVars
<1>3. PICK k \in Conns : k = scur
  BY Zenon, <1>1, <1>2, AtServer
<1>4. /\ CommandType /\ ConnectionRight(k) /\ SameClient(Owner(k))
      /\ fd[k]["daemon"] = "open" /\ hpc[k] = "none"
  BY Zenon, <1>1, <1>2, <1>3, AtServer
<1>5. /\ pipe' \in [Conns -> [Ends -> Seq(Messages)]]
      /\ \A j \in Conns : j # k => pipe'[j] = pipe[j]
      /\ pipe'[k]["client"] = pipe[k]["client"] /\ pipe[k]["daemon"] # <<>>
      /\ pipe'[k]["daemon"] = Tail(pipe[k]["daemon"]) /\ Head(pipe[k]["daemon"]) \in Messages
  BY Zenon, <1>1, <1>3, <1>4, DaemonReceives
<1>6. ConnectionRight(k)'
  <2>1. ~AtHand(k) /\ AtHand(k)'
    BY Zenon, <1>1, <1>3 DEF AtHand
  <2>2. fd'[k]["client"] = fd[k]["client"] /\ hpc'[k] = hpc[k] /\ hmsg'[k] = hmsg[k]
    BY Zenon, <1>1, <1>2
  <2> QED BY Zenon, <1>1, <1>3, <1>4, <1>5, <2>1, <2>2, ServerTakes
<1>7. fd' \in [Conns -> [Ends -> FdStates]]
  BY Zenon, <1>1, <1>4, TypesOf
<1> QED BY Zenon, <1>1, <1>2, <1>3, <1>4, <1>5, <1>6, <1>7, ServerActs

LEMMA StartHandlerPreserves ==
    ASSUME CommandInv, StartHandler
    PROVE  CommandInv'
<1>1. /\ UNCHANGED <<clientVars, num, backlog, srvsock, hmsg, owed, stopVars>>
      /\ spc = "init" /\ hpc' = [hpc EXCEPT ![scur] = "recv"] /\ handlers' = Append(handlers, scur)
      /\ SendMsg(scur, "daemon", Response(sreq, 0)) /\ spc' = "accept" /\ scur' = NoConn /\ sreq' = NULL
  BY Zenon DEF StartHandler, ServerLoops, SGoto
<1>3. PICK k \in Conns : k = scur
  BY Zenon, <1>1, AtServer
<1>4. /\ CommandType /\ ConnectionRight(k) /\ SameClient(Owner(k)) /\ fd[k]["daemon"] = "open"
      /\ ~Held(k) /\ AtHand(k) /\ sreq \in Messages
  BY Zenon, <1>1, <1>3, AtServer
<1>5. Response(sreq, 0) \in Messages
  BY <1>4, ResponseIs
<1>6. /\ fd' \in [Conns -> [Ends -> FdStates]] /\ pipe' \in [Conns -> [Ends -> Seq(Messages)]]
      /\ \A j \in Conns : j # k => fd'[j] = fd[j] /\ pipe'[j] = pipe[j]
      /\ fd'[k]["client"] = fd[k]["client"] /\ pipe'[k]["daemon"] = pipe[k]["daemon"]
      /\ fd'[k]["daemon"] = fd[k]["daemon"] \/ fd'[k]["daemon"] = "closed"
      /\ \/ pipe'[k]["client"] = Append(pipe[k]["client"], Response(sreq, 0))
         \/ pipe'[k]["client"] = pipe[k]["client"]
  BY Zenon, <1>1, <1>3, <1>4, <1>5, DaemonSends
<1>7. ConnectionRight(k)'
  <2>1. ~AtHand(k)'
    BY Zenon, <1>1 DEF AtHand
  <2>2. ~Held(k)'
    <3>1. hpc'[k] = "recv"
      BY <1>1, <1>3, <1>4, TypesOf
    <3> QED BY <3>1 DEF Held, Working
  <2> QED BY Zenon, <1>4, <1>6, <2>1, <2>2, ServerAnswers
<1>8. fd'[k]["daemon"] \in {"open", "shut", "closed", "handed"} /\ fd'[k]["daemon"] # "handed"
  BY Zenon, <1>4, <1>6
<1> QED BY Zenon, <1>1, <1>3, <1>6, <1>7, <1>8, ServerActs

\* The server thread answers a first message.
LEMMA AnswerPut ==
    ASSUME CommandType, NEW k \in Conns, k = scur, sreq \in Messages, NEW b \in {0, -1},
           \/ pipe' = pipe
           \/ pipe' = [pipe EXCEPT ![scur]["client"] = Append(pipe[scur]["client"], Response(sreq, b))]
    PROVE  /\ pipe' \in [Conns -> [Ends -> Seq(Messages)]]
           /\ \A j \in Conns : j # k => pipe'[j] = pipe[j]
           /\ pipe'[k]["daemon"] = pipe[k]["daemon"]
           /\ \/ pipe'[k]["client"] = Append(pipe[k]["client"], Response(sreq, b))
              \/ pipe'[k]["client"] = pipe[k]["client"]
<1>1. CASE pipe' = pipe
  BY Zenon, <1>1, TypesOf
<1>2. CASE pipe' = [pipe EXCEPT ![scur]["client"] = Append(pipe[scur]["client"], Response(sreq, b))]
  <2>1. Response(sreq, b) \in Messages
    BY ResponseIs
  <2>2. PICK y \in Seq(Messages) : y = Append(pipe[k]["client"], Response(sreq, b))
    BY Zenon, <2>1, PipesAre, PipeAppend
  <2>3. pipe' = [pipe EXCEPT ![k]["client"] = y]
    BY Zenon, <1>2, <2>2
  <2>4. /\ pipe' \in [Conns -> [Ends -> Seq(Messages)]]
        /\ \A j \in Conns : j # k => pipe'[j] = pipe[j]
        /\ pipe'[k]["daemon"] = pipe[k]["daemon"] /\ pipe'[k]["client"] = y
    BY <2>3, TwoEnds, TypesOf, SetEnd
  <2> QED BY Zenon, <2>2, <2>4
<1> QED BY Zenon, <1>1, <1>2

\* The connection is not given to a handler thread.
LEMMA NotHandled ==
    ASSUME CommandInv, spc = "init", UNCHANGED <<clientVars, num, backlog, srvsock, handlers, handlerVars, stopVars>>,
           ServerLoops, NEW b \in {0, -1}, NEW x \in {"shut", "closed", "handed"},
           \/ pipe' = pipe
           \/ pipe' = [pipe EXCEPT ![scur]["client"] = Append(pipe[scur]["client"], Response(sreq, b))],
           fd' = [fd EXCEPT ![scur]["daemon"] = x]
    PROVE  CommandInv'
<1>1. spc' = "accept" /\ scur' = NoConn /\ sreq' = NULL /\ hpc' = hpc /\ hmsg' = hmsg /\ owed' = owed
  BY DEF ServerLoops, SGoto, handlerVars
<1>3. PICK k \in Conns : k = scur
  BY Zenon, <1>1, AtServer
<1>4. /\ CommandType /\ ConnectionRight(k) /\ SameClient(Owner(k)) /\ fd[k]["daemon"] = "open"
      /\ hpc[k] = "none" /\ ~Held(k) /\ AtHand(k) /\ sreq \in Messages
  BY ZenonT(30), <1>1, <1>3, AtServer
<1>5. /\ fd' \in [Conns -> [Ends -> FdStates]]
      /\ \A j \in Conns : j # k => fd'[j] = fd[j]
      /\ fd'[k]["client"] = fd[k]["client"] /\ fd'[k]["daemon"] = x
  <2>1. x \in FdStates /\ fd' = [fd EXCEPT ![k]["daemon"] = x]
    BY <1>3 DEF FdStates
  <2> QED BY SMTT(20), <1>4, <2>1, TwoEnds, TypesOf, SetEnd
<1>6. /\ pipe' \in [Conns -> [Ends -> Seq(Messages)]]
      /\ \A j \in Conns : j # k => pipe'[j] = pipe[j]
      /\ pipe'[k]["daemon"] = pipe[k]["daemon"]
      /\ \/ pipe'[k]["client"] = Append(pipe[k]["client"], Response(sreq, b))
         \/ pipe'[k]["client"] = pipe[k]["client"]
  BY Zenon, <1>3, <1>4, AnswerPut
<1>7. ConnectionRight(k)'
  <2>1. ~AtHand(k)' /\ ~Held(k)'
    BY Zenon, <1>1, <1>4 DEF AtHand, Held
  <2> QED BY Zenon, <1>4, <1>5, <1>6, <2>1, ServerAnswers
<1> QED BY Zenon, <1>1, <1>3, <1>5, <1>6, <1>7, ServerActs

LEMMA DebugConnectionPreserves ==
    ASSUME CommandInv, DebugConnection
    PROVE  CommandInv'
<1>1. /\ UNCHANGED <<clientVars, num, backlog, srvsock, handlers, handlerVars, stopVars>>
      /\ spc = "init" /\ ServerLoops
  BY Zenon DEF DebugConnection
<1>2. PICK b \in {0, -1}, x \in {"shut", "closed", "handed"} :
         /\ \/ pipe' = pipe
            \/ pipe' = [pipe EXCEPT ![scur]["client"] = Append(pipe[scur]["client"], Response(sreq, b))]
         /\ fd' = [fd EXCEPT ![scur]["daemon"] = x]
  <2>1. PICK ok \in BOOLEAN :
          /\ pipe' = IF CanSend(scur, "daemon")
                     THEN [pipe EXCEPT ![scur]["client"] = Append(pipe[scur]["client"], Response(sreq, IF ok THEN 0 ELSE -1))]
                     ELSE pipe
          /\ fd' = [fd EXCEPT ![scur]["daemon"] = IF ~CanSend(scur, "daemon") THEN "closed"
                                                  ELSE IF ok THEN "handed" ELSE "shut"]
    BY Zenon DEF DebugConnection
  <2>2. PICK b \in {0, -1} : b = IF ok THEN 0 ELSE -1
    BY Zenon
  <2>3. PICK x \in {"shut", "closed", "handed"} :
           x = IF ~CanSend(scur, "daemon") THEN "closed" ELSE IF ok THEN "handed" ELSE "shut"
    BY Zenon
  <2>4. \/ pipe' = pipe
        \/ pipe' = [pipe EXCEPT ![scur]["client"] = Append(pipe[scur]["client"], Response(sreq, b))]
    BY Zenon, <2>1, <2>2
  <2>5. fd' = [fd EXCEPT ![scur]["daemon"] = x]
    BY Zenon, <2>1, <2>3
  <2> QED BY Zenon, <2>4, <2>5
<1> QED BY Zenon, <1>1, <1>2, NotHandled

LEMMA RejectLeadPreserves ==
    ASSUME CommandInv, RejectLead
    PROVE  CommandInv'
<1>1. /\ UNCHANGED <<clientVars, num, backlog, srvsock, handlers, handlerVars, stopVars>>
      /\ spc = "init" /\ ServerLoops /\ fd' = [fd EXCEPT ![scur]["daemon"] = "shut"]
      /\ \/ pipe' = pipe
         \/ pipe' = [pipe EXCEPT ![scur]["client"] = Append(pipe[scur]["client"], Response(sreq, -1))]
  BY Zenon DEF RejectLead
<1>2. -1 \in {0, -1} /\ "shut" \in {"shut", "closed", "handed"}
  OBVIOUS
<1> QED BY Zenon, <1>1, <1>2, NotHandled

LEMMA StartHandlerFailsPreserves ==
    ASSUME CommandInv, StartHandlerFails
    PROVE  CommandInv'
<1>1. /\ UNCHANGED <<clientVars, num, scur, sreq, handlers, handlerVars, stopVars>>
      /\ spc = "init" /\ spc' = "exited" /\ backlog' = <<>> /\ srvsock' = "closed"
      /\ \/ pipe' = pipe
         \/ pipe' = [pipe EXCEPT ![scur]["client"] = Append(pipe[scur]["client"], Response(sreq, -1))]
  BY Zenon DEF StartHandlerFails, SGoto
<1>2. hpc' = hpc /\ hmsg' = hmsg /\ owed' = owed /\ state' = state /\ mpc' = mpc
      /\ cpc' = cpc /\ calls' = calls
  BY Zenon, <1>1, SameClients DEF handlerVars, stopVars
<1>3. PICK k \in Conns : k = scur
  BY Zenon, <1>1, <1>2, AtServer
<1>4. /\ CommandType /\ ConnectionRight(k) /\ SameClient(Owner(k)) /\ fd[k]["daemon"] = "open"
      /\ hpc[k] = "none" /\ ~Held(k) /\ AtHand(k) /\ sreq \in Messages
  BY Zenon, <1>1, <1>2, <1>3, AtServer
<1>5. /\ fd' \in [Conns -> [Ends -> FdStates]]
      /\ \A j \in Conns : fd'[j]["client"] = fd[j]["client"]
      /\ \A j \in Conns : \/ fd'[j]["daemon"] = fd[j]["daemon"]
                          \/ fd[j]["daemon"] \in {"queued", "open"} /\ fd'[j]["daemon"] = "closed"
  <2>1. PICK close : fd' = [j \in Conns |->
           IF j \in {backlog[i] : i \in 1 .. Len(backlog)} \/ (j = scur /\ close)
           THEN [fd[j] EXCEPT !["daemon"] = "closed"] ELSE fd[j]]
    BY Zenon DEF StartHandlerFails
  <2>2. PICK B : B = {j \in Conns : j \in {backlog[i] : i \in 1 .. Len(backlog)} \/ (j = scur /\ close)}
    BY Zenon
  <2>3. fd' = [j \in Conns |-> IF j \in B THEN [fd[j] EXCEPT !["daemon"] = "closed"] ELSE fd[j]]
    BY <2>1, <2>2
  <2>4. \A j \in B : j \in Conns /\ fd[j]["daemon"] \in {"queued", "open"}
    <3>1. \A j \in B : j \in Conns /\ (In(backlog, j) \/ j = k)
      BY Zenon, <1>3, <2>2 DEF In
    <3> QED BY Zenon, <1>4, <3>1 DEF CommandInv, ConnectionsPass
  <2>6. /\ fd' \in [Conns -> [Ends -> FdStates]]
        /\ \A j \in Conns : j \notin B => fd'[j] = fd[j]
        /\ \A j \in B \cap Conns : fd'[j]["daemon"] = "closed" /\ fd'[j]["client"] = fd[j]["client"]
    BY Zenon, <1>4, <2>3, DaemonEnds
  <2> QED BY Zenon, <2>4, <2>6
<1>6. /\ pipe' \in [Conns -> [Ends -> Seq(Messages)]]
      /\ \A j \in Conns : j # k => pipe'[j] = pipe[j]
      /\ pipe'[k]["daemon"] = pipe[k]["daemon"]
      /\ \/ pipe'[k]["client"] = Append(pipe[k]["client"], Response(sreq, -1))
         \/ pipe'[k]["client"] = pipe[k]["client"]
  BY Zenon, <1>1, <1>3, <1>4, AnswerPut
<1>7. ConnectionRight(k)'
  <2>1. ~AtHand(k)' /\ ~Held(k)' /\ -1 \in {0, -1}
    BY <1>1, <1>2, <1>4 DEF AtHand, Held
  <2> QED BY Zenon, <1>4, <1>5, <1>6, <2>1, ServerAnswers
<1>8. /\ ClientType' /\ HandlerType' /\ OwnConnections'
      /\ (\A j \in Conns : ConnectionRight(j)') /\ NothingElseOwed'
  <2>1. hpc' \in [Conns -> {"none", "recv", "exited"} \cup Working]
    BY Zenon, <1>2, <1>4, TypesOf
  <2> QED BY Zenon, <1>1, <1>2, <1>3, <1>5, <1>6, <1>7, <2>1, ServerKeeps
<1>9. CommandType'
  <2>1. <<>> \in Seq(Conns)
    OBVIOUS
  <2>2. ConnectionType'
    BY Zenon, <1>1, <1>4, <1>5, <1>6, <2>1 DEF CommandType, ConnectionType
  <2>3. ServerType'
    BY Zenon, <1>1, <1>2, <1>4 DEF CommandType, ServerType
  <2> QED BY Zenon, <1>8, <2>2, <2>3 DEF CommandType
<1>10. HandlersListed'
  BY Zenon, <1>1, <1>2 DEF CommandInv, HandlersListed
<1>11. ConnectionsPass'
  <2>1. ConnectionsPass
    BY Zenon DEF CommandInv
  <2>2. \A j \in Conns : /\ fd'[j]["client"] = "none" <=> fd'[j]["daemon"] = "none"
                         /\ Fresh(j)' => fd'[j]["client"] = "none"
                         /\ fd'[j]["daemon"] \in {"none", "queued", "handed"} => hpc'[j] = "none"
                         /\ ~In(backlog', j)
    <3>1. \A j : ~In(backlog', j)
      BY Zenon, <1>1, InEmpty
    <3>2. \A j : Fresh(j)' <=> Fresh(j)
      BY Zenon, <1>2 DEF Fresh
    <3>3. \A j \in Conns : /\ fd[j]["client"] = "none" <=> fd[j]["daemon"] = "none"
                           /\ Fresh(j) => fd[j]["client"] = "none"
                           /\ fd[j]["daemon"] \in {"none", "queued", "handed"} => hpc[j] = "none"
      BY Zenon, <2>1 DEF ConnectionsPass
    <3>4. ASSUME NEW j \in Conns
          PROVE  /\ fd'[j]["client"] = "none" <=> fd'[j]["daemon"] = "none"
                 /\ fd'[j]["daemon"] \in {"none", "queued", "handed"} => hpc'[j] = "none"
      BY Zenon, <1>2, <1>5, <3>3
    <3> QED BY Zenon, <1>5, <3>1, <3>2, <3>3, <3>4
  <2>3. \A i, j \in 1 .. Len(backlog') : i = j
    BY <1>1
  <2> QED BY Zenon, <1>1, <2>2, <2>3 DEF ConnectionsPass
<1>12. NumbersDiffer'
  <2>1. \A j \in Conns : fd'[j]["daemon"] \in InUse => fd[j]["daemon"] \in InUse
    BY Zenon, <1>5 DEF InUse
  <2> QED BY Zenon, <1>1, <2>1, NumbersKept DEF CommandInv
<1> QED BY Zenon, <1>8, <1>9, <1>10, <1>11, <1>12 DEF CommandInv

-----------------------------------------------------------------------------
(* The steps of a client, which change its own connections only.           *)

LEMMA ClientTypes ==
    ASSUME CommandType, ClientType', UNCHANGED <<num, serverVars, hpc, hmsg, stopVars>>,
           fd' \in [Conns -> [Ends -> FdStates]], pipe' \in [Conns -> [Ends -> Seq(Messages)]],
           backlog' \in Seq(Conns), owed' \in [Clients -> Int]
    PROVE  /\ CommandType'
           /\ \A k : AtHand(k)' <=> AtHand(k)
           /\ \A k : pipe'[k] = pipe[k] => SameMessages(k)
<1>1. sreq' = sreq /\ (ServerType => ServerType') /\ \A k : AtHand(k)' <=> AtHand(k)
  BY Zenon, SameServer
<1> QED BY Zenon, <1>1 DEF CommandType, ConnectionType, HandlerType, SameMessages

\* What is left to show of a step of client c.
LEMMA ClientActs ==
    ASSUME CommandInv, NEW c \in Clients, UNCHANGED <<num, serverVars, hpc, hmsg, stopVars>>,
           CommandType', ConnectionsPass',
           \A d \in Clients : d # c => SameClient(d),
           \A k \in Conns : Owner(k) # c => fd'[k] = fd[k] /\ pipe'[k] = pipe[k],
           \A k \in Conns : \/ fd'[k]["daemon"] = fd[k]["daemon"]
                            \/ fd'[k]["daemon"] = "queued",
           \A k \in Conns : fd[k]["client"] # "none" => fd'[k]["client"] # "none",
           cpc'[c] = "connect" => calls'[c] \in 1 .. MaxCalls[c],
           key'[c] # NoConn => Owner(key'[c]) = c,
           cpc'[c] \in Using => sock'[c] # NoConn /\ Owner(sock'[c]) = c,
           \A k \in Conns : Owner(k) = c => ConnectionRight(k)',
           cpc'[c] \in Using \cup {"connect"} => result'[c] = "none",
           cpc'[c] # "resp" /\ result'[c] # "lost" => owed'[c] = 0,
           cpc'[c] = "init" => hpc[sock'[c]] = "none" /\ fd'[sock'[c]]["client"] = "open",
           Made(c)'
    PROVE  CommandInv'
<1>1. /\ CommandType /\ HandlersListed /\ OwnConnections /\ NumbersDiffer /\ NothingElseOwed
      /\ \A k \in Conns : ConnectionRight(k)
  BY Zenon DEF CommandInv
<1>2. HandlersListed'
  <2>1. spc' = spc /\ srvsock' = srvsock /\ handlers' = handlers /\ state' = state
    BY Zenon, SameServer
  <2> QED BY Zenon, <1>1, <2>1 DEF HandlersListed
<1>3. OwnConnections'
  <2> SUFFICES ASSUME NEW d \in Clients
               PROVE  /\ cpc'[d] = "connect" => calls'[d] \in 1 .. MaxCalls[d]
                      /\ key'[d] # NoConn => Owner(key'[d]) = d
                      /\ cpc'[d] \in Using => sock'[d] # NoConn /\ Owner(sock'[d]) = d
    BY Zenon DEF OwnConnections
  <2>1. CASE d = c
    BY Zenon, <2>1
  <2>2. CASE d # c
    BY ZenonT(30), <1>1, <2>2 DEF OwnConnections, SameClient, SameCall
  <2> QED BY Zenon, <2>1, <2>2
<1>4. NumbersDiffer'
  <2>1. \A k \in Conns : fd'[k]["daemon"] \in InUse => fd[k]["daemon"] \in InUse
    BY Zenon DEF InUse
  <2> QED BY Zenon, <1>1, <2>1, NumbersKept
<1>5. \A k \in Conns : ConnectionRight(k)'
  <2> SUFFICES ASSUME NEW k \in Conns, Owner(k) # c
               PROVE  ConnectionRight(k)'
    BY Zenon
  <2>1. SameMessages(k)
    <3>1. sreq' = sreq /\ \A j : AtHand(j)' <=> AtHand(j)
      BY Zenon, SameServer
    <3> QED BY Zenon, <3>1 DEF SameMessages
  <2>2. SameClient(Owner(k)) /\ fd'[k]["client"] = fd[k]["client"] /\ ConnectionRight(k)
    BY Zenon, <1>1, ConnsAre
  <2> QED BY Zenon, <2>1, <2>2, SameConnection
<1>6. NothingElseOwed'
  <2> SUFFICES ASSUME NEW d \in Clients, d # c
               PROVE  /\ cpc'[d] \in Using \cup {"connect"} => result'[d] = "none"
                      /\ cpc'[d] # "resp" /\ result'[d] # "lost" => owed'[d] = 0
                      /\ cpc'[d] = "init" => hpc'[sock'[d]] = "none" /\ fd'[sock'[d]]["client"] = "open"
                      /\ Made(d)'
    BY Zenon DEF NothingElseOwed
  <2>1. SameClient(d)
    BY Zenon
  <2>2. /\ cpc'[d] \in Using \cup {"connect"} => result'[d] = "none"
        /\ cpc'[d] # "resp" /\ result'[d] # "lost" => owed'[d] = 0
    BY Zenon, <1>1, <2>1 DEF NothingElseOwed, SameClient, SameCall
  <2>3. ASSUME cpc[d] = "init"
        PROVE  hpc[sock[d]] = "none" /\ fd'[sock[d]]["client"] = "open"
    <3>1. sock[d] \in Conns /\ Owner(sock[d]) # c
      BY Zenon, <1>1, <2>3, SockIs DEF Using
    <3> QED BY Zenon, <1>1, <2>3, <3>1 DEF NothingElseOwed
  <2>4. Made(d)'
    BY Zenon, <1>1, <2>1, MadeKept DEF NothingElseOwed, SameClient, SameCall
  <2> QED BY Zenon, <2>1, <2>2, <2>3, <2>4 DEF SameClient, SameCall
<1> QED BY Zenon, <1>1, <1>2, <1>3, <1>4, <1>5, <1>6 DEF CommandInv

\* The connections pass nowhere in a step of a client, but that they are closed.
LEMMA ClientPass ==
    ASSUME ConnectionsPass, UNCHANGED <<backlog, serverVars, stopVars, hpc>>,
           \A k \in Conns : fd'[k]["daemon"] = fd[k]["daemon"],
           \A k \in Conns : fd'[k]["client"] = "none" <=> fd[k]["client"] = "none",
           \A k \in Conns : Fresh(k)' => Fresh(k)
    PROVE  ConnectionsPass'
<1>1. spc' = spc /\ scur' = scur
  BY Zenon, SameServer
<1>2. ASSUME NEW k \in Conns
      PROVE  /\ fd'[k]["client"] = "none" <=> fd'[k]["daemon"] = "none"
             /\ Fresh(k)' => fd'[k]["client"] = "none"
             /\ fd'[k]["daemon"] \in {"none", "queued", "handed"} => hpc'[k] = "none"
             /\ In(backlog', k) => fd'[k]["daemon"] = "queued"
  BY Zenon DEF ConnectionsPass
<1> QED BY Zenon, <1>1, <1>2 DEF ConnectionsPass

\* A connection that carries nothing, and on which no answer is awaited.
LEMMA QuietRight ==
    ASSUME NEW k \in Conns, Quiet(k)', ~Awaited(k)'
    PROVE  ConnectionRight(k)'
<1>1. \A m : ~On(k, m)' /\ ~In(pipe'[k]["client"], m)
  BY Zenon, InEmpty DEF Quiet, On
<1>2. hpc'[k] # "respond"
  BY DEF Quiet, Held, Working
<1> QED BY Zenon, <1>1, <1>2 DEF ConnectionRight, MessagesOwned, UsableQuiet, OneExchange, Quiet

\* A connection that the current call of its client does not use.
LEMMA UnusedRight ==
    ASSUME NEW k \in Conns, CommandType, CommandType', ConnectionRight(k), SameMessages(k),
           calls' = calls, ~Awaited(k), cpc[Owner(k)] \notin {"dead", "idle"}, ~Awaited(k)',
           Usable(k)' => Usable(k)
    PROVE  ConnectionRight(k)'
<1>1. calls[Owner(k)] <= calls'[Owner(k)]
  BY ConnsAre DEF CommandType, ClientType
<1>2. \A m \in Messages : On(k, m) => InTime(k, m)'
  BY Zenon DEF ConnectionRight, MessagesOwned, InTime
<1> QED BY Zenon, <1>1, <1>2, OtherConnection

\* The variables of a client whose call returns, or goes on.
LEMMA ReturnsIs ==
    ASSUME ClientType, NEW c \in Clients, NEW r \in {"done", "lost"}, Returns(c, r), UNCHANGED <<key, calls>>
    PROVE  /\ ClientType' /\ cpc'[c] = "idle" /\ result'[c] = r /\ sock'[c] = NoConn
           /\ \A d \in Clients : d # c => SameCall(d)
<1>0. "none" \in Kinds
  BY DEF Kinds
<1>1. ClientType'
  BY <1>0 DEF ClientType, Returns, CGoto, Set
<1>2. cpc'[c] = "idle" /\ result'[c] = r /\ sock'[c] = NoConn
  BY DEF ClientType, Returns, CGoto, Set
<1>3. \A d \in Clients : d # c => cpc'[d] = cpc[d] /\ sock'[d] = sock[d] /\ result'[d] = result[d]
  BY DEF ClientType, Returns, CGoto, Set
<1> QED BY Zenon, <1>1, <1>2, <1>3 DEF SameCall

LEMMA ContinuesIs ==
    ASSUME ClientType, NEW c \in Clients, NEW l \in Using, CGoto(c, l), UNCHANGED <<op, sock, loop, result, calls>>,
           left' \in [Clients -> Int], key' \in [Clients -> Conns \cup {NoConn}],
           \A d \in Clients : d # c => key'[d] = key[d]
    PROVE  /\ ClientType' /\ cpc'[c] = l
           /\ \A d \in Clients : d # c => SameCall(d)
<1>1. cpc' \in [Clients -> {"idle", "connect", "dead"} \cup Using] /\ cpc'[c] = l
      /\ \A d \in Clients : d # c => cpc'[d] = cpc[d]
  BY DEF ClientType, CGoto
<1> QED BY Zenon, <1>1 DEF ClientType, SameCall

\* A connection is only fresh until its call has made it.
LEMMA FreshStays ==
    ASSUME NEW c \in Clients, calls' = calls, cpc'[c] # "connect",
           \A d \in Clients : d # c => cpc'[d] = cpc[d]
    PROVE  \A k \in Conns : Fresh(k)' => Fresh(k)
<1>1. \A k \in Conns : cpc'[Owner(k)] = "connect" => cpc[Owner(k)] = "connect"
  BY Zenon, ConnsAre
<1> QED BY Zenon, <1>1 DEF Fresh

LEMMA CallPreserves ==
    ASSUME CommandInv, NEW c \in Clients, NEW o \in Kinds, NEW n \in Int, NEW l \in BOOLEAN,
           Call(c, o, n, l)
    PROVE  CommandInv'
<1>1. /\ UNCHANGED <<key, connVars, serverVars, hpc, hmsg, stopVars>>
      /\ cpc[c] = "idle" /\ calls[c] < MaxCalls[c]
      /\ calls' = [calls EXCEPT ![c] = calls[c] + 1]
      /\ op' = [op EXCEPT ![c] = o] /\ left' = [left EXCEPT ![c] = n] /\ loop' = [loop EXCEPT ![c] = l]
      /\ result' = [result EXCEPT ![c] = "none"] /\ owed' = [owed EXCEPT ![c] = 0]
  BY Zenon DEF Call, Set
<1>2. PICK s : s \in {NoConn, key[c]} /\ sock' = [sock EXCEPT ![c] = s]
  BY Zenon DEF Call, Set, GetSocket
<1>3. PICK p : p = (IF sock'[c] = NoConn THEN "connect" ELSE "send") /\ cpc' = [cpc EXCEPT ![c] = p]
  BY Zenon DEF Call, CGoto
<1>4. fd' = fd /\ pipe' = pipe /\ num' = num /\ backlog' = backlog
  BY <1>1 DEF connVars
<1>5. CommandType /\ ClientType /\ ConnectionType /\ OwnConnections /\ ConnectionsPass
      /\ owed \in [Clients -> Int]
  BY Zenon DEF CommandInv, CommandType, HandlerType
<1>6. /\ calls[c] \in Nat /\ calls'[c] = calls[c] + 1 /\ result'[c] = "none" /\ owed'[c] = 0
      /\ sock'[c] = s /\ cpc'[c] = p
      /\ \A d \in Clients : d # c => /\ calls'[d] = calls[d] /\ result'[d] = result[d]
                                     /\ owed'[d] = owed[d] /\ sock'[d] = sock[d] /\ cpc'[d] = cpc[d]
  BY SMTT(20), <1>1, <1>2, <1>3, <1>5 DEF ClientType
<1>7. p \in {"connect", "send"} /\ s \in Conns \cup {NoConn} /\ (p = "connect" <=> s = NoConn)
  <2>1. key[c] = NoConn \/ key[c] \in Conns
    BY Zenon, <1>5, ClientIs
  <2> QED BY Zenon, <1>2, <1>3, <1>6, <2>1
<1>8. CommandType' /\ \A k : SameMessages(k)
  <2>1. ClientType'
    <3>1. calls' \in [Clients -> Nat] /\ left' \in [Clients -> Int] /\ loop' \in [Clients -> BOOLEAN]
      BY SMTT(20), <1>1, <1>5, <1>6 DEF ClientType
    <3>2. /\ op' \in [Clients -> Kinds]
          /\ result' \in [Clients -> {"none", "done", "lost"}]
      BY SMTT(20), <1>1, <1>5 DEF ClientType
    <3>3. cpc' \in [Clients -> {"idle", "connect", "dead"} \cup Using]
      BY SMTT(20), <1>3, <1>5, <1>7 DEF ClientType, Using
    <3>4. sock' \in [Clients -> Conns \cup {NoConn}]
      BY SMTT(20), <1>2, <1>5, <1>7 DEF ClientType
    <3> QED BY Zenon, <1>1, <1>5, <3>1, <3>2, <3>3, <3>4 DEF ClientType
  <2>2. owed' \in [Clients -> Int]
    BY <1>1, <1>5
  <2> QED BY Zenon, <1>1, <1>4, <1>5, <2>1, <2>2, ClientTypes DEF ConnectionType
<1>9. ConnectionsPass'
  <2>1. \A k \in Conns : Fresh(k)' => Fresh(k)
    <3> SUFFICES ASSUME NEW k \in Conns, Fresh(k)' PROVE Fresh(k)
      BY Zenon
    <3>1. Owner(k) \in Clients /\ k[2] \in Nat
      BY SMTT(20), ConnsAre, CommandAssumption
    <3>2. CASE Owner(k) = c
      BY <1>6, <3>1, <3>2 DEF Fresh
    <3>3. CASE Owner(k) # c
      BY Zenon, <1>6, <3>1, <3>3 DEF Fresh
    <3> QED BY Zenon, <3>2, <3>3
  <2> QED BY Zenon, <1>1, <1>4, <1>5, <2>1, ClientPass
<1>10. ASSUME NEW k \in Conns, Owner(k) = c PROVE ConnectionRight(k)'
  <2>1. ConnectionRight(k) /\ SameMessages(k)
    BY Zenon, <1>8 DEF CommandInv
  <2>2. ~Awaited(k) /\ ~Awaited(k)'
    BY Zenon, <1>1, <1>6, <1>7, <1>10 DEF Awaited
  <2>3. Usable(k)' => Usable(k)
    <3>1. k # NoConn /\ key'[c] = key[c] /\ sock'[c] \in {NoConn, key[c]}
      BY Zenon, <1>1, <1>2, <1>6, ConnsAre
    <3>2. k \in {key'[c], sock'[c]} => k = key[c]
      BY Zenon, <3>1
    <3> QED BY Zenon, <1>4, <1>10, <2>2, <3>2 DEF Usable
  <2>4. calls[Owner(k)] <= calls'[Owner(k)]
    BY <1>6, <1>10
  <2>5. \A m \in Messages : On(k, m) => InTime(k, m)'
    <3> SUFFICES ASSUME NEW m \in Messages, On(k, m) PROVE InTime(k, m)'
      BY Zenon
    <3>1. m.id <= calls[c] /\ m.id \in Nat
      BY ZenonT(30), <1>10, <2>1, MessageFields DEF ConnectionRight, MessagesOwned
    <3>2. m.id < calls'[c]
      BY <1>6, <3>1
    <3> QED BY Zenon, <1>10, <3>2 DEF InTime
  <2> QED BY Zenon, <1>5, <1>8, <2>1, <2>2, <2>3, <2>4, <2>5, OtherConnection
<1>11. /\ cpc'[c] = "connect" => calls'[c] \in 1 .. MaxCalls[c]
       /\ key'[c] # NoConn => Owner(key'[c]) = c
       /\ cpc'[c] \in Using => sock'[c] # NoConn /\ Owner(sock'[c]) = c
  <2>1. calls'[c] \in 1 .. MaxCalls[c]
    BY SMTT(20), <1>1, <1>6, CommandAssumption
  <2>2. key'[c] # NoConn => Owner(key'[c]) = c
    BY Zenon, <1>1, <1>5 DEF OwnConnections
  <2>3. cpc'[c] \in Using => sock'[c] # NoConn
    BY Zenon, <1>6, <1>7 DEF Using
  <2> QED BY Zenon, <1>1, <1>2, <1>6, <2>1, <2>2, <2>3
<1>12. (\A d \in Clients : d # c => SameClient(d)) /\ cpc'[c] # "init"
  BY Zenon, <1>1, <1>6, <1>7 DEF SameClient, SameCall
<1>13. Made(c)'
  <2>1. Made(c)
    BY Zenon DEF CommandInv, NothingElseOwed
  <2>2. key'[c] = key[c] /\ sock'[c] \in {NoConn, key[c]} /\ \A k \in Conns : k # NoConn
    BY Zenon, <1>1, <1>2, <1>6, ConnsAre
  <2> QED BY Zenon, <1>4, <2>1, <2>2 DEF Made
<1> QED BY Zenon, <1>1, <1>4, <1>6, <1>8, <1>9, <1>10, <1>11, <1>12, <1>13, ClientActs

LEMMA CallsPreserve ==
    ASSUME CommandInv, NEW c \in Clients, Calls(c)
    PROVE  CommandInv'
<1>1. PICK o \in Kinds, n \in Int, l \in BOOLEAN : Call(c, o, n, l)
  <2>1. \A n \in Lengths : n \in Int
    BY CommandAssumption
  <2>2. 0 \in Int /\ TRUE \in BOOLEAN /\ FALSE \in BOOLEAN
    OBVIOUS
  <2>3. {"plain", "waits", "send", "recv", "debug", "other", "unknown"} \subseteq Kinds
    BY DEF Kinds
  <2> QED BY Zenon, <2>1, <2>2, <2>3
          DEF Calls, chisocket_socket, chisocket_bind, chisocket_listen, chisocket_close, chisocket_connect,
              chisocket_accept, chitcpd_wait_for_state, chisocket_send, chisocket_recv, chitcp_socket_send,
              chitcp_socket_recv, chitcpd_debug, ForeignProgram, Leads
<1> QED BY Zenon, <1>1, CallPreserves

\* The parts of the invariant that a step of a client needs.
LEMMA ClientBefore ==
    ASSUME CommandInv, NEW c \in Clients
    PROVE  /\ CommandType /\ ClientType /\ fd \in [Conns -> [Ends -> FdStates]]
           /\ pipe \in [Conns -> [Ends -> Seq(Messages)]] /\ backlog \in Seq(Conns)
           /\ owed \in [Clients -> Int] /\ OwnConnections /\ ConnectionsPass
           /\ \A k \in Conns : ConnectionRight(k)
           /\ key[c] # NoConn => Owner(key[c]) = c
           /\ cpc[c] \in Using \cup {"connect"} => result[c] = "none"
           /\ cpc[c] # "resp" /\ result[c] # "lost" => owed[c] = 0
           /\ Made(c)
BY Zenon DEF CommandInv, CommandType, ConnectionType, HandlerType, OwnConnections, NothingElseOwed

\* A step of a client that leaves its connections to the daemon.
LEMMA ClientLeaves ==
    ASSUME CommandInv, NEW c \in Clients, cpc[c] \in Using,
           UNCHANGED <<calls, num, backlog, serverVars, hpc, hmsg, stopVars>>,
           ClientType', owed' \in [Clients -> Int], owed'[c] = 0 \/ result'[c] = "lost",
           fd' \in [Conns -> [Ends -> FdStates]], pipe' \in [Conns -> [Ends -> Seq(Messages)]],
           \A d \in Clients : d # c => SameCall(d) /\ owed'[d] = owed[d],
           NEW k \in Conns, Owner(k) = c, sock[c] = k,
           \A j \in Conns : j # k => fd'[j] = fd[j] /\ pipe'[j] = pipe[j],
           fd'[k]["daemon"] = fd[k]["daemon"],
           fd'[k]["client"] = "none" <=> fd[k]["client"] = "none",
           \/ cpc'[c] = "idle"
           \/ cpc'[c] \in {"send", "resp", "init_resp"} /\ sock'[c] = k /\ result'[c] = "none",
           key'[c] \in {key[c], k},
           sock'[c] \in {NoConn, k}, ConnectionRight(k)'
    PROVE  CommandInv'
<1>1. CommandType /\ ConnectionsPass /\ (\A j \in Conns : ConnectionRight(j)) /\ backlog' \in Seq(Conns)
      /\ (key[c] # NoConn => Owner(key[c]) = c) /\ Made(c)
  BY Zenon, ClientBefore
<1>2. CommandType' /\ \A j : pipe'[j] = pipe[j] => SameMessages(j)
  BY Zenon, <1>1, ClientTypes
<1>3. cpc'[c] \notin {"connect", "init"}
  BY Zenon
<1>4. ConnectionsPass'
  <2>1. \A j \in Conns : Fresh(j)' => Fresh(j)
    BY Zenon, <1>3, FreshStays DEF SameCall
  <2>2. \A j \in Conns : /\ fd'[j]["daemon"] = fd[j]["daemon"]
                         /\ fd'[j]["client"] = "none" <=> fd[j]["client"] = "none"
    BY Zenon
  <2> QED BY Zenon, <1>1, <2>1, <2>2, ClientPass
<1>5. ASSUME NEW j \in Conns, Owner(j) = c, j # k PROVE ConnectionRight(j)'
  <2>1. ConnectionRight(j) /\ SameMessages(j) /\ fd'[j] = fd[j]
    BY Zenon, <1>1, <1>2, <1>5
  <2>2. sock'[c] # j /\ j # NoConn
    BY Zenon, <1>5, ConnsAre
  <2>3. ~Awaited(j) /\ ~Awaited(j)'
    BY Zenon, <1>5, <2>2 DEF Awaited, Using
  <2>4. Usable(j)' => Usable(j)
    BY Zenon, <1>5, <2>1, <2>2, <2>3 DEF Usable
  <2>5. cpc[c] \notin {"dead", "idle"}
    BY Zenon DEF Using
  <2> QED BY Zenon, <1>1, <1>2, <1>5, <2>1, <2>3, <2>4, <2>5, UnusedRight
<1>6. \A d \in Clients : d # c => SameClient(d)
  BY Zenon DEF SameClient
<1>7. /\ key'[c] # NoConn => Owner(key'[c]) = c
      /\ cpc'[c] \in Using => sock'[c] # NoConn /\ Owner(sock'[c]) = c
  BY Zenon, <1>1, ConnsAre DEF Using
<1>8. /\ cpc'[c] \in Using \cup {"connect"} => result'[c] = "none"
      /\ cpc'[c] # "resp" /\ result'[c] # "lost" => owed'[c] = 0
  BY Zenon DEF Using
<1>9. \A j \in Conns : /\ Owner(j) # c => fd'[j] = fd[j] /\ pipe'[j] = pipe[j]
                       /\ fd'[j]["daemon"] = fd[j]["daemon"]
                       /\ Owner(j) = c => ConnectionRight(j)'
  BY Zenon, <1>5
<1>10. Made(c)' /\ \A j \in Conns : fd[j]["client"] # "none" => fd'[j]["client"] # "none"
  <2>1. \A j \in Conns : fd[j]["client"] # "none" => fd'[j]["client"] # "none"
    BY Zenon
  <2>2. \A j \in Conns : j # NoConn
    BY Zenon, ConnsAre
  <2> QED BY Zenon, <1>1, <2>1, <2>2 DEF Made
<1> QED BY Zenon, <1>2, <1>3, <1>4, <1>6, <1>7, <1>8, <1>9, <1>10, ClientActs

LEMMA NotAbove == \A i \in Nat : i <= i
OBVIOUS

\* The message is on its way, or the connection was lost.
LEMMA SentRight ==
    ASSUME NEW c \in Clients, NEW k \in Conns, Owner(k) = c, Quiet(k), CommandType, CommandType',
           NEW m \in Messages, m.by = c, m.id = calls[c], calls' = calls,
           pipe'[k]["daemon"] = Append(pipe[k]["daemon"], m), pipe'[k]["client"] = pipe[k]["client"],
           hpc'[k] = hpc[k], AtHand(k)' <=> AtHand(k), fd'[k]["client"] = "open",
           cpc'[c] \in {"init_resp", "resp"}, sock'[c] = k,
           cpc'[c] = "init_resp" => hpc[k] = "none", owed'[c] = 0
    PROVE  ConnectionRight(k)'
<1>1. pipe'[k]["daemon"] = <<m>> /\ pipe'[k]["client"] = <<>> /\ ~Held(k)' /\ ~AtHand(k)'
  BY Zenon, OneMessage DEF Quiet, Held
<1>2. Awaited(k)' /\ ~Usable(k)'
  BY Zenon DEF Awaited, Usable
<1>3. MessagesOwned(k)'
  <2>1. \A x : In(pipe'[k]["daemon"], x) <=> x = m
    BY Zenon, <1>1, OneMessage
  <2>2. \A x : On(k, x)' => x = m
    BY Zenon, <1>1, <2>1, InEmpty DEF On
  <2>3. m.id <= calls'[c] /\ hpc'[k] # "respond"
    <3>1. m.id \in Nat
      BY ZenonT(30), MessageFields
    <3>2. m.id <= calls'[c]
      BY Zenon, <3>1, NotAbove
    <3>3. "respond" \in Working
      BY Zenon DEF Working
    <3> QED BY Zenon, <1>1, <3>2, <3>3 DEF Held
  <2> QED BY Zenon, <1>1, <1>2, <2>2, <2>3, InEmpty DEF MessagesOwned, InTime
<1>4. Unread(k, m)'
  BY Zenon, <1>1 DEF Unread
<1> QED BY Zenon, <1>2, <1>3, <1>4 DEF ConnectionRight, UsableQuiet, OneExchange, At

\* A call gives up the exchange on a connection, which is closed at its end.
LEMMA LostRight ==
    ASSUME NEW c \in Clients, NEW k \in Conns, Owner(k) = c, ConnectionRight(k), SameMessages(k),
           CommandType, CommandType', calls' = calls, fd'[k]["client"] = "closed",
           \/ cpc'[c] = "idle" /\ result'[c] = "lost"
           \/ cpc'[c] = "dead"
    PROVE  ConnectionRight(k)'
<1>1. ~Awaited(k)' /\ ~Usable(k)'
  BY Zenon DEF Awaited, Usable
<1>2. \A m : InTime(k, m)'
  BY ZenonT(30) DEF InTime
<1>3. calls[Owner(k)] <= calls'[Owner(k)]
  <2>1. calls[c] \in Nat
    BY Zenon DEF CommandType, ClientType
  <2> QED BY Zenon, <2>1, NotAbove
<1> QED BY Zenon, <1>1, <1>2, <1>3, OtherConnection

LEMMA ClientSendPreserves ==
    ASSUME CommandInv, NEW c \in Clients, ClientSend(c)
    PROVE  CommandInv'
<1>1. /\ UNCHANGED <<key, calls, num, backlog, serverVars, handlerVars, stopVars>>
      /\ cpc[c] \in {"init", "send"}
      /\ IF CanSend(sock[c], "client")
         THEN Continues(c, IF cpc[c] = "init" THEN "init_resp" ELSE "resp")
         ELSE Returns(c, "lost")
  BY Zenon DEF ClientSend
<1>2. hpc' = hpc /\ hmsg' = hmsg /\ owed' = owed
  BY Zenon, <1>1 DEF handlerVars
<1>3. /\ CommandType /\ ClientType /\ backlog \in Seq(Conns) /\ owed \in [Clients -> Int]
      /\ OwnConnections /\ \A k \in Conns : ConnectionRight(k)
      /\ cpc[c] \in Using /\ result[c] = "none" /\ owed[c] = 0
  BY Zenon, <1>1, ClientBefore DEF Using
<1>4. PICK k \in Conns : k = sock[c] /\ Owner(k) = c
  BY Zenon, <1>3, SockIs
<1>5. PICK m \in Messages : m.by = c /\ m.id = calls[c] /\ SendMsg(k, "client", m)
  <2>1. /\ op[c] \in Kinds /\ "init" \in Kinds /\ left[c] \in Int /\ 0 \in Int
    BY SMTT(20), <1>3, ClientIs DEF Kinds
  <2>2. ASSUME NEW o \in Kinds, NEW n \in Int
        PROVE  Message(o, c, n) \in Messages /\ Message(o, c, n).by = c /\ Message(o, c, n).id = calls[c]
    BY SMTT(20), <1>3, <2>2, MessageIs
  <2>3. CASE cpc[c] = "send"
    BY Zenon, <1>4, <2>1, <2>2, <2>3 DEF ClientSend
  <2>4. CASE cpc[c] # "send" /\ op[c] \in Leads
    BY Zenon, <1>4, <2>1, <2>2, <2>4 DEF ClientSend
  <2>5. CASE cpc[c] # "send" /\ op[c] \notin Leads
    BY Zenon, <1>4, <2>1, <2>2, <2>5 DEF ClientSend
  <2> QED BY ZenonT(30), <2>3, <2>4, <2>5
<1>6. /\ fd' \in [Conns -> [Ends -> FdStates]] /\ pipe' \in [Conns -> [Ends -> Seq(Messages)]]
      /\ \A j \in Conns : j # k => fd'[j] = fd[j] /\ pipe'[j] = pipe[j]
      /\ fd'[k]["daemon"] = fd[k]["daemon"] /\ pipe'[k]["client"] = pipe[k]["client"]
      /\ \/ /\ CanSend(k, "client") /\ fd' = fd
            /\ pipe'[k]["daemon"] = Append(pipe[k]["daemon"], m)
         \/ ~CanSend(k, "client") /\ pipe' = pipe /\ fd'[k]["client"] = "closed"
  BY Zenon, <1>3, <1>5, ClientSends
<1>7. ClientType' => /\ CommandType'
                     /\ \A j : AtHand(j)' <=> AtHand(j)
                     /\ \A j : pipe'[j] = pipe[j] => SameMessages(j)
  BY Zenon, <1>1, <1>2, <1>3, <1>6, ClientTypes
<1>8. CASE CanSend(k, "client")
  <2>1. PICK l \in {"init_resp", "resp"} : (l = "init_resp" <=> cpc[c] = "init") /\ Continues(c, l)
    BY Zenon, <1>1, <1>4, <1>8
  <2>2. /\ ClientType' /\ cpc'[c] = l /\ sock' = sock /\ result' = result
        /\ \A d \in Clients : d # c => SameCall(d)
    <3>1. CGoto(c, l) /\ UNCHANGED <<op, sock, loop, result, calls, left, key>> /\ l \in Using
      BY Zenon, <1>1, <2>1 DEF Continues, Using
    <3>2. left' \in [Clients -> Int] /\ key' \in [Clients -> Conns \cup {NoConn}]
      BY Zenon, <1>3, <3>1 DEF ClientType
    <3> QED BY Zenon, <1>3, <3>1, <3>2, ContinuesIs
  <2>3. fd'[k]["client"] = "open" /\ fd[k]["client"] = "open"
    BY Zenon, <1>6, <1>8 DEF CanSend
  <2>4. Quiet(k)
    <3>1. Usable(k)
      BY Zenon, <1>1, <1>4, <2>3 DEF Usable, Awaited
    <3> QED BY Zenon, <1>3, <3>1 DEF ConnectionRight, UsableQuiet
  <2>5. ConnectionRight(k)'
    <3>1. cpc'[c] = "init_resp" => hpc[k] = "none"
      BY Zenon, <1>4, <2>1, <2>2 DEF CommandInv, NothingElseOwed
    <3>2. pipe'[k]["daemon"] = Append(pipe[k]["daemon"], m)
      BY Zenon, <1>6, <1>8
    <3> QED BY Zenon, <1>1, <1>2, <1>3, <1>4, <1>5, <1>6, <1>7, <2>1, <2>2, <2>3, <2>4, <3>1, <3>2, SentRight
  <2>6. fd'[k]["client"] = "none" <=> fd[k]["client"] = "none"
    BY Zenon, <2>3
  <2>7. cpc'[c] \in {"send", "resp", "init_resp"} /\ sock'[c] = k /\ result'[c] = "none"
    BY Zenon, <1>3, <1>4, <2>1, <2>2
  <2> QED BY Zenon, <1>1, <1>2, <1>3, <1>4, <1>6, <2>2, <2>5, <2>6, <2>7, ClientLeaves
<1>9. CASE ~CanSend(k, "client")
  <2>1. /\ ClientType' /\ cpc'[c] = "idle" /\ result'[c] = "lost" /\ sock'[c] = NoConn
        /\ \A d \in Clients : d # c => SameCall(d)
    BY Zenon, <1>1, <1>3, <1>4, <1>9, ReturnsIs
  <2>2. pipe' = pipe /\ fd'[k]["client"] = "closed"
    BY Zenon, <1>6, <1>9
  <2>3. ConnectionRight(k)'
    BY Zenon, <1>1, <1>3, <1>4, <1>7, <2>1, <2>2, LostRight
  <2>4. fd[k]["client"] # "none"
    BY Zenon, <1>4, ClientBefore DEF Made
  <2> QED BY Zenon, <1>1, <1>2, <1>3, <1>4, <1>6, <2>1, <2>2, <2>3, <2>4, ClientLeaves
<1> QED BY Zenon, <1>8, <1>9

-----------------------------------------------------------------------------
(* The initial states, and a step in which nothing happens.                *)

LEMMA InitRight == Init => CommandInv
<1> SUFFICES ASSUME Init PROVE CommandInv
  OBVIOUS
<1>1. CommandType
  <2>1. ClientType
    BY DEF Init, ClientType, Kinds
  <2>2. ConnectionType
    <3>1. fd \in [Conns -> [Ends -> FdStates]]
      BY DEF Init, FdStates
    <3>2. pipe \in [Conns -> [Ends -> Seq(Messages)]]
      BY DEF Init
    <3> QED BY <3>1, <3>2 DEF Init, ConnectionType
  <2>3. ServerType
    BY DEF Init, ServerType
  <2>4. HandlerType
    BY DEF Init, HandlerType
  <2> QED BY Zenon, <2>1, <2>2, <2>3, <2>4 DEF CommandType
<1>2. /\ \A k \in Conns : /\ fd[k]["client"] = "none" /\ fd[k]["daemon"] = "none" /\ hpc[k] = "none"
                          /\ pipe[k]["client"] = <<>> /\ pipe[k]["daemon"] = <<>>
      /\ \A c \in Clients : /\ cpc[c] = "idle" /\ key[c] = NoConn /\ sock[c] = NoConn
                            /\ result[c] = "none" /\ owed[c] = 0
      /\ backlog = <<>> /\ handlers = <<>> /\ spc = "accept" /\ state = "RUNNING"
  BY DEF Init, Ends
<1>3. HandlersListed
  BY Zenon, <1>2, InEmpty DEF HandlersListed
<1>4. ConnectionsPass
  <2>1. \A i, j \in 1 .. Len(backlog) : i = j
    BY <1>2
  <2> QED BY Zenon, <1>2, <2>1, InEmpty DEF ConnectionsPass
<1>5. OwnConnections
  BY Zenon, <1>2 DEF OwnConnections, Using
<1>6. NumbersDiffer
  BY Zenon, <1>2 DEF NumbersDiffer, InUse
<1>7. ASSUME NEW k \in Conns PROVE ConnectionRight(k)
  <2>1. Owner(k) \in Clients
    BY Zenon, ConnsAre
  <2>2. Quiet(k) /\ ~Awaited(k) /\ hpc[k] # "respond"
    BY Zenon, <1>2, <2>1 DEF Quiet, Held, AtHand, Awaited, Working
  <2>3. \A m : ~On(k, m) /\ ~In(pipe[k]["client"], m)
    BY Zenon, <2>2, InEmpty DEF Quiet, On
  <2> QED BY Zenon, <2>2, <2>3 DEF ConnectionRight, MessagesOwned, UsableQuiet, OneExchange, Quiet
<1>8. NothingElseOwed
  <2>1. \A k \in Conns : k # NoConn
    BY Zenon, ConnsAre
  <2> QED BY ZenonT(30), <1>2, <2>1 DEF NothingElseOwed, Using, Made
<1> QED BY Zenon, <1>1, <1>3, <1>4, <1>5, <1>6, <1>7, <1>8 DEF CommandInv

LEMMA StutterPreserves ==
    ASSUME CommandInv, UNCHANGED vars
    PROVE  CommandInv'
<1>1. UNCHANGED <<cpc, op, key, sock, calls, left, loop, result, fd, pipe, num, backlog, srvsock, spc, scur,
                  sreq, handlers, hpc, hmsg, owed, state, mpc>>
  BY DEF vars, clientVars, connVars, serverVars, handlerVars, stopVars
<1>2. CommandType'
  <2>1. ClientType' /\ ServerType'
    BY Zenon, SameClients, SameServer DEF CommandInv, CommandType, vars
  <2>2. ConnectionType' /\ HandlerType'
    BY Zenon, <1>1 DEF CommandInv, CommandType, ConnectionType, HandlerType
  <2> QED BY Zenon, <2>1, <2>2 DEF CommandType
<1>3. HandlersListed' /\ OwnConnections' /\ NumbersDiffer'
  BY Zenon, <1>1 DEF CommandInv, HandlersListed, OwnConnections, NumbersDiffer
<1>4. ConnectionsPass'
  BY Zenon, <1>1 DEF CommandInv, ConnectionsPass, Fresh
<1>5. \A k \in Conns : ConnectionRight(k)'
  BY Zenon, <1>1, SameConnection DEF CommandInv, SameMessages, SameClient, SameCall, AtHand
<1>6. NothingElseOwed'
  BY Zenon, <1>1 DEF CommandInv, NothingElseOwed, Made
<1> QED BY Zenon, <1>2, <1>3, <1>4, <1>5, <1>6 DEF CommandInv

\* The steps in which the daemon shuts a connection down.
LEMMA ShutBy ==
    ASSUME CommandInv, Next, NEW k \in Conns, fd[k]["daemon"] = "open", fd'[k]["daemon"] = "shut"
    PROVE  ShutdownHandler \/ DebugConnection \/ RejectLead
<1>1. CommandType /\ OwnConnections /\ ConnectionsPass /\ fd \in [Conns -> [Ends -> FdStates]]
  BY Zenon, TypesOf DEF CommandInv
<1>2. fd' # fd
  BY Zenon
<1>3. ASSUME NEW c \in Clients, Calls(c) \/ ClientStep(c) \/ Die(c) PROVE FALSE
  <2>1. ASSUME Calls(c) PROVE fd' = fd
    BY Zenon, <2>1 DEF Calls, chisocket_socket, chisocket_bind, chisocket_listen, chisocket_close,
       chisocket_connect, chisocket_accept, chitcpd_wait_for_state, chisocket_send, chisocket_recv,
       chitcp_socket_send, chitcp_socket_recv, chitcpd_debug, ForeignProgram, Call, connVars
  <2>2. ASSUME Connect(c) PROVE FALSE
    <3>1. fd' = fd \/ \E j : fd' = [fd EXCEPT ![j] = [client |-> "open", daemon |-> "queued"]]
      BY Zenon, <2>2 DEF Connect
    <3> QED BY <1>1, <3>1
  <2>3. ASSUME ClientSend(c) \/ ClientInitAnswered(c) \/ ClientAnswered(c) \/ ClientDisconnected(c)
        PROVE  FALSE
    <3>1. PICK x : fd' = fd \/ fd' = [fd EXCEPT ![sock[c]]["client"] = x]
      BY Zenon, <2>3 DEF ClientSend, SendMsg, ClientInitAnswered, ClientAnswered, ClientDisconnected, RecvFails
    <3> QED BY <1>1, <3>1 DEF Ends
  <2>4. ASSUME Die(c) PROVE FALSE
    BY <1>1, <2>4 DEF Die, Ends
  <2> QED BY Zenon, <1>2, <1>3, <2>1, <2>2, <2>3, <2>4 DEF ClientStep
<1>4. ASSUME NEW j, HandlerStep(j) PROVE FALSE
  <2>1. fd' = fd \/ fd' = [fd EXCEPT ![j]["daemon"] = "closed"]
    BY Zenon, <1>4 DEF HandlerStep, HandlerRecv, HandlerRecvFails, HandlerLock, HandlerRun, HandlerRespond,
       RecvFails, SendMsg, connVars
  <2> QED BY <1>1, <2>1 DEF Ends
<1>5. ASSUME Accept \/ AcceptFails \/ ServerRecv \/ ServerRecvFails \/ StartHandler \/ JoinHandler \/ ServerExits
      PROVE  FALSE
  <2>1. \/ fd' = fd
        \/ \E j : \E x \in {"open", "closed"} : fd' = [fd EXCEPT ![j]["daemon"] = x]
    BY Zenon, <1>5 DEF Accept, AcceptFails, ServerRecv, ServerRecvFails, StartHandler, JoinHandler,
       ServerExits, RecvFails, SendMsg, connVars
  <2> QED BY <1>1, <2>1 DEF Ends
<1>6. ASSUME StartHandlerFails PROVE FALSE
  <2>1. PICK B : fd' = [j \in Conns |-> IF j \in B THEN [fd[j] EXCEPT !["daemon"] = "closed"] ELSE fd[j]]
    BY <1>6 DEF StartHandlerFails
  <2> QED BY SMTT(20), <1>1, <2>1 DEF Ends
<1>7. ASSUME StopServer \/ ShutdownServerSocket \/ JoinServerThread PROVE fd' = fd
  BY Zenon, <1>7 DEF StopServer, ShutdownServerSocket, JoinServerThread, connVars
<1> QED BY Zenon, <1>2, <1>3, <1>4, <1>5, <1>6, <1>7 DEF Next, ServerStep
=============================================================================
