--------------------- MODULE CommandConnections_proofs ---------------------
(***************************************************************************)
(* Proofs about the connections between applications and the daemon, for   *)
(* any number of clients, calls and lengths: a call reads its own answer,  *)
(* the bytes it counts are those moved for it, a daemon that has stopped   *)
(* has no handler thread left, and no command that is executed loses its   *)
(* connection, but for the exception that the property names.              *)
(*                                                                         *)
(* CommandSteps_proofs has the inductive invariant, CommandInv, and most   *)
(* of the steps.  Here are those that make a connection (connect(),        *)
(* accept()), those that end an exchange, and the death of a client.       *)
(***************************************************************************)
EXTENDS CommandSteps_proofs

\* The answer is the only message on the connection, and its bytes are those not yet counted.
LEMMA AnswerTaken ==
    ASSUME CommandType, NEW c \in Clients, NEW k \in Conns, k = sock[c], Owner(k) = c,
           cpc[c] \in {"init_resp", "resp"}, ConnectionRight(k), RecvMsg(k, "client"),
           hpc'[k] = hpc[k], AtHand(k)' <=> AtHand(k)
    PROVE  /\ Quiet(k)' /\ Head(pipe[k]["client"]) \in Messages
           /\ owed[c] = Bytes(Head(pipe[k]["client"])) /\ fd[k]["client"] = "open"
<1>1. /\ pipe'[k]["daemon"] = pipe[k]["daemon"] /\ pipe[k]["client"] # <<>>
      /\ pipe'[k]["client"] = Tail(pipe[k]["client"])
  BY Zenon, ClientReceives
<1>2. Awaited(k)
  BY Zenon DEF Awaited
<1>3. PICK m \in Messages : At(k, m)
  BY Zenon, <1>1, <1>2 DEF ConnectionRight, OneExchange, Quiet
<1>4. Answered(k, m)
  BY Zenon, <1>1, <1>3 DEF At, Unread, InServer, InHandler
<1>5. Head(pipe[k]["client"]) = m /\ Tail(pipe[k]["client"]) = <<>>
  BY Zenon, <1>4, InOne DEF Answered
<1>6. Quiet(k)'
  BY Zenon, <1>1, <1>4, <1>5 DEF Answered, Quiet, Held
<1> QED BY Zenon, <1>2, <1>4, <1>5, <1>6 DEF Answered, ConnectionRight, OneExchange

LEMMA AnswerLeaves ==
    ASSUME CommandInv, NEW c \in Clients, cpc[c] \in {"init_resp", "resp"}, RecvMsg(sock[c], "client"),
           UNCHANGED <<calls, num, backlog, serverVars, hpc, hmsg, stopVars>>,
           ClientType', owed' \in [Clients -> Int], owed'[c] = 0,
           \A d \in Clients : d # c => SameCall(d) /\ owed'[d] = owed[d],
           fd' = fd \/ fd' = [fd EXCEPT ![sock[c]]["client"] = "handed"],
           \/ cpc'[c] = "idle" /\ sock'[c] = NoConn
           \/ cpc'[c] = "send" /\ sock'[c] = sock[c] /\ result'[c] = "none",
           key'[c] \in {key[c], sock[c]}
    PROVE  CommandInv'
<1>1. /\ CommandType /\ fd \in [Conns -> [Ends -> FdStates]] /\ OwnConnections
      /\ (\A k \in Conns : ConnectionRight(k)) /\ cpc[c] \in Using
  BY Zenon, ClientBefore DEF Using
<1>2. PICK k \in Conns : k = sock[c] /\ Owner(k) = c
  BY Zenon, <1>1, SockIs
<1>3. ConnectionRight(k) /\ RecvMsg(k, "client")
  BY Zenon, <1>1, <1>2
<1>4. /\ pipe' \in [Conns -> [Ends -> Seq(Messages)]]
      /\ \A j \in Conns : j # k => pipe'[j] = pipe[j]
  BY Zenon, <1>1, <1>3, ClientReceives
<1>5. Quiet(k)' /\ fd[k]["client"] = "open"
  <2>1. AtHand(k)' <=> AtHand(k)
    BY Zenon, SameServer
  <2> QED BY Zenon, <1>1, <1>2, <1>3, <2>1, AnswerTaken
<1>6. /\ fd' \in [Conns -> [Ends -> FdStates]]
      /\ \A j \in Conns : j # k => fd'[j] = fd[j]
      /\ fd'[k]["daemon"] = fd[k]["daemon"] /\ fd'[k]["client"] \in {"open", "handed"}
  <2>1. CASE fd' = fd
    BY Zenon, <1>1, <1>5, <2>1
  <2>2. CASE fd' = [fd EXCEPT ![sock[c]]["client"] = "handed"]
    <3>1. "handed" \in FdStates /\ fd' = [fd EXCEPT ![k]["client"] = "handed"]
      BY <1>2, <2>2 DEF FdStates
    <3> QED BY <1>1, <3>1, TwoEnds, SetEnd
  <2> QED BY Zenon, <2>1, <2>2
<1>7. ConnectionRight(k)'
  <2>1. ~Awaited(k)'
    BY Zenon, <1>2 DEF Awaited
  <2> QED BY Zenon, <1>5, <2>1, QuietRight
<1>8. fd'[k]["client"] = "none" <=> fd[k]["client"] = "none"
  BY Zenon, <1>5, <1>6
<1> QED BY Zenon, <1>1, <1>2, <1>4, <1>6, <1>7, <1>8, ClientLeaves

LEMMA ClientInitAnsweredPreserves ==
    ASSUME CommandInv, NEW c \in Clients, ClientInitAnswered(c)
    PROVE  CommandInv'
<1>1. /\ UNCHANGED <<calls, num, backlog, serverVars, handlerVars, stopVars>>
      /\ cpc[c] = "init_resp" /\ RecvMsg(sock[c], "client")
  BY Zenon DEF ClientInitAnswered
<1>2. hpc' = hpc /\ hmsg' = hmsg /\ owed' = owed
  BY <1>1 DEF handlerVars
<1>3. ClientType /\ owed \in [Clients -> Int] /\ result[c] = "none" /\ owed[c] = 0
  BY Zenon, <1>1, ClientBefore DEF Using
<1>4. CASE /\ Returns(c, "done") /\ UNCHANGED key
           /\ fd' = fd \/ fd' = [fd EXCEPT ![sock[c]]["client"] = "handed"]
  <2>1. /\ ClientType' /\ cpc'[c] = "idle" /\ sock'[c] = NoConn
        /\ \A d \in Clients : d # c => SameCall(d)
    BY Zenon, <1>1, <1>3, <1>4, ReturnsIs
  <2> QED BY Zenon, <1>1, <1>2, <1>3, <1>4, <2>1, AnswerLeaves
<1>5. CASE key' = Set(key, c, sock[c]) /\ Continues(c, "send") /\ UNCHANGED fd
  <2>1. /\ key' \in [Clients -> Conns \cup {NoConn}] /\ key'[c] = sock[c]
        /\ \A d \in Clients : d # c => key'[d] = key[d]
    BY <1>3, <1>5 DEF Set, ClientType
  <2>2. /\ CGoto(c, "send") /\ UNCHANGED <<op, sock, loop, result, left>> /\ "send" \in Using
        /\ left' \in [Clients -> Int]
    BY Zenon, <1>3, <1>5 DEF Continues, Using, ClientType
  <2>3. ClientType' /\ cpc'[c] = "send" /\ \A d \in Clients : d # c => SameCall(d)
    BY Zenon, <1>1, <1>3, <2>1, <2>2, ContinuesIs
  <2> QED BY Zenon, <1>1, <1>2, <1>3, <1>5, <2>1, <2>2, <2>3, AnswerLeaves
<1> QED BY Zenon, <1>4, <1>5 DEF ClientInitAnswered

LEMMA ClientAnsweredPreserves ==
    ASSUME CommandInv, NEW c \in Clients, ClientAnswered(c)
    PROVE  CommandInv'
<1>1. /\ UNCHANGED <<key, calls, fd, num, backlog, serverVars, hpc, hmsg, stopVars>>
      /\ cpc[c] = "resp" /\ RecvMsg(sock[c], "client")
  BY Zenon DEF ClientAnswered
<1>2. /\ CommandType /\ ClientType /\ owed \in [Clients -> Int] /\ OwnConnections /\ result[c] = "none"
      /\ cpc[c] \in Using /\ \A k \in Conns : ConnectionRight(k)
  BY Zenon, <1>1, ClientBefore DEF Using
<1>3. PICK ret : ret = Head(pipe[sock[c]]["client"]).n
  BY Zenon
<1>4. ret \in Int /\ owed[c] = IF ret > 0 THEN ret ELSE 0
  <2>1. PICK k \in Conns : k = sock[c] /\ Owner(k) = c
    BY Zenon, <1>2, SockIs
  <2>2. AtHand(k)' <=> AtHand(k)
    BY Zenon, <1>1, SameServer
  <2>3. Head(pipe[k]["client"]) \in Messages /\ owed[c] = Bytes(Head(pipe[k]["client"]))
    BY Zenon, <1>1, <1>2, <2>1, <2>2, AnswerTaken
  <2> QED BY Zenon, <1>3, <2>1, <2>3, MessageFields DEF Bytes
<1>5. CASE ret < 0 /\ Returns(c, "done") /\ UNCHANGED owed
  <2>1. /\ ClientType' /\ cpc'[c] = "idle" /\ sock'[c] = NoConn
        /\ \A d \in Clients : d # c => SameCall(d)
    BY Zenon, <1>1, <1>2, <1>5, ReturnsIs
  <2>2. owed[c] = 0
    BY <1>4, <1>5
  <2> QED BY Zenon, <1>1, <1>2, <1>5, <2>1, <2>2, AnswerLeaves
<1>6. CASE ret >= 0 /\ owed' = Set(owed, c, owed[c] - ret)
  <2>1. owed' \in [Clients -> Int] /\ owed'[c] = 0 /\ \A d \in Clients : d # c => owed'[d] = owed[d]
    BY <1>2, <1>4, <1>6 DEF Set
  <2>2. CASE Returns(c, "done")
    <3>1. /\ ClientType' /\ cpc'[c] = "idle" /\ sock'[c] = NoConn
          /\ \A d \in Clients : d # c => SameCall(d)
      BY Zenon, <1>1, <1>2, <2>2, ReturnsIs
    <3> QED BY Zenon, <1>1, <2>1, <3>1, AnswerLeaves
  <2>3. CASE left' = Set(left, c, left[c] - ret) /\ CGoto(c, "send") /\ UNCHANGED <<op, sock, loop, result>>
    <3>1. left' \in [Clients -> Int]
      BY <1>2, <1>4, <2>3 DEF Set, ClientType
    <3>2. key' \in [Clients -> Conns \cup {NoConn}] /\ "send" \in Using
      BY Zenon, <1>1, <1>2 DEF ClientType, Using
    <3>3. ClientType' /\ cpc'[c] = "send" /\ \A d \in Clients : d # c => SameCall(d)
      BY Zenon, <1>1, <1>2, <2>3, <3>1, <3>2, ContinuesIs
    <3> QED BY Zenon, <1>1, <1>2, <2>1, <2>3, <3>3, AnswerLeaves
  <2> QED BY Zenon, <1>3, <1>6, <2>2, <2>3 DEF ClientAnswered
<1> QED BY Zenon, <1>3, <1>5, <1>6 DEF ClientAnswered

LEMMA ClientDisconnectedPreserves ==
    ASSUME CommandInv, NEW c \in Clients, ClientDisconnected(c)
    PROVE  CommandInv'
<1>1. /\ UNCHANGED <<key, calls, pipe, num, backlog, serverVars, handlerVars, stopVars>>
      /\ cpc[c] \in {"init_resp", "resp"} /\ RecvFails(sock[c], "client") /\ Returns(c, "lost")
  BY Zenon DEF ClientDisconnected
<1>2. hpc' = hpc /\ hmsg' = hmsg /\ owed' = owed
  BY <1>1 DEF handlerVars
<1>3. /\ CommandType /\ ClientType /\ owed \in [Clients -> Int] /\ OwnConnections /\ backlog \in Seq(Conns)
      /\ pipe \in [Conns -> [Ends -> Seq(Messages)]]
      /\ cpc[c] \in Using /\ \A k \in Conns : ConnectionRight(k)
  BY Zenon, <1>1, ClientBefore DEF Using
<1>4. PICK k \in Conns : k = sock[c] /\ Owner(k) = c
  BY Zenon, <1>3, SockIs
<1>5. /\ fd' \in [Conns -> [Ends -> FdStates]]
      /\ \A j \in Conns : j # k => fd'[j] = fd[j]
      /\ fd'[k]["daemon"] = fd[k]["daemon"]
      /\ fd'[k]["client"] = "closed" \/ (fd' = fd /\ pipe[k]["client"] # <<>>)
  BY Zenon, <1>1, <1>3, <1>4, ClientReceiveFails
<1>6. fd[k]["client"] = "open"
  BY Zenon, <1>1, <1>3, <1>4 DEF ConnectionRight, OneExchange, Awaited
<1>7. fd'[k]["client"] = "closed"
  <2> SUFFICES ASSUME pipe[k]["client"] # <<>> PROVE FALSE
    BY Zenon, <1>5
  <2>1. Head(pipe[k]["client"]) \in Messages /\ In(pipe[k]["client"], Head(pipe[k]["client"]))
    BY <1>3, PipesAre, InTail
  <2>2. Head(pipe[k]["client"]).kind = "resp"
    BY Zenon, <1>3, <2>1 DEF ConnectionRight, MessagesOwned
  <2> QED BY <1>1, <1>4, <1>6, <2>2 DEF RecvFails, Complete
<1>8. /\ ClientType' /\ cpc'[c] = "idle" /\ result'[c] = "lost" /\ sock'[c] = NoConn
      /\ \A d \in Clients : d # c => SameCall(d)
  BY Zenon, <1>1, <1>3, ReturnsIs
<1>9. ConnectionRight(k)'
  <2>1. CommandType' /\ SameMessages(k)
    BY Zenon, <1>1, <1>2, <1>3, <1>5, <1>8, ClientTypes
  <2> QED BY Zenon, <1>1, <1>3, <1>4, <1>7, <1>8, <2>1, LostRight
<1>10. fd'[k]["client"] = "none" <=> fd[k]["client"] = "none"
  BY Zenon, <1>6, <1>7
<1> QED BY Zenon, <1>1, <1>2, <1>3, <1>4, <1>5, <1>8, <1>9, <1>10, ClientLeaves

\* A new connection is put at the end of the backlog.
LEMMA AppendNew ==
    ASSUME NEW s \in Seq(Conns), NEW k \in Conns, ~In(s, k),
           \A i, j \in 1 .. Len(s) : s[i] = s[j] => i = j
    PROVE  /\ Append(s, k) \in Seq(Conns)
           /\ \A j : In(Append(s, k), j) <=> In(s, j) \/ j = k
           /\ \A i, j \in 1 .. Len(Append(s, k)) : Append(s, k)[i] = Append(s, k)[j] => i = j
<1>1. Append(s, k) \in Seq(Conns) /\ \A j : In(Append(s, k), j) <=> In(s, j) \/ j = k
  BY InAppend
<1>2. /\ Len(Append(s, k)) = Len(s) + 1 /\ Len(s) \in Nat
      /\ \A i \in 1 .. Len(s) : Append(s, k)[i] = s[i] /\ s[i] # k
      /\ Append(s, k)[Len(s) + 1] = k
  BY DEF In
<1> QED BY <1>1, <1>2

\* The connections of a client whose call makes a connection, or finds that it cannot.
LEMMA ConnectRight ==
    ASSUME CommandInv, NEW c \in Clients, cpc[c] = "connect", UNCHANGED <<calls, key, pipe>>, CommandType',
           NEW k \in Conns, Owner(k) = c, SameMessages(k), cpc'[c] \in {"init", "idle"},
           \/ fd'[k] = fd[k] /\ sock'[c] # k
           \/ fd[k]["client"] = "none"
    PROVE  ConnectionRight(k)'
<1>1. CommandType /\ ConnectionRight(k)
  BY Zenon DEF CommandInv
<1>2. ~Awaited(k) /\ ~Awaited(k)' /\ cpc[Owner(k)] \notin {"dead", "idle"}
  BY Zenon DEF Awaited
<1>3. Usable(k)' => Usable(k)
  BY Zenon, <1>2 DEF Usable
<1> QED BY Zenon, <1>1, <1>2, <1>3, UnusedRight

LEMMA ConnectPreserves ==
    ASSUME CommandInv, NEW c \in Clients, Connect(c)
    PROVE  CommandInv'
<1>1. /\ UNCHANGED <<key, calls, pipe, num, serverVars, handlerVars, stopVars>> /\ cpc[c] = "connect"
  BY Zenon DEF Connect
<1>2. hpc' = hpc /\ hmsg' = hmsg /\ owed' = owed
  BY <1>1 DEF handlerVars
<1>3. /\ CommandType /\ ClientType /\ owed \in [Clients -> Int] /\ OwnConnections /\ backlog \in Seq(Conns)
      /\ fd \in [Conns -> [Ends -> FdStates]] /\ pipe \in [Conns -> [Ends -> Seq(Messages)]]
      /\ result[c] = "none" /\ owed[c] = 0 /\ ConnectionsPass /\ Made(c)
      /\ (key[c] # NoConn => Owner(key[c]) = c)
  BY Zenon, <1>1, ClientBefore
<1>4. CASE /\ srvsock # "listening" /\ Returns(c, "done") /\ UNCHANGED <<fd, backlog>>
  <2>1. /\ ClientType' /\ cpc'[c] = "idle" /\ sock'[c] = NoConn
        /\ \A d \in Clients : d # c => SameCall(d)
    BY Zenon, <1>1, <1>3, <1>4, ReturnsIs
  <2>2. CommandType' /\ \A k : SameMessages(k)
    BY Zenon, <1>1, <1>2, <1>3, <1>4, <2>1, ClientTypes
  <2>3. ConnectionsPass'
    <3>1. \A k \in Conns : Fresh(k)' => Fresh(k)
      BY Zenon, <1>1, <2>1, FreshStays DEF SameCall
    <3> QED BY Zenon, <1>1, <1>2, <1>3, <1>4, <3>1, ClientPass
  <2>4. ASSUME NEW k \in Conns, Owner(k) = c PROVE ConnectionRight(k)'
    <3>1. sock'[c] # k
      BY Zenon, <2>1, ConnsAre
    <3> QED BY Zenon, <1>1, <1>4, <2>1, <2>2, <2>4, <3>1, ConnectRight
  <2>5. \A d \in Clients : d # c => SameClient(d)
    BY Zenon, <1>2, <2>1 DEF SameClient
  <2>6. Made(c)'
    <3>1. \A k \in Conns : k # NoConn
      BY Zenon, ConnsAre
    <3> QED BY Zenon, <1>1, <1>3, <1>4, <2>1, <3>1 DEF Made
  <2>7. cpc'[c] \notin Using \cup {"connect"}
    BY Zenon, <2>1 DEF Using
  <2> QED BY Zenon, <1>1, <1>2, <1>3, <1>4, <2>1, <2>2, <2>3, <2>4, <2>5, <2>6, <2>7, ClientActs
<1>5. CASE srvsock = "listening"
  <2>1. PICK k \in Conns : k = <<c, calls[c]>> /\ Owner(k) = c /\ k[2] = calls[c]
    <3>1. calls[c] \in 1 .. MaxCalls[c]
      BY Zenon, <1>1, <1>3 DEF OwnConnections
    <3> QED BY Zenon, <3>1, ConnOf
  <2>2. /\ fd' = [fd EXCEPT ![k] = [client |-> "open", daemon |-> "queued"]]
        /\ backlog' = Append(backlog, k) /\ sock' = [sock EXCEPT ![c] = k]
        /\ cpc' = [cpc EXCEPT ![c] = "init"] /\ UNCHANGED <<op, left, loop, result>>
    BY Zenon, <1>5, <2>1 DEF Connect, Set, CGoto
  <2>3. fd[k]["client"] = "none" /\ fd[k]["daemon"] = "none" /\ hpc[k] = "none" /\ ~In(backlog, k)
    <3>1. Fresh(k)
      BY Zenon, <1>1, <2>1 DEF Fresh
    <3> QED BY Zenon, <1>3, <3>1 DEF ConnectionsPass
  <2>4. /\ fd' \in [Conns -> [Ends -> FdStates]]
        /\ \A j \in Conns : j # k => fd'[j] = fd[j]
        /\ fd'[k]["client"] = "open" /\ fd'[k]["daemon"] = "queued"
    <3>1. [client |-> "open", daemon |-> "queued"] \in [Ends -> FdStates]
      BY DEF Ends, FdStates
    <3> QED BY <1>3, <2>2, <3>1
  <2>5. /\ backlog' \in Seq(Conns)
        /\ \A j : In(backlog', j) <=> In(backlog, j) \/ j = k
        /\ \A i, j \in 1 .. Len(backlog') : backlog'[i] = backlog'[j] => i = j
    <3>1. \A i, j \in 1 .. Len(backlog) : backlog[i] = backlog[j] => i = j
      BY Zenon, <1>3 DEF ConnectionsPass
    <3>2. /\ Append(backlog, k) \in Seq(Conns)
          /\ \A j : In(Append(backlog, k), j) <=> In(backlog, j) \/ j = k
          /\ \A i, j \in 1 .. Len(Append(backlog, k)) :
                 Append(backlog, k)[i] = Append(backlog, k)[j] => i = j
      BY Zenon, <1>3, <2>3, <3>1, AppendNew
    <3> QED BY Zenon, <2>2, <3>2
  <2>6. /\ ClientType' /\ cpc'[c] = "init" /\ sock'[c] = k /\ result'[c] = "none"
        /\ \A d \in Clients : d # c => SameCall(d)
    <3>1. /\ cpc' \in [Clients -> {"idle", "connect", "dead"} \cup Using] /\ cpc'[c] = "init"
          /\ \A d \in Clients : d # c => cpc'[d] = cpc[d]
      BY <1>3, <2>2 DEF ClientType, Using
    <3>2. /\ sock' \in [Clients -> Conns \cup {NoConn}] /\ sock'[c] = k
          /\ \A d \in Clients : d # c => sock'[d] = sock[d]
      BY <1>3, <2>2 DEF ClientType
    <3> QED BY Zenon, <1>1, <1>3, <2>2, <3>1, <3>2 DEF ClientType, SameCall
  <2>7. CommandType' /\ \A j : SameMessages(j)
    BY Zenon, <1>1, <1>2, <1>3, <2>4, <2>5, <2>6, ClientTypes
  <2>8. ConnectionsPass'
    <3>1. ~Fresh(k)' /\ \A j \in Conns : Fresh(j)' => Fresh(j)
      <4>1. \A j \in Conns : Fresh(j)' => Fresh(j)
        BY Zenon, <1>1, <2>6, FreshStays DEF SameCall
      <4>2. calls[c] \in Nat /\ ~(calls[c] > calls[c])
        BY <1>3, ClientIs
      <4> QED BY Zenon, <1>1, <2>1, <2>6, <4>1, <4>2 DEF Fresh
    <3>2. ASSUME NEW j \in Conns
          PROVE  /\ fd'[j]["client"] = "none" <=> fd'[j]["daemon"] = "none"
                 /\ Fresh(j)' => fd'[j]["client"] = "none"
                 /\ fd'[j]["daemon"] \in {"none", "queued", "handed"} => hpc'[j] = "none"
                 /\ In(backlog', j) => fd'[j]["daemon"] = "queued"
      <4>1. CASE j = k
        BY Zenon, <1>2, <2>3, <2>4, <3>1, <4>1
      <4>2. CASE j # k
        <5>1. fd'[j] = fd[j]
          BY Zenon, <2>4, <3>2, <4>2
        <5> QED BY ZenonT(30), <1>2, <1>3, <2>5, <3>1, <3>2, <4>2, <5>1 DEF ConnectionsPass
      <4> QED BY Zenon, <4>1, <4>2
    <3>3. spc' \in {"recv", "init"} =>
             scur' \in Conns /\ fd'[scur']["daemon"] = "open" /\ hpc'[scur'] = "none"
      <4>1. spc' = spc /\ scur' = scur
        BY Zenon, <1>1, SameServer
      <4>2. spc \in {"recv", "init"} =>
               scur \in Conns /\ fd[scur]["daemon"] = "open" /\ hpc[scur] = "none" /\ scur # k
        BY Zenon, <1>3, <2>3 DEF ConnectionsPass
      <4> QED BY Zenon, <1>2, <2>4, <4>1, <4>2
    <3> QED BY Zenon, <2>5, <3>2, <3>3 DEF ConnectionsPass
  <2>9. ASSUME NEW j \in Conns, Owner(j) = c PROVE ConnectionRight(j)'
    <3>1. \/ fd'[j] = fd[j] /\ sock'[c] # j
          \/ fd[j]["client"] = "none"
      BY Zenon, <2>3, <2>4, <2>6, <2>9
    <3> QED BY Zenon, <1>1, <2>6, <2>7, <2>9, <3>1, ConnectRight
  <2>10. \A d \in Clients : d # c => SameClient(d)
    BY Zenon, <1>2, <2>6 DEF SameClient
  <2>11. \A j \in Conns : /\ Owner(j) # c => fd'[j] = fd[j] /\ pipe'[j] = pipe[j]
                          /\ fd'[j]["daemon"] = fd[j]["daemon"] \/ fd'[j]["daemon"] = "queued"
                          /\ fd[j]["client"] # "none" => fd'[j]["client"] # "none"
    BY Zenon, <1>1, <2>1, <2>4
  <2>12. Made(c)'
    BY Zenon, <1>1, <1>3, <2>4, <2>6 DEF Made
  <2>13. k # NoConn
    BY Zenon, ConnsAre
  <2> QED BY Zenon, <1>1, <1>2, <1>3, <2>1, <2>3, <2>4, <2>6, <2>7, <2>8, <2>9, <2>10, <2>11, <2>12, <2>13,
             ClientActs
<1> QED BY Zenon, <1>4, <1>5 DEF Connect

\* What was sent before the end of an application is of the call it has ended in.
LEMMA CutRight ==
    ASSUME NEW c \in Clients, NEW k \in Conns, Owner(k) = c, ConnectionRight(k), CommandType,
           NEW m \in Messages, m.by = c, m.id = calls[c], calls' = calls,
           pipe'[k]["daemon"] = Append(pipe[k]["daemon"], m), pipe'[k]["client"] = pipe[k]["client"],
           hpc'[k] = hpc[k], hmsg'[k] = hmsg[k], AtHand(k)' <=> AtHand(k), sreq' = sreq,
           fd'[k]["client"] = "closed", cpc'[c] = "dead"
    PROVE  ConnectionRight(k)'
<1>1. ~Awaited(k)' /\ ~Usable(k)' /\ \A x : InTime(k, x)'
  BY Zenon DEF Awaited, Usable, InTime
<1>2. \A x : In(pipe'[k]["daemon"], x) <=> In(pipe[k]["daemon"], x) \/ x = m
  <2>1. pipe[k]["daemon"] \in Seq(Messages)
    BY Zenon, PipesAre
  <2>2. \A x : In(Append(pipe[k]["daemon"], m), x) <=> In(pipe[k]["daemon"], x) \/ x = m
    BY Zenon, <2>1, PipeAppend
  <2> QED BY Zenon, <2>2
<1>3. (Held(k)' <=> Held(k)) /\ \A x : On(k, x)' => On(k, x) \/ x = m
  BY Zenon, <1>2 DEF On, Held
<1>4. m.id <= calls[c]
  BY MessageFields
<1>5. \A x \in Messages : On(k, x)' => x.by = c /\ x.id <= calls'[c]
  BY Zenon, <1>3, <1>4 DEF ConnectionRight, MessagesOwned
<1>6. MessagesOwned(k)'
  BY Zenon, <1>1, <1>3, <1>5 DEF ConnectionRight, MessagesOwned
<1> QED BY Zenon, <1>1, <1>6 DEF ConnectionRight, UsableQuiet, OneExchange

LEMMA DiePreserves ==
    ASSUME CommandInv, NEW c \in Clients, Die(c)
    PROVE  CommandInv'
<1>1. /\ UNCHANGED <<calls, result, num, backlog, serverVars, hpc, hmsg, stopVars>>
      /\ cpc' = [cpc EXCEPT ![c] = "dead"]
      /\ op' = [op EXCEPT ![c] = "none"] /\ key' = [key EXCEPT ![c] = NoConn]
      /\ sock' = [sock EXCEPT ![c] = NoConn] /\ left' = [left EXCEPT ![c] = 0]
      /\ loop' = [loop EXCEPT ![c] = FALSE] /\ owed' = [owed EXCEPT ![c] = 0]
  BY Zenon DEF Die, CGoto, Set
<1>2. /\ CommandType /\ ClientType /\ owed \in [Clients -> Int] /\ OwnConnections /\ backlog \in Seq(Conns)
      /\ pipe \in [Conns -> [Ends -> Seq(Messages)]] /\ ConnectionsPass
      /\ \A k \in Conns : ConnectionRight(k)
  BY Zenon, ClientBefore
<1>3. /\ fd' \in [Conns -> [Ends -> FdStates]]
      /\ \A j \in Conns : /\ fd'[j]["daemon"] = fd[j]["daemon"]
                          /\ Owner(j) # c => fd'[j] = fd[j]
                          /\ Owner(j) = c => \/ fd'[j]["client"] = "closed" /\ fd[j]["client"] # "none"
                                             \/ fd'[j] = fd[j] /\ fd[j]["client"] = "none"
  <2>1. PICK B : B = {j \in Conns : Owner(j) = c /\ fd[j]["client"] # "none"}
    BY Zenon
  <2>2. fd' = [j \in Conns |-> IF j \in B THEN [fd[j] EXCEPT !["client"] = "closed"] ELSE fd[j]]
    BY <2>1 DEF Die
  <2>3. /\ fd' \in [Conns -> [Ends -> FdStates]]
        /\ \A j \in Conns : j \notin B => fd'[j] = fd[j]
        /\ \A j \in B \cap Conns : fd'[j]["client"] = "closed" /\ fd'[j]["daemon"] = fd[j]["daemon"]
    BY Zenon, <1>2, <2>2, ClientEnds
  <2>4. \A j \in Conns : j \in B <=> Owner(j) = c /\ fd[j]["client"] # "none"
    BY Zenon, <2>1
  <2> HIDE DEF Owner
  <2> QED BY Zenon, <2>3, <2>4
<1>4. /\ ClientType' /\ cpc'[c] = "dead" /\ key'[c] = NoConn /\ sock'[c] = NoConn
      /\ owed' \in [Clients -> Int] /\ owed'[c] = 0
      /\ \A d \in Clients : d # c => SameClient(d)
  <2>0. "none" \in Kinds
    BY DEF Kinds
  <2>1. ClientType'
    BY SMTT(20), <1>1, <1>2, <2>0 DEF ClientType
  <2>2. /\ cpc'[c] = "dead" /\ key'[c] = NoConn /\ sock'[c] = NoConn
        /\ owed' \in [Clients -> Int] /\ owed'[c] = 0
    BY <1>1, <1>2 DEF ClientType
  <2>3. \A d \in Clients : d # c => /\ cpc'[d] = cpc[d] /\ key'[d] = key[d] /\ sock'[d] = sock[d]
                                    /\ owed'[d] = owed[d]
    BY <1>1, <1>2 DEF ClientType
  <2> QED BY Zenon, <1>1, <2>1, <2>2, <2>3 DEF SameClient, SameCall
<1>5. PICK m \in Messages : m.by = c /\ m.id = calls[c] /\ m = Message("cut", c, 0)
  <2>1. "cut" \in Kinds /\ 0 \in Int
    BY DEF Kinds
  <2> QED BY <1>2, <2>1, MessageIs
<1>6. /\ pipe' \in [Conns -> [Ends -> Seq(Messages)]]
      /\ \A j \in Conns : \/ pipe'[j] = pipe[j]
                          \/ /\ Owner(j) = c /\ fd[j]["client"] # "none"
                             /\ pipe'[j]["daemon"] = Append(pipe[j]["daemon"], m)
                             /\ pipe'[j]["client"] = pipe[j]["client"]
  <2>1. CASE pipe' = pipe
    BY Zenon, <1>2, <2>1
  <2>2. CASE /\ cpc[c] \in {"init", "send"} /\ CanSend(sock[c], "client")
             /\ pipe' = [pipe EXCEPT ![sock[c]]["daemon"] = Append(pipe[sock[c]]["daemon"], m)]
    <3>1. PICK k \in Conns : k = sock[c] /\ Owner(k) = c
      BY Zenon, <1>2, <2>2, SockIs DEF Using
    <3>2. PICK y \in Seq(Messages) : y = Append(pipe[k]["daemon"], m)
      BY Zenon, <1>2, PipesAre, PipeAppend
    <3>3. pipe' = [pipe EXCEPT ![k]["daemon"] = y]
      BY Zenon, <2>2, <3>1, <3>2
    <3>4. /\ pipe' \in [Conns -> [Ends -> Seq(Messages)]]
          /\ \A j \in Conns : j # k => pipe'[j] = pipe[j]
          /\ pipe'[k]["client"] = pipe[k]["client"] /\ pipe'[k]["daemon"] = y
      BY SMTT(20), <1>2, <3>3, TwoEnds, SetEnd
    <3>5. fd[k]["client"] # "none"
      BY Zenon, <2>2, <3>1 DEF CanSend
    <3> QED BY Zenon, <3>1, <3>2, <3>4, <3>5
  <2> QED BY Zenon, <1>5, <2>1, <2>2 DEF Die
<1>7. /\ CommandType' /\ (\A k : AtHand(k)' <=> AtHand(k)) /\ sreq' = sreq
      /\ \A k : pipe'[k] = pipe[k] => SameMessages(k)
  BY Zenon, <1>1, <1>2, <1>3, <1>4, <1>6, ClientTypes, SameServer
<1>8. ConnectionsPass'
  <2>1. \A k \in Conns : Fresh(k)' => Fresh(k)
    BY Zenon, <1>1, <1>4, FreshStays DEF SameClient, SameCall
  <2>2. \A k \in Conns : fd'[k]["client"] = "none" <=> fd[k]["client"] = "none"
    BY Zenon, <1>3
  <2> QED BY Zenon, <1>1, <1>2, <1>3, <2>1, <2>2, ClientPass
<1>9. ASSUME NEW k \in Conns, Owner(k) = c PROVE ConnectionRight(k)'
  <2>1. CASE pipe'[k] # pipe[k]
    <3>1. fd'[k]["client"] = "closed"
      BY Zenon, <1>3, <1>6, <1>9, <2>1
    <3> QED BY Zenon, <1>1, <1>2, <1>4, <1>5, <1>6, <1>7, <1>9, <2>1, <3>1, CutRight
  <2>2. CASE pipe'[k] = pipe[k] /\ fd'[k]["client"] = "closed"
    BY Zenon, <1>1, <1>2, <1>4, <1>7, <1>9, <2>2, LostRight
  <2>3. CASE pipe'[k] = pipe[k] /\ fd[k]["client"] = "none"
    <3>1. Quiet(k)'
      <4>1. Quiet(k)
        BY Zenon, <1>2, <2>3 DEF ConnectionRight, UsableQuiet, Usable
      <4> QED BY Zenon, <1>7, <2>3, <4>1, SamePlaces
    <3>2. ~Awaited(k)'
      BY Zenon, <1>4, <1>9 DEF Awaited
    <3> QED BY Zenon, <3>1, <3>2, QuietRight
  <2> QED BY Zenon, <1>3, <1>9, <2>1, <2>2, <2>3
<1>10. \A k \in Conns : /\ Owner(k) # c => fd'[k] = fd[k] /\ pipe'[k] = pipe[k]
                        /\ fd[k]["client"] # "none" => fd'[k]["client"] # "none"
  BY Zenon, <1>3, <1>6
<1>11. Made(c)'
  <2>1. \A k \in Conns : k # NoConn
    BY Zenon, ConnsAre
  <2> QED BY Zenon, <1>4, <2>1 DEF Made
<1>12. cpc'[c] \notin Using \cup {"connect"}
  BY Zenon, <1>4 DEF Using
<1> QED BY Zenon, <1>1, <1>3, <1>4, <1>7, <1>8, <1>9, <1>10, <1>11, <1>12, ClientActs

-----------------------------------------------------------------------------
(* accept(): the number of a new connection.                               *)

INSTANCE FiniteSetTheorems

\* The kernel finds a number: there are as many as connections, and one connection more
\* than those in use.
LEMMA ConnsFinite == IsFiniteSet(Conns)
<1> DEFINE Of(c) == {<<c, n>> : n \in 1 .. MaxCalls[c]}
<1> DEFINE T == {Of(c) : c \in Clients}
<1> DEFINE f == [c \in Clients |-> Of(c)]
<1>1. f \in Surjection(Clients, T)
  BY Zenon DEF Surjection
<1>2. IsFiniteSet(T)
  <2> HIDE DEF f, T
  <2> QED BY Zenon, <1>1, CommandAssumption, FS_Surjection
<1>3. ASSUME NEW c \in Clients PROVE IsFiniteSet(Of(c))
  <2> DEFINE g == [n \in 1 .. MaxCalls[c] |-> <<c, n>>]
  <2>1. g \in Surjection(1 .. MaxCalls[c], Of(c))
    BY Zenon DEF Surjection
  <2>2. IsFiniteSet(1 .. MaxCalls[c])
    <3>1. 1 \in Int /\ MaxCalls[c] \in Int
      BY CommandAssumption
    <3> QED BY Zenon, <3>1, FS_Interval
  <2> HIDE DEF g, Of
  <2> QED BY Zenon, <2>1, <2>2, FS_Surjection
<1>4. Conns = UNION T
  BY Zenon DEF Conns
<1>5. \A S \in T : IsFiniteSet(S)
  <2> HIDE DEF Of
  <2> QED BY Zenon, <1>3
<1> HIDE DEF T
<1> QED BY Zenon, <1>2, <1>4, <1>5, FS_UNION

LEMMA LeastOf ==
    ASSUME NEW S, S \subseteq Nat, S # {}
    PROVE  \E x \in S : \A y \in S : x <= y
<1> DEFINE Less == OpToRel(<, Nat)
<1>1. PICK x \in S : \A y \in S : ~(<<y, x>> \in Less)
  BY NatLessThanWellFounded, WFMin, Zenon
<1>2. Less = {p \in Nat \X Nat : p[1] < p[2]}
  BY Zenon DEF OpToRel
<1> HIDE DEF Less
<1>3. ASSUME NEW y \in S PROVE x <= y
  <2>1. x \in Nat /\ y \in Nat
    BY Zenon
  <2>2. y < x => <<y, x>> \in Less
    BY Zenon, <1>2, <2>1
  <2> QED BY SMTT(20), <1>1, <2>1, <2>2
<1> QED BY Zenon, <1>3

LEMMA LeastFreeIsFree ==
    ASSUME CommandType, NEW q \in Conns, fd[q]["daemon"] \notin InUse
    PROVE  /\ LeastFree \in Nat
           /\ \A k \in Conns : fd[k]["daemon"] \in InUse => num[k] # LeastFree
<1> DEFINE U == {j \in Conns : fd[j]["daemon"] \in {"open", "shut", "handed"}}
<1> DEFINE used == {num[k] : k \in U}
<1> DEFINE N == Cardinality(Conns)
<1>1. IsFiniteSet(U) /\ Cardinality(U) < N /\ N \in Nat
  <2>1. U \in SUBSET Conns /\ U # Conns
    BY Zenon DEF InUse
  <2> HIDE DEF U
  <2>2. IsFiniteSet(U) /\ Cardinality(U) <= N /\ N # Cardinality(U)
    BY Zenon, <2>1, ConnsFinite, FS_Subset
  <2>3. N \in Nat /\ Cardinality(U) \in Nat
    BY Zenon, <2>2, ConnsFinite, FS_CardinalityType
  <2> QED BY SMTT(20), <2>2, <2>3
<1>2. IsFiniteSet(used) /\ Cardinality(used) <= Cardinality(U)
  <2> DEFINE f == [k \in U |-> num[k]]
  <2>1. f \in Surjection(U, used)
    BY Zenon DEF Surjection
  <2> HIDE DEF f, used, U
  <2> QED BY Zenon, <1>1, <2>1, FS_Surjection
<1> HIDE DEF U, used, N
<1> DEFINE S == {n \in 1 .. N : n \notin used}
<1>3. S # {}
  <2> SUFFICES ASSUME S = {} PROVE FALSE
    OBVIOUS
  <2>1. 1 .. N \in SUBSET used
    BY Zenon
  <2>2. Cardinality(1 .. N) <= Cardinality(used)
    BY Zenon, <1>2, <2>1, FS_Subset
  <2>3. Cardinality(1 .. N) = N
    <3>1. 1 \in Int /\ N \in Int
      BY <1>1
    <3>2. Cardinality(1 .. N) = IF 1 > N THEN 0 ELSE N - 1 + 1
      BY Zenon, <3>1, FS_Interval
    <3> QED BY SMTT(20), <1>1, <3>2
  <2>4. Cardinality(used) \in Nat /\ Cardinality(U) \in Nat
    BY Zenon, <1>1, <1>2, FS_CardinalityType
  <2> QED BY SMTT(20), <1>1, <1>2, <2>2, <2>3, <2>4
<1>4. PICK x \in S : \A y \in S : x <= y
  <2>1. S \subseteq Nat
    BY <1>1
  <2> HIDE DEF S
  <2> QED BY Zenon, <1>3, <2>1, LeastOf
<1>5. x \in 1 .. N /\ x \notin used /\ \A m \in 1 .. x - 1 : m \in used
  <2>1. x \in 1 .. N /\ x \notin used
    BY Zenon
  <2>2. ASSUME NEW m \in 1 .. x - 1 PROVE m \in used
    <3>1. m \in 1 .. N /\ ~(x <= m)
      BY SMTT(20), <1>1, <2>1
    <3> QED BY Zenon, <1>4, <3>1
  <2> QED BY Zenon, <2>1, <2>2
<1> DEFINE P(n) == n \notin used /\ \A m \in 1 .. n - 1 : m \in used
<1>6. LeastFree = CHOOSE n \in 1 .. N : P(n)
  BY Zenon DEF LeastFree, U, used, N
<1>7. LeastFree \in 1 .. N /\ LeastFree \notin used
  BY Zenon, <1>5, <1>6
<1>8. LeastFree \in Nat
  BY SMTT(20), <1>1, <1>7
<1>9. ASSUME NEW k \in Conns, fd[k]["daemon"] \in InUse PROVE num[k] # LeastFree
  BY Zenon, <1>7, <1>9 DEF used, U, InUse
<1> QED BY Zenon, <1>8, <1>9

LEMMA AcceptPreserves ==
    ASSUME CommandInv, Accept
    PROVE  CommandInv'
<1>1. CommandType
  BY Zenon DEF CommandInv
<1> QED BY Zenon, <1>1, LeastFreeIsFree, AcceptKeeps

-----------------------------------------------------------------------------
(* The invariant.                                                          *)

LEMMA NextPreserves ==
    ASSUME CommandInv, Next
    PROVE  CommandInv'
<1>1. ASSUME NEW c \in Clients, Calls(c) \/ ClientStep(c) \/ Die(c) PROVE CommandInv'
  BY Zenon, <1>1, CallsPreserve, ConnectPreserves, ClientSendPreserves, ClientInitAnsweredPreserves,
     ClientAnsweredPreserves, ClientDisconnectedPreserves, DiePreserves DEF ClientStep
<1>2. ASSUME ServerStep PROVE CommandInv'
  BY Zenon, <1>2, AcceptPreserves, AcceptFailsPreserves, ServerRecvPreserves, ServerRecvFailsPreserves,
     StartHandlerPreserves, StartHandlerFailsPreserves, DebugConnectionPreserves, RejectLeadPreserves,
     ShutdownHandlerPreserves, JoinHandlerPreserves, ServerExitsPreserves DEF ServerStep
<1>3. ASSUME NEW k \in Conns, HandlerStep(k) PROVE CommandInv'
  BY Zenon, <1>3, HandlerRecvPreserves, HandlerRecvFailsPreserves, HandlerLockPreserves,
     HandlerRunPreserves, HandlerRespondPreserves DEF HandlerStep
<1> QED BY Zenon, <1>1, <1>2, <1>3, StopPreserves DEF Next

LEMMA AlwaysRight == Spec => []CommandInv
<1>1. CommandInv /\ [Next]_vars => CommandInv'
  BY Zenon, NextPreserves, StutterPreserves
<1> QED BY PTL, InitRight, <1>1 DEF Spec

-----------------------------------------------------------------------------
(* The theorems.                                                           *)

\* chitcpd_send_and_recv_msg reads the response to the request it has just sent, whatever
\* the threads and the other calls of its thread do, and wherever an earlier exchange was
\* cut off: for any number of threads and calls.
THEOREM AnswersOwn == Spec => []AnswerIsOwn
<1>1. CommandInv => AnswerIsOwn
  <2> SUFFICES ASSUME CommandInv, NEW c \in Clients, cpc[c] \in {"init_resp", "resp"},
                      NEW i \in 1 .. Len(pipe[sock[c]]["client"])
               PROVE  /\ pipe[sock[c]]["client"][i].by = c
                      /\ pipe[sock[c]]["client"][i].id = calls[c]
    BY Zenon DEF AnswerIsOwn
  <2>1. CommandType /\ OwnConnections /\ (\A k \in Conns : ConnectionRight(k)) /\ cpc[c] \in Using
    BY Zenon DEF CommandInv, Using
  <2>2. PICK k \in Conns : k = sock[c] /\ Owner(k) = c
    BY Zenon, <2>1, SockIs
  <2>3. PICK m : m = pipe[k]["client"][i] /\ In(pipe[k]["client"], m)
    BY Zenon, <2>2 DEF In
  <2>4. m \in Messages
    BY SMTT(20), <2>1, <2>2, <2>3, PipesAre
  <2>5. m.by = c
    BY Zenon, <2>1, <2>2, <2>3, <2>4 DEF ConnectionRight, MessagesOwned, On
  <2>6. m.id = calls[c]
    <3>1. Awaited(k)
      BY Zenon, <2>2 DEF Awaited
    <3>2. pipe[k]["client"] # <<>>
      BY Zenon, <2>3, InEmpty
    <3>3. PICK x \in Messages : x.id = calls[c] /\ At(k, x)
      BY Zenon, <2>1, <2>2, <3>1, <3>2 DEF ConnectionRight, OneExchange, Quiet
    <3>4. pipe[k]["client"] = <<x>>
      BY Zenon, <3>2, <3>3 DEF At, Unread, InServer, InHandler, Answered
    <3>5. m = x
      <4>1. \A y : In(<<x>>, y) <=> y = x
        BY Zenon, OneMessage
      <4> QED BY Zenon, <2>3, <3>4, <4>1
    <3> QED BY Zenon, <3>3, <3>5
  <2> QED BY Zenon, <2>2, <2>3, <2>5, <2>6
<1> QED BY PTL, AlwaysRight, <1>1

\* chisocket_send and chisocket_recv, and the loops around them, count what the daemon has
\* moved for the call, unless the call was told that the connection was lost: for any
\* lengths, also when the daemon moves less than was asked for.
THEOREM BytesCounted == Spec => []BytesAccounted
<1>1. CommandInv => BytesAccounted
  <2>1. \A c \in Clients : cpc[c] \in {"idle", "send"} => cpc[c] # "resp"
    BY Zenon
  <2> QED BY Zenon, <2>1 DEF CommandInv, NothingElseOwed, BytesAccounted
<1> QED BY PTL, AlwaysRight, <1>1

\* chitcpd_server_thread_func joins every handler thread it has started before it exits, so
\* that when chitcpd_server_stop has returned none can use what chitcpd_server_free frees.
THEOREM StoppedQuietly == Spec => []StoppedMeansQuiet
<1>1. CommandInv => StoppedMeansQuiet
  <2> SUFFICES ASSUME CommandInv, state = "STOPPED", srvsock # "closed", NEW k \in Conns
               PROVE  hpc[k] \in {"none", "exited"}
    BY Zenon DEF StoppedMeansQuiet
  <2>1. handlers = <<>>
    BY Zenon DEF CommandInv, HandlersListed
  <2> QED BY Zenon, <2>1, InEmpty DEF CommandInv, HandlersListed
<1> QED BY PTL, AlwaysRight, <1>1

\* The handler_lock that chitcpd_server_thread_func takes before it shuts down the socket of a
\* handler thread keeps the connection of a command that is executed or answered, unless the
\* shutdown hits it because the socket it is meant for was closed and its number given again:
\* that is the only way, for any number of connections.
THEOREM ShutdownRespectsCommands == Spec => ShutdownBetweenCommands
<1> DEFINE Between == \A k \in Conns :
                          fd[k]["daemon"] = "open" /\ fd'[k]["daemon"] = "shut" =>
                              \/ hpc[k] \notin {"run", "respond"}
                              \/ fd[Head(handlers)]["daemon"] = "closed"
<1>1. CommandInv /\ [Next]_vars => [Between]_vars
  <2> SUFFICES ASSUME CommandInv, Next, NEW k \in Conns,
                      fd[k]["daemon"] = "open", fd'[k]["daemon"] = "shut"
               PROVE  \/ hpc[k] \notin {"run", "respond"}
                      \/ fd[Head(handlers)]["daemon"] = "closed"
    BY Zenon
  <2>1. /\ CommandType /\ HandlersListed /\ ConnectionsPass /\ NumbersDiffer
        /\ handlers \in Seq(Conns) /\ fd \in [Conns -> [Ends -> FdStates]]
    BY Zenon, TypesOf DEF CommandInv, CommandType, ServerType
  <2>2. ASSUME DebugConnection \/ RejectLead PROVE hpc[k] = "none"
    <3>1. spc = "init" /\ \E x : fd' = [fd EXCEPT ![scur]["daemon"] = x]
      BY Zenon, <2>2 DEF DebugConnection, RejectLead
    <3>2. scur \in Conns /\ hpc[scur] = "none"
      BY Zenon, <2>1, <3>1 DEF ConnectionsPass
    <3>3. k = scur
      BY SMTT(20), <2>1, <3>1, <3>2 DEF Ends
    <3> QED BY Zenon, <3>2, <3>3
  <2>3. ASSUME ShutdownHandler, fd[Head(handlers)]["daemon"] # "closed"
        PROVE  hpc[k] \notin {"run", "respond"}
    <3>1. /\ handlers # <<>> /\ ~Locked(Head(handlers))
          /\ Shutdown({j \in Conns : num[j] = num[Head(handlers)]})
      BY Zenon, <2>3 DEF ShutdownHandler
    <3>2. PICK h \in Conns : h = Head(handlers) /\ In(handlers, h)
      BY SMTT(20), <2>1, <3>1, InTail
    <3>3. num[k] = num[h]
      BY SMTT(20), <2>1, <3>1, <3>2 DEF Shutdown
    <3>4. hpc[h] # "none" /\ fd[h]["daemon"] \in FdStates
      <4>1. hpc[h] # "none"
        BY Zenon, <2>1, <3>2 DEF HandlersListed
      <4> QED BY SMTT(20), <2>1, <4>1 DEF Ends
    <3>5. fd[h]["daemon"] \notin {"none", "queued", "handed", "closed"}
      BY Zenon, <2>1, <2>3, <3>2, <3>4 DEF ConnectionsPass
    <3>6. fd[h]["daemon"] \in InUse /\ fd[k]["daemon"] \in InUse
      BY SMTT(20), <3>4, <3>5 DEF InUse, FdStates
    <3>7. h = k
      BY Zenon, <2>1, <3>3, <3>6 DEF NumbersDiffer
    <3> QED BY Zenon, <3>1, <3>2, <3>7 DEF Locked
  <2> QED BY Zenon, <2>2, <2>3, ShutBy
<1> HIDE DEF Between
<1>2. Spec => [][Between]_vars
  BY PTL, AlwaysRight, <1>1 DEF Spec
<1> QED BY Zenon, <1>2 DEF Between, ShutdownBetweenCommands
=============================================================================
