-------------------------- MODULE TcpThread_proofs --------------------------
(***************************************************************************)
(* For any number of threads that deliver segments, send and receive: no   *)
(* segment, no byte and no room is left behind by the event loop.          *)
(***************************************************************************)
EXTENDS TcpThread, TLAPS

\* CONNECT has started the thread, which has not handled the event yet.
Fresh ==
    \/ starting = "app_connect"
    \/ "app_connect" \in flags
    \/ event = "app_connect" /\ tpc = "dispatch"

\* RECV finds no data before the connection is synchronized.
NothingReceivedYet ==
    /\ Fresh => tcp_state = "CLOSED" /\ ~room /\ \A h \in Receivers : pc[h] = "idle"
    /\ tcp_state \in {"LISTEN", "SYN_SENT", "SYN_RCVD"} =>
           ~room /\ \A h \in Receivers : pc[h] \notin {"notify", "raise"}

\* CONNECT raises its flag once.
ConnectOnce ==
    /\ starting = "app_connect" => "app_connect" \notin flags /\ event # "app_connect"
    /\ "app_connect" \in flags => event # "app_connect"

\* The inductive invariant.
LoopInv ==
    /\ TypeOK
    /\ ConnectOnce
    /\ NothingReceivedYet
    /\ NoForgottenSegment
    /\ NoForgottenBytes
    /\ NoForgottenRoom

\* What the transitions allow: none leads back to a state that is not
\* synchronized, and only a segment makes a connection synchronized.
LEMMA CausesFacts ==
    ASSUME NEW e, NEW from, NEW to, Causes(e, from, to)
    PROVE  /\ from = "CLOSED" => e = "app_connect" /\ to = "SYN_SENT"
           /\ e = "app_connect" => to = "SYN_SENT"
           /\ to \in {"LISTEN", "SYN_SENT", "SYN_RCVD"} =>
                 from \in {"CLOSED", "LISTEN", "SYN_SENT"}
           /\ to \in {"ESTABLISHED", "CLOSE_WAIT"} => e = "net_recv"
           /\ to \in {"FIN_WAIT_1", "FIN_WAIT_2"} => from \in {"ESTABLISHED", "FIN_WAIT_1", "FIN_WAIT_2"}
           /\ to = "ESTABLISHED" => from \in {"SYN_SENT", "SYN_RCVD"}
           /\ from # to
BY DEF Causes, NetworkTransitions, CloseTransitions, ConnectTransitions

\* It holds initially, when nothing has arrived, been sent or been received.
LEMMA InitLoopInv == Init => LoopInv
<1> SUFFICES ASSUME Init PROVE LoopInv
  OBVIOUS
<1>1. TypeOK
  <2>1. unseen \in BOOLEAN /\ room \in BOOLEAN /\ freed \in BOOLEAN
    BY Zenon DEF Init
  <2>2. pc \in [Clients -> {"idle", "raise", "write", "notify", "read"}]
    BY DEF Init
  <2>3. segments \in 0..MaxSegments /\ calls \in 0..MaxCalls /\ pending \in Nat
    BY TcpThreadAssumption DEF Init
  <2>4. tcp_state \in TcpStates /\ flags \in SUBSET Events /\ event \in Events
    BY DEF Init, TcpStates, Events
  <2> QED BY <2>1, <2>2, <2>3, <2>4 DEF Init, TypeOK
<1>2. ConnectOnce /\ NothingReceivedYet /\ NoForgottenSegment /\ NoForgottenBytes /\ NoForgottenRoom
  BY DEF Init, ConnectOnce, NothingReceivedYet, Fresh, NoForgottenSegment, NoForgottenBytes, NoForgottenRoom,
         Clients
<1> QED BY <1>1, <1>2 DEF LoopInv

\* The creator of the socket raises the flag it owes.
LEMMA StartPreserves ==
    ASSUME LoopInv, Start
    PROVE  LoopInv'
<1>0. TypeOK /\ ConnectOnce /\ NothingReceivedYet /\ NoForgottenSegment /\ NoForgottenBytes /\ NoForgottenRoom
  BY DEF LoopInv
<1>1. TypeOK'
  BY <1>0, TcpThreadAssumption DEF TypeOK, Clients, Events, TcpStates,
         Start, Raise, threadVars, budget
<1>2. ConnectOnce'
  BY <1>0, TcpThreadAssumption DEF ConnectOnce, TypeOK,
         Start, Raise, threadVars, budget
<1>3. NothingReceivedYet'
  BY <1>0, TcpThreadAssumption DEF NothingReceivedYet, Fresh, TypeOK, Clients,
         Start, Raise, threadVars, budget
<1>4. NoForgottenSegment'
  BY <1>0, TcpThreadAssumption DEF NoForgottenSegment, Rechecks, TypeOK, Clients,
         Start, Raise, threadVars, budget
<1>5. NoForgottenBytes'
  BY <1>0, TcpThreadAssumption DEF NoForgottenBytes, TypeOK, Clients,
         Start, Raise, threadVars, budget
<1>6. NoForgottenRoom'
  BY <1>0, TcpThreadAssumption DEF NoForgottenRoom, TypeOK, Clients,
         Start, Raise, threadVars, budget
<1> QED BY <1>1, <1>2, <1>3, <1>4, <1>5, <1>6 DEF LoopInv

\* A segment that is appended is announced by the same thread.
LEMMA DeliverPreserves ==
    ASSUME LoopInv, NEW n \in Deliverers, Deliver(n)
    PROVE  LoopInv'
<1>0. TypeOK /\ ConnectOnce /\ NothingReceivedYet /\ NoForgottenSegment /\ NoForgottenBytes /\ NoForgottenRoom
  BY DEF LoopInv
<1>1. TypeOK'
  BY <1>0, TcpThreadAssumption DEF TypeOK, Clients, Events, TcpStates,
         Deliver, Goto, threadVars, budget
<1>2. ConnectOnce'
  BY <1>0, TcpThreadAssumption DEF ConnectOnce, TypeOK,
         Deliver, Goto, threadVars, budget
<1>3. NothingReceivedYet'
  BY <1>0, TcpThreadAssumption DEF NothingReceivedYet, Fresh, TypeOK, Clients,
         Deliver, Goto, threadVars, budget
<1>4. NoForgottenSegment'
  BY <1>0, TcpThreadAssumption DEF NoForgottenSegment, Rechecks, TypeOK, Clients,
         Deliver, Goto, threadVars, budget
<1>5. NoForgottenBytes'
  BY <1>0, TcpThreadAssumption DEF NoForgottenBytes, TypeOK, Clients,
         Deliver, Goto, threadVars, budget
<1>6. NoForgottenRoom'
  BY <1>0, TcpThreadAssumption DEF NoForgottenRoom, TypeOK, Clients,
         Deliver, Goto, threadVars, budget
<1> QED BY <1>1, <1>2, <1>3, <1>4, <1>5, <1>6 DEF LoopInv

\* The announcement is a raised flag.
LEMMA DeliverRaisePreserves ==
    ASSUME LoopInv, NEW n \in Deliverers, DeliverRaise(n)
    PROVE  LoopInv'
<1>0. TypeOK /\ ConnectOnce /\ NothingReceivedYet /\ NoForgottenSegment /\ NoForgottenBytes /\ NoForgottenRoom
  BY DEF LoopInv
<1>1. TypeOK'
  BY <1>0, TcpThreadAssumption DEF TypeOK, Clients, Events, TcpStates,
         DeliverRaise, Goto, Raise, threadVars, budget
<1>2. ConnectOnce'
  BY <1>0, TcpThreadAssumption DEF ConnectOnce, TypeOK,
         DeliverRaise, Goto, Raise, threadVars, budget
<1>3. NothingReceivedYet'
  BY <1>0, TcpThreadAssumption DEF NothingReceivedYet, Fresh, TypeOK, Clients,
         DeliverRaise, Goto, Raise, threadVars, budget
<1>4. NoForgottenSegment'
  BY <1>0, TcpThreadAssumption DEF NoForgottenSegment, Rechecks, TypeOK, Clients,
         DeliverRaise, Goto, Raise, threadVars, budget
<1>5. NoForgottenBytes'
  BY <1>0, TcpThreadAssumption DEF NoForgottenBytes, TypeOK, Clients,
         DeliverRaise, Goto, Raise, threadVars, budget
<1>6. NoForgottenRoom'
  BY <1>0, TcpThreadAssumption DEF NoForgottenRoom, TypeOK, Clients,
         DeliverRaise, Goto, Raise, threadVars, budget
<1> QED BY <1>1, <1>2, <1>3, <1>4, <1>5, <1>6 DEF LoopInv

\* SEND has passed the test of the state.
LEMMA SendBeginPreserves ==
    ASSUME LoopInv, NEW h \in Senders, SendBegin(h)
    PROVE  LoopInv'
<1>0. TypeOK /\ ConnectOnce /\ NothingReceivedYet /\ NoForgottenSegment /\ NoForgottenBytes /\ NoForgottenRoom
  BY DEF LoopInv
<1>1. TypeOK'
  BY <1>0, TcpThreadAssumption DEF TypeOK, Clients, Events, TcpStates,
         SendBegin, Call, Goto, Raise, threadVars, budget
<1>2. ConnectOnce'
  BY <1>0, TcpThreadAssumption DEF ConnectOnce, TypeOK,
         SendBegin, Call, Goto, Raise, threadVars, budget
<1>3. NothingReceivedYet'
  BY <1>0, TcpThreadAssumption DEF NothingReceivedYet, Fresh, TypeOK, Clients,
         SendBegin, Call, Goto, Raise, threadVars, budget
<1>4. NoForgottenSegment'
  BY <1>0, TcpThreadAssumption DEF NoForgottenSegment, Rechecks, TypeOK, Clients,
         SendBegin, Call, Goto, Raise, threadVars, budget
<1>5. NoForgottenBytes'
  BY <1>0, TcpThreadAssumption DEF NoForgottenBytes, TypeOK, Clients,
         SendBegin, Call, Goto, Raise, threadVars, budget
<1>6. NoForgottenRoom'
  BY <1>0, TcpThreadAssumption DEF NoForgottenRoom, TypeOK, Clients,
         SendBegin, Call, Goto, Raise, threadVars, budget
<1> QED BY <1>1, <1>2, <1>3, <1>4, <1>5, <1>6 DEF LoopInv

\* The bytes are in the buffer, the state not yet read again.
LEMMA SendWritePreserves ==
    ASSUME LoopInv, NEW h \in Senders, SendWrite(h)
    PROVE  LoopInv'
<1>0. TypeOK /\ ConnectOnce /\ NothingReceivedYet /\ NoForgottenSegment /\ NoForgottenBytes /\ NoForgottenRoom
  BY DEF LoopInv
<1>1. TypeOK'
  BY <1>0, TcpThreadAssumption DEF TypeOK, Clients, Events, TcpStates,
         SendWrite, Call, Goto, Raise, threadVars, budget
<1>2. ConnectOnce'
  BY <1>0, TcpThreadAssumption DEF ConnectOnce, TypeOK,
         SendWrite, Call, Goto, Raise, threadVars, budget
<1>3. NothingReceivedYet'
  BY <1>0, TcpThreadAssumption DEF NothingReceivedYet, Fresh, TypeOK, Clients,
         SendWrite, Call, Goto, Raise, threadVars, budget
<1>4. NoForgottenSegment'
  BY <1>0, TcpThreadAssumption DEF NoForgottenSegment, Rechecks, TypeOK, Clients,
         SendWrite, Call, Goto, Raise, threadVars, budget
<1>5. NoForgottenBytes'
  BY <1>0, TcpThreadAssumption DEF NoForgottenBytes, TypeOK, Clients,
         SendWrite, Call, Goto, Raise, threadVars, budget
<1>6. NoForgottenRoom'
  BY <1>0, TcpThreadAssumption DEF NoForgottenRoom, TypeOK, Clients,
         SendWrite, Call, Goto, Raise, threadVars, budget
<1> QED BY <1>1, <1>2, <1>3, <1>4, <1>5, <1>6 DEF LoopInv

\* SEND gives up only if the connection is not synchronized.
LEMMA SendNotifyPreserves ==
    ASSUME LoopInv, NEW h \in Senders, SendNotify(h)
    PROVE  LoopInv'
<1>0. TypeOK /\ ConnectOnce /\ NothingReceivedYet /\ NoForgottenSegment /\ NoForgottenBytes /\ NoForgottenRoom
  BY DEF LoopInv
<1>1. TypeOK'
  BY <1>0, TcpThreadAssumption DEF TypeOK, Clients, Events, TcpStates,
         SendNotify, Call, Goto, Raise, threadVars, budget
<1>2. ConnectOnce'
  BY <1>0, TcpThreadAssumption DEF ConnectOnce, TypeOK,
         SendNotify, Call, Goto, Raise, threadVars, budget
<1>3. NothingReceivedYet'
  BY <1>0, TcpThreadAssumption DEF NothingReceivedYet, Fresh, TypeOK, Clients,
         SendNotify, Call, Goto, Raise, threadVars, budget
<1>4. NoForgottenSegment'
  BY <1>0, TcpThreadAssumption DEF NoForgottenSegment, Rechecks, TypeOK, Clients,
         SendNotify, Call, Goto, Raise, threadVars, budget
<1>5. NoForgottenBytes'
  BY <1>0, TcpThreadAssumption DEF NoForgottenBytes, TypeOK, Clients,
         SendNotify, Call, Goto, Raise, threadVars, budget
<1>6. NoForgottenRoom'
  BY <1>0, TcpThreadAssumption DEF NoForgottenRoom, TypeOK, Clients,
         SendNotify, Call, Goto, Raise, threadVars, budget
<1> QED BY <1>1, <1>2, <1>3, <1>4, <1>5, <1>6 DEF LoopInv

\* SEND notifies the TCP thread.
LEMMA SendRaisePreserves ==
    ASSUME LoopInv, NEW h \in Senders, SendRaise(h)
    PROVE  LoopInv'
<1>0. TypeOK /\ ConnectOnce /\ NothingReceivedYet /\ NoForgottenSegment /\ NoForgottenBytes /\ NoForgottenRoom
  BY DEF LoopInv
<1>1. TypeOK'
  BY <1>0, TcpThreadAssumption DEF TypeOK, Clients, Events, TcpStates,
         SendRaise, Call, Goto, Raise, threadVars, budget
<1>2. ConnectOnce'
  BY <1>0, TcpThreadAssumption DEF ConnectOnce, TypeOK,
         SendRaise, Call, Goto, Raise, threadVars, budget
<1>3. NothingReceivedYet'
  BY <1>0, TcpThreadAssumption DEF NothingReceivedYet, Fresh, TypeOK, Clients,
         SendRaise, Call, Goto, Raise, threadVars, budget
<1>4. NoForgottenSegment'
  BY <1>0, TcpThreadAssumption DEF NoForgottenSegment, Rechecks, TypeOK, Clients,
         SendRaise, Call, Goto, Raise, threadVars, budget
<1>5. NoForgottenBytes'
  BY <1>0, TcpThreadAssumption DEF NoForgottenBytes, TypeOK, Clients,
         SendRaise, Call, Goto, Raise, threadVars, budget
<1>6. NoForgottenRoom'
  BY <1>0, TcpThreadAssumption DEF NoForgottenRoom, TypeOK, Clients,
         SendRaise, Call, Goto, Raise, threadVars, budget
<1> QED BY <1>1, <1>2, <1>3, <1>4, <1>5, <1>6 DEF LoopInv

\* RECV has passed the test of the state.
LEMMA RecvBeginPreserves ==
    ASSUME LoopInv, NEW h \in Receivers, RecvBegin(h)
    PROVE  LoopInv'
<1>0. TypeOK /\ ConnectOnce /\ NothingReceivedYet /\ NoForgottenSegment /\ NoForgottenBytes /\ NoForgottenRoom
  BY DEF LoopInv
<1>1. TypeOK'
  BY <1>0, TcpThreadAssumption DEF TypeOK, Clients, Events, TcpStates,
         RecvBegin, Call, Goto, Raise, threadVars, budget
<1>2. ConnectOnce'
  BY <1>0, TcpThreadAssumption DEF ConnectOnce, TypeOK,
         RecvBegin, Call, Goto, Raise, threadVars, budget
<1>3. NothingReceivedYet'
  BY <1>0, TcpThreadAssumption DEF NothingReceivedYet, Fresh, TypeOK, Clients,
         RecvBegin, Call, Goto, Raise, threadVars, budget
<1>4. NoForgottenSegment'
  BY <1>0, TcpThreadAssumption DEF NoForgottenSegment, Rechecks, TypeOK, Clients,
         RecvBegin, Call, Goto, Raise, threadVars, budget
<1>5. NoForgottenBytes'
  BY <1>0, TcpThreadAssumption DEF NoForgottenBytes, TypeOK, Clients,
         RecvBegin, Call, Goto, Raise, threadVars, budget
<1>6. NoForgottenRoom'
  BY <1>0, TcpThreadAssumption DEF NoForgottenRoom, TypeOK, Clients,
         RecvBegin, Call, Goto, Raise, threadVars, budget
<1> QED BY <1>1, <1>2, <1>3, <1>4, <1>5, <1>6 DEF LoopInv

\* RECV makes room once the connection is synchronized.
LEMMA RecvReadPreserves ==
    ASSUME LoopInv, NEW h \in Receivers, RecvRead(h)
    PROVE  LoopInv'
<1>0. TypeOK /\ ConnectOnce /\ NothingReceivedYet /\ NoForgottenSegment /\ NoForgottenBytes /\ NoForgottenRoom
  BY DEF LoopInv
<1>1. TypeOK'
  <2>1. room' \in BOOLEAN
    BY <1>0, Zenon DEF RecvRead, TypeOK
  <2>2. pc' \in [Clients -> {"idle", "raise", "write", "notify", "read"}]
    BY <1>0 DEF RecvRead, Goto, TypeOK, Clients
  <2> QED BY <1>0, <2>1, <2>2 DEF RecvRead, TypeOK, threadVars, budget
<1>2. ConnectOnce'
  BY <1>0, TcpThreadAssumption DEF ConnectOnce, TypeOK,
         RecvRead, Call, Goto, Raise, threadVars, budget
<1>3. NothingReceivedYet'
  BY <1>0, TcpThreadAssumption DEF NothingReceivedYet, Fresh, TypeOK, Clients,
         RecvRead, Call, Goto, Raise, threadVars, budget
<1>4. NoForgottenSegment'
  BY <1>0, TcpThreadAssumption DEF NoForgottenSegment, Rechecks, TypeOK, Clients,
         RecvRead, Call, Goto, Raise, threadVars, budget
<1>5. NoForgottenBytes'
  BY <1>0, TcpThreadAssumption DEF NoForgottenBytes, TypeOK, Clients,
         RecvRead, Call, Goto, Raise, threadVars, budget
<1>6. NoForgottenRoom'
  BY <1>0, TcpThreadAssumption DEF NoForgottenRoom, TypeOK, Clients,
         RecvRead, Call, Goto, Raise, threadVars, budget
<1> QED BY <1>1, <1>2, <1>3, <1>4, <1>5, <1>6 DEF LoopInv

\* RECV gives up only if the window does not matter anymore.
LEMMA RecvNotifyPreserves ==
    ASSUME LoopInv, NEW h \in Receivers, RecvNotify(h)
    PROVE  LoopInv'
<1>0. TypeOK /\ ConnectOnce /\ NothingReceivedYet /\ NoForgottenSegment /\ NoForgottenBytes /\ NoForgottenRoom
  BY DEF LoopInv
<1>1. TypeOK'
  BY <1>0, TcpThreadAssumption DEF TypeOK, Clients, Events, TcpStates,
         RecvNotify, Call, Goto, Raise, threadVars, budget
<1>2. ConnectOnce'
  BY <1>0, TcpThreadAssumption DEF ConnectOnce, TypeOK,
         RecvNotify, Call, Goto, Raise, threadVars, budget
<1>3. NothingReceivedYet'
  BY <1>0, TcpThreadAssumption DEF NothingReceivedYet, Fresh, TypeOK, Clients,
         RecvNotify, Call, Goto, Raise, threadVars, budget
<1>4. NoForgottenSegment'
  BY <1>0, TcpThreadAssumption DEF NoForgottenSegment, Rechecks, TypeOK, Clients,
         RecvNotify, Call, Goto, Raise, threadVars, budget
<1>5. NoForgottenBytes'
  BY <1>0, TcpThreadAssumption DEF NoForgottenBytes, TypeOK, Clients,
         RecvNotify, Call, Goto, Raise, threadVars, budget
<1>6. NoForgottenRoom'
  BY <1>0, TcpThreadAssumption DEF NoForgottenRoom, TypeOK, Clients,
         RecvNotify, Call, Goto, Raise, threadVars, budget
<1> QED BY <1>1, <1>2, <1>3, <1>4, <1>5, <1>6 DEF LoopInv

\* RECV notifies the TCP thread.
LEMMA RecvRaisePreserves ==
    ASSUME LoopInv, NEW h \in Receivers, RecvRaise(h)
    PROVE  LoopInv'
<1>0. TypeOK /\ ConnectOnce /\ NothingReceivedYet /\ NoForgottenSegment /\ NoForgottenBytes /\ NoForgottenRoom
  BY DEF LoopInv
<1>1. TypeOK'
  BY <1>0, TcpThreadAssumption DEF TypeOK, Clients, Events, TcpStates,
         RecvRaise, Call, Goto, Raise, threadVars, budget
<1>2. ConnectOnce'
  BY <1>0, TcpThreadAssumption DEF ConnectOnce, TypeOK,
         RecvRaise, Call, Goto, Raise, threadVars, budget
<1>3. NothingReceivedYet'
  BY <1>0, TcpThreadAssumption DEF NothingReceivedYet, Fresh, TypeOK, Clients,
         RecvRaise, Call, Goto, Raise, threadVars, budget
<1>4. NoForgottenSegment'
  BY <1>0, TcpThreadAssumption DEF NoForgottenSegment, Rechecks, TypeOK, Clients,
         RecvRaise, Call, Goto, Raise, threadVars, budget
<1>5. NoForgottenBytes'
  BY <1>0, TcpThreadAssumption DEF NoForgottenBytes, TypeOK, Clients,
         RecvRaise, Call, Goto, Raise, threadVars, budget
<1>6. NoForgottenRoom'
  BY <1>0, TcpThreadAssumption DEF NoForgottenRoom, TypeOK, Clients,
         RecvRaise, Call, Goto, Raise, threadVars, budget
<1> QED BY <1>1, <1>2, <1>3, <1>4, <1>5, <1>6 DEF LoopInv

\* CLOSE only raises a flag.
LEMMA CloseRaisePreserves ==
    ASSUME LoopInv, CloseRaise
    PROVE  LoopInv'
<1>0. TypeOK /\ ConnectOnce /\ NothingReceivedYet /\ NoForgottenSegment /\ NoForgottenBytes /\ NoForgottenRoom
  BY DEF LoopInv
<1>1. TypeOK'
  BY <1>0, TcpThreadAssumption DEF TypeOK, Clients, Events, TcpStates,
         CloseRaise, Call, Raise, threadVars, budget
<1>2. ConnectOnce'
  BY <1>0, TcpThreadAssumption DEF ConnectOnce, TypeOK,
         CloseRaise, Call, Raise, threadVars, budget
<1>3. NothingReceivedYet'
  BY <1>0, TcpThreadAssumption DEF NothingReceivedYet, Fresh, TypeOK, Clients,
         CloseRaise, Call, Raise, threadVars, budget
<1>4. NoForgottenSegment'
  BY <1>0, TcpThreadAssumption DEF NoForgottenSegment, Rechecks, TypeOK, Clients,
         CloseRaise, Call, Raise, threadVars, budget
<1>5. NoForgottenBytes'
  BY <1>0, TcpThreadAssumption DEF NoForgottenBytes, TypeOK, Clients,
         CloseRaise, Call, Raise, threadVars, budget
<1>6. NoForgottenRoom'
  BY <1>0, TcpThreadAssumption DEF NoForgottenRoom, TypeOK, Clients,
         CloseRaise, Call, Raise, threadVars, budget
<1> QED BY <1>1, <1>2, <1>3, <1>4, <1>5, <1>6 DEF LoopInv

\* A timer only raises a flag.
LEMMA TimeoutPreserves ==
    ASSUME LoopInv, NEW type \in {"timeout_rtx", "timeout_pst"}, Timeout(type)
    PROVE  LoopInv'
<1>0. TypeOK /\ ConnectOnce /\ NothingReceivedYet /\ NoForgottenSegment /\ NoForgottenBytes /\ NoForgottenRoom
  BY DEF LoopInv
<1>1. TypeOK'
  BY <1>0, TcpThreadAssumption DEF TypeOK, Clients, Events, TcpStates,
         Timeout, Call, Raise, threadVars, budget
<1>2. ConnectOnce'
  BY <1>0, TcpThreadAssumption DEF ConnectOnce, TypeOK,
         Timeout, Call, Raise, threadVars, budget
<1>3. NothingReceivedYet'
  BY <1>0, TcpThreadAssumption DEF NothingReceivedYet, Fresh, TypeOK, Clients,
         Timeout, Call, Raise, threadVars, budget
<1>4. NoForgottenSegment'
  BY <1>0, TcpThreadAssumption DEF NoForgottenSegment, Rechecks, TypeOK, Clients,
         Timeout, Call, Raise, threadVars, budget
<1>5. NoForgottenBytes'
  BY <1>0, TcpThreadAssumption DEF NoForgottenBytes, TypeOK, Clients,
         Timeout, Call, Raise, threadVars, budget
<1>6. NoForgottenRoom'
  BY <1>0, TcpThreadAssumption DEF NoForgottenRoom, TypeOK, Clients,
         Timeout, Call, Raise, threadVars, budget
<1> QED BY <1>1, <1>2, <1>3, <1>4, <1>5, <1>6 DEF LoopInv

\* The flag that is cleared becomes the event that is dispatched.
LEMMA PickEventPreserves ==
    ASSUME LoopInv, PickEvent
    PROVE  LoopInv'
<1>0. TypeOK /\ ConnectOnce /\ NothingReceivedYet /\ NoForgottenSegment /\ NoForgottenBytes /\ NoForgottenRoom
  BY DEF LoopInv
<1>1. TypeOK'
  BY <1>0, TcpThreadAssumption DEF TypeOK, Clients, Events, TcpStates,
         PickEvent, threadVars, budget
<1>2. ConnectOnce'
  BY <1>0, TcpThreadAssumption DEF ConnectOnce, TypeOK,
         PickEvent, threadVars, budget
<1>3. NothingReceivedYet'
  BY <1>0, TcpThreadAssumption DEF NothingReceivedYet, Fresh, TypeOK, Clients,
         PickEvent, threadVars, budget
<1>4. NoForgottenSegment'
  BY <1>0, TcpThreadAssumption DEF NoForgottenSegment, Rechecks, TypeOK, Clients,
         PickEvent, threadVars, budget
<1>5. NoForgottenBytes'
  BY <1>0, TcpThreadAssumption DEF NoForgottenBytes, TypeOK, Clients,
         PickEvent, threadVars, budget
<1>6. NoForgottenRoom'
  BY <1>0, TcpThreadAssumption DEF NoForgottenRoom, TypeOK, Clients,
         PickEvent, threadVars, budget
<1> QED BY <1>1, <1>2, <1>3, <1>4, <1>5, <1>6 DEF LoopInv

\* A handler that changes the state looks at the buffers afterwards.
LEMMA HandlePreserves ==
    ASSUME LoopInv, Handle
    PROVE  LoopInv'
<1>0. TypeOK /\ ConnectOnce /\ NothingReceivedYet /\ NoForgottenSegment /\ NoForgottenBytes /\ NoForgottenRoom
  BY DEF LoopInv
<1>1. TypeOK'
  BY <1>0, CausesFacts DEF TypeOK, Clients, Events, TcpStates,
         Handle, NoSegment, Popped, threadVars, budget
<1>2. ConnectOnce'
  BY <1>0, CausesFacts DEF ConnectOnce, TypeOK,
         Handle, NoSegment, Popped, threadVars, budget
<1>3. NothingReceivedYet'
  <2>1. CASE UNCHANGED tcp_state
    BY <2>1, <1>0 DEF Handle, NothingReceivedYet, Fresh
  <2>2. CASE Causes(event, tcp_state, tcp_state') /\ tpc' # "dispatch"
    <3>1. Fresh' => event # "app_connect" /\ Fresh
      BY <2>2, <1>0 DEF Handle, Fresh, ConnectOnce
    <3>2. event = "app_connect" => Fresh
      BY DEF Handle, Fresh
    <3> QED BY <3>1, <3>2, <2>2, <1>0, CausesFacts DEF Handle, NothingReceivedYet
  <2> QED BY <2>1, <2>2 DEF Handle
<1>4. NoForgottenSegment'
  BY <1>0, CausesFacts DEF NoForgottenSegment, Rechecks, TypeOK, Clients,
         Handle, NoSegment, Popped, threadVars, budget
<1>5. NoForgottenBytes'
  BY <1>0, CausesFacts DEF NoForgottenBytes, TypeOK, Clients,
         Handle, NoSegment, Popped, threadVars, budget
<1>6. NoForgottenRoom'
  <2>1. CASE UNCHANGED tcp_state
    BY <2>1, <1>0 DEF Handle, NoSegment, NoForgottenRoom
  <2>2. CASE Causes(event, tcp_state, tcp_state')
    BY <2>2, <1>0, CausesFacts
       DEF Handle, NoForgottenRoom, NothingReceivedYet, Causes
  <2> QED BY <2>1, <2>2 DEF Handle
<1> QED BY <1>1, <1>2, <1>3, <1>4, <1>5, <1>6 DEF LoopInv

\* A connection in TIME_WAIT is closed.
LEMMA LeaveTimeWaitPreserves ==
    ASSUME LoopInv, LeaveTimeWait
    PROVE  LoopInv'
<1>0. TypeOK /\ ConnectOnce /\ NothingReceivedYet /\ NoForgottenSegment /\ NoForgottenBytes /\ NoForgottenRoom
  BY DEF LoopInv
<1>1. TypeOK'
  BY <1>0, TcpThreadAssumption DEF TypeOK, Clients, Events, TcpStates,
         LeaveTimeWait, Raise, AfterEvent, threadVars, budget
<1>2. ConnectOnce'
  BY <1>0, TcpThreadAssumption DEF ConnectOnce, TypeOK,
         LeaveTimeWait, Raise, AfterEvent, threadVars, budget
<1>3. NothingReceivedYet'
  BY <1>0, TcpThreadAssumption DEF NothingReceivedYet, Fresh, TypeOK, Clients,
         LeaveTimeWait, Raise, AfterEvent, threadVars, budget
<1>4. NoForgottenSegment'
  BY <1>0, TcpThreadAssumption DEF NoForgottenSegment, Rechecks, TypeOK, Clients,
         LeaveTimeWait, Raise, AfterEvent, threadVars, budget
<1>5. NoForgottenBytes'
  BY <1>0, TcpThreadAssumption DEF NoForgottenBytes, TypeOK, Clients,
         LeaveTimeWait, Raise, AfterEvent, threadVars, budget
<1>6. NoForgottenRoom'
  BY <1>0, TcpThreadAssumption DEF NoForgottenRoom, TypeOK, Clients,
         LeaveTimeWait, Raise, AfterEvent, threadVars, budget
<1> QED BY <1>1, <1>2, <1>3, <1>4, <1>5, <1>6 DEF LoopInv

\* The cleanup flag is raised.
LEMMA SetCleanupPreserves ==
    ASSUME LoopInv, SetCleanup
    PROVE  LoopInv'
<1>0. TypeOK /\ ConnectOnce /\ NothingReceivedYet /\ NoForgottenSegment /\ NoForgottenBytes /\ NoForgottenRoom
  BY DEF LoopInv
<1>1. TypeOK'
  BY <1>0, TcpThreadAssumption DEF TypeOK, Clients, Events, TcpStates,
         SetCleanup, Raise, AfterEvent, threadVars, budget
<1>2. ConnectOnce'
  BY <1>0, TcpThreadAssumption DEF ConnectOnce, TypeOK,
         SetCleanup, Raise, AfterEvent, threadVars, budget
<1>3. NothingReceivedYet'
  BY <1>0, TcpThreadAssumption DEF NothingReceivedYet, Fresh, TypeOK, Clients,
         SetCleanup, Raise, AfterEvent, threadVars, budget
<1>4. NoForgottenSegment'
  BY <1>0, TcpThreadAssumption DEF NoForgottenSegment, Rechecks, TypeOK, Clients,
         SetCleanup, Raise, AfterEvent, threadVars, budget
<1>5. NoForgottenBytes'
  BY <1>0, TcpThreadAssumption DEF NoForgottenBytes, TypeOK, Clients,
         SetCleanup, Raise, AfterEvent, threadVars, budget
<1>6. NoForgottenRoom'
  BY <1>0, TcpThreadAssumption DEF NoForgottenRoom, TypeOK, Clients,
         SetCleanup, Raise, AfterEvent, threadVars, budget
<1> QED BY <1>1, <1>2, <1>3, <1>4, <1>5, <1>6 DEF LoopInv

\* The bytes in the buffer are seen.
LEMMA LookPreserves ==
    ASSUME LoopInv, Look
    PROVE  LoopInv'
<1>0. TypeOK /\ ConnectOnce /\ NothingReceivedYet /\ NoForgottenSegment /\ NoForgottenBytes /\ NoForgottenRoom
  BY DEF LoopInv
<1>1. TypeOK'
  BY <1>0, TcpThreadAssumption DEF TypeOK, Clients, Events, TcpStates,
         Look, Raise, AfterEvent, threadVars, budget
<1>2. ConnectOnce'
  BY <1>0, TcpThreadAssumption DEF ConnectOnce, TypeOK,
         Look, Raise, AfterEvent, threadVars, budget
<1>3. NothingReceivedYet'
  BY <1>0, TcpThreadAssumption DEF NothingReceivedYet, Fresh, TypeOK, Clients,
         Look, Raise, AfterEvent, threadVars, budget
<1>4. NoForgottenSegment'
  BY <1>0, TcpThreadAssumption DEF NoForgottenSegment, Rechecks, TypeOK, Clients,
         Look, Raise, AfterEvent, threadVars, budget
<1>5. NoForgottenBytes'
  BY <1>0, TcpThreadAssumption DEF NoForgottenBytes, TypeOK, Clients,
         Look, Raise, AfterEvent, threadVars, budget
<1>6. NoForgottenRoom'
  BY <1>0, TcpThreadAssumption DEF NoForgottenRoom, TypeOK, Clients,
         Look, Raise, AfterEvent, threadVars, budget
<1> QED BY <1>1, <1>2, <1>3, <1>4, <1>5, <1>6 DEF LoopInv

\* The queue is tested again after each segment.
LEMMA RecheckPreserves ==
    ASSUME LoopInv, Recheck
    PROVE  LoopInv'
<1>0. TypeOK /\ ConnectOnce /\ NothingReceivedYet /\ NoForgottenSegment /\ NoForgottenBytes /\ NoForgottenRoom
  BY DEF LoopInv
<1>1. TypeOK'
  BY <1>0, TcpThreadAssumption DEF TypeOK, Clients, Events, TcpStates,
         Recheck, Raise, AfterEvent, threadVars, budget
<1>2. ConnectOnce'
  BY <1>0, TcpThreadAssumption DEF ConnectOnce, TypeOK,
         Recheck, Raise, AfterEvent, threadVars, budget
<1>3. NothingReceivedYet'
  BY <1>0, TcpThreadAssumption DEF NothingReceivedYet, Fresh, TypeOK, Clients,
         Recheck, Raise, AfterEvent, threadVars, budget
<1>4. NoForgottenSegment'
  BY <1>0, TcpThreadAssumption DEF NoForgottenSegment, Rechecks, TypeOK, Clients,
         Recheck, Raise, AfterEvent, threadVars, budget
<1>5. NoForgottenBytes'
  BY <1>0, TcpThreadAssumption DEF NoForgottenBytes, TypeOK, Clients,
         Recheck, Raise, AfterEvent, threadVars, budget
<1>6. NoForgottenRoom'
  BY <1>0, TcpThreadAssumption DEF NoForgottenRoom, TypeOK, Clients,
         Recheck, Raise, AfterEvent, threadVars, budget
<1> QED BY <1>1, <1>2, <1>3, <1>4, <1>5, <1>6 DEF LoopInv

\* If it is not empty, the flag is raised again.
LEMMA ReraisePreserves ==
    ASSUME LoopInv, Reraise
    PROVE  LoopInv'
<1>0. TypeOK /\ ConnectOnce /\ NothingReceivedYet /\ NoForgottenSegment /\ NoForgottenBytes /\ NoForgottenRoom
  BY DEF LoopInv
<1>1. TypeOK'
  BY <1>0, TcpThreadAssumption DEF TypeOK, Clients, Events, TcpStates,
         Reraise, Raise, AfterEvent, threadVars, budget
<1>2. ConnectOnce'
  BY <1>0, TcpThreadAssumption DEF ConnectOnce, TypeOK,
         Reraise, Raise, AfterEvent, threadVars, budget
<1>3. NothingReceivedYet'
  BY <1>0, TcpThreadAssumption DEF NothingReceivedYet, Fresh, TypeOK, Clients,
         Reraise, Raise, AfterEvent, threadVars, budget
<1>4. NoForgottenSegment'
  BY <1>0, TcpThreadAssumption DEF NoForgottenSegment, Rechecks, TypeOK, Clients,
         Reraise, Raise, AfterEvent, threadVars, budget
<1>5. NoForgottenBytes'
  BY <1>0, TcpThreadAssumption DEF NoForgottenBytes, TypeOK, Clients,
         Reraise, Raise, AfterEvent, threadVars, budget
<1>6. NoForgottenRoom'
  BY <1>0, TcpThreadAssumption DEF NoForgottenRoom, TypeOK, Clients,
         Reraise, Raise, AfterEvent, threadVars, budget
<1> QED BY <1>1, <1>2, <1>3, <1>4, <1>5, <1>6 DEF LoopInv

\* The entry is torn down.
LEMMA FreePreserves ==
    ASSUME LoopInv, Free
    PROVE  LoopInv'
<1>0. TypeOK /\ ConnectOnce /\ NothingReceivedYet /\ NoForgottenSegment /\ NoForgottenBytes /\ NoForgottenRoom
  BY DEF LoopInv
<1>1. TypeOK'
  BY <1>0, TcpThreadAssumption DEF TypeOK, Clients, Events, TcpStates,
         Free, Raise, AfterEvent, threadVars, budget
<1>2. ConnectOnce'
  BY <1>0, TcpThreadAssumption DEF ConnectOnce, TypeOK,
         Free, Raise, AfterEvent, threadVars, budget
<1>3. NothingReceivedYet'
  BY <1>0, TcpThreadAssumption DEF NothingReceivedYet, Fresh, TypeOK, Clients,
         Free, Raise, AfterEvent, threadVars, budget
<1>4. NoForgottenSegment'
  BY <1>0, TcpThreadAssumption DEF NoForgottenSegment, Rechecks, TypeOK, Clients,
         Free, Raise, AfterEvent, threadVars, budget
<1>5. NoForgottenBytes'
  BY <1>0, TcpThreadAssumption DEF NoForgottenBytes, TypeOK, Clients,
         Free, Raise, AfterEvent, threadVars, budget
<1>6. NoForgottenRoom'
  BY <1>0, TcpThreadAssumption DEF NoForgottenRoom, TypeOK, Clients,
         Free, Raise, AfterEvent, threadVars, budget
<1> QED BY <1>1, <1>2, <1>3, <1>4, <1>5, <1>6 DEF LoopInv

\* Every step preserves the invariant.
LEMMA NextPreserves == LoopInv /\ [Next]_vars => LoopInv'
<1> SUFFICES ASSUME LoopInv, [Next]_vars PROVE LoopInv'
  OBVIOUS
<1>1. CASE Start
  BY <1>1, StartPreserves
<1>2. CASE \E n \in Deliverers : DelivererStep(n)
  BY <1>2, DeliverPreserves, DeliverRaisePreserves DEF DelivererStep
<1>3. CASE \E h \in Senders : SendBegin(h) \/ SenderStep(h)
  BY <1>3, SendBeginPreserves, SendWritePreserves, SendNotifyPreserves, SendRaisePreserves
     DEF SenderStep
<1>4. CASE \E h \in Receivers : RecvBegin(h) \/ RecvRead(h) \/ ReceiverStep(h)
  BY <1>4, RecvBeginPreserves, RecvReadPreserves, RecvNotifyPreserves, RecvRaisePreserves
     DEF ReceiverStep
<1>5. CASE CloseRaise
  BY <1>5, CloseRaisePreserves
<1>6. CASE \E type \in {"timeout_rtx", "timeout_pst"} : Timeout(type)
  BY <1>6, TimeoutPreserves
<1>7. CASE TcpStep
  BY <1>7, PickEventPreserves, HandlePreserves, LeaveTimeWaitPreserves, SetCleanupPreserves,
     LookPreserves, RecheckPreserves, ReraisePreserves, FreePreserves DEF TcpStep
<1>8. CASE UNCHANGED vars
  BY <1>8 DEF LoopInv, TypeOK, ConnectOnce, NothingReceivedYet, Fresh, NoForgottenSegment,
     Rechecks, NoForgottenBytes, NoForgottenRoom, vars, threadVars, budget
<1> QED BY <1>1, <1>2, <1>3, <1>4, <1>5, <1>6, <1>7, <1>8 DEF Next

\* The invariant of the event loop holds for any number of threads, segments
\* and calls.
THEOREM LoopInvariant == Spec => []LoopInv
BY InitLoopInv, NextPreserves, PTL DEF Spec

\* However the threads interleave, a queued segment (the recheck at the end of net_recv),
\* the bytes that SEND wrote before or after the handshake, and the room that RECV made
\* are never without someone who will make the TCP thread look at them.
THEOREM NothingIsForgotten == Spec => []NothingForgotten
<1>1. LoopInv => NothingForgotten
  BY DEF LoopInv, NothingForgotten
<1> QED BY <1>1, LoopInvariant, PTL

\* The variables of the event loop keep their types.
THEOREM LoopTypeCorrect == Spec => []TypeOK
<1>1. LoopInv => TypeOK
  BY DEF LoopInv
<1> QED BY <1>1, LoopInvariant, PTL
=============================================================================
