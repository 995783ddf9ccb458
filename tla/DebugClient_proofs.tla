------------------------ MODULE DebugClient_proofs ------------------------
(***************************************************************************)
(* Proofs about DebugClient, for every number of connections and events,   *)
(* every set of socket numbers and every choice of the handler: the        *)
(* response sent is the one for the event, and the handler runs in the     *)
(* thread of the event's connection.                                       *)
(***************************************************************************)
EXTENDS DebugClient, TLAPS, WellFoundedInduction

EventSet == [sock : Socks \cup {NULL}, new : Socks \cup {NULL}]
Handling == {"offer", "create", "call", "pass", "await", "join", "send"}
Ending == {"kill", "killed", "reap", "exited"}

TypeOK ==
    /\ rootActive \in BOOLEAN /\ open \subseteq Socks /\ number \in [Socks -> Nat]
    /\ attached \subseteq open /\ up \in BOOLEAN
    /\ event \in EventSet /\ answer \in AllResponses \cup {NULL}
    /\ dpc \in {"recv"} \cup Handling \cup Ending /\ cur \in EventSet /\ ret \in AllResponses
    /\ passive \in BOOLEAN /\ firstEvent \in BOOLEAN
    /\ activeList \subseteq Socks /\ item \in Socks \cup {NULL}
    /\ apc \in [Socks -> {"none", "wait", "handling", "done", "exited"}]
    /\ flag \in [Socks -> {"EVENT", "KILL", NULL}]
    /\ response \in [Socks -> AllResponses \cup {NULL}]
    /\ given \in AllResponses \cup {NULL} /\ disagreed \subseteq Socks

\* The debug thread and the daemon agree on the event that is being handled.
EventInv ==
    /\ ~up => attached = {}
    /\ event # NoEvent => event.sock \in attached
    /\ event.new # NULL =>
          event.sock = Root /\ ~rootActive /\ event.new \in open /\ event.new # Root
    /\ answer # NULL => event # NoEvent /\ dpc = "recv"
    /\ up /\ cur # NoEvent => event = cur
    /\ dpc = "recv" => cur = NoEvent
    /\ dpc \in Handling => cur.sock # NULL

\* Which sockets are active, and what is known of the event at each step.
CurInv ==
    /\ rootActive => open \subseteq {Root} /\ ~passive /\ cur.sock \in {Root, NULL}
    /\ cur.new # NULL =>
          cur.sock = Root /\ ~rootActive /\ passive /\ ~firstEvent /\ cur.new # Root
    /\ dpc = "offer" => cur.new # NULL
    /\ dpc = "create" => rootActive \/ cur.new # NULL
    /\ dpc \in {"pass", "await", "join"} => IsActive(cur.sock) /\ cur.new = NULL
    /\ firstEvent /\ ~rootActive => attached \subseteq {Root}
    /\ answer # NULL /\ event.new # NULL => ~firstEvent

\* A number is given to a connection when no open socket has it.
NumberInv ==
    /\ number[Root] = 0
    /\ \A s \in open : s # Root => number[s] # 0
    /\ \A s, t \in Socks : s < t /\ number[t] # 0 /\ number[s] = number[t] => s \notin open
    /\ \A s, t \in Socks : s # Root /\ s < t /\ number[t] # 0 => number[s] # 0
    /\ \A s \in activeList : IF s = Root THEN rootActive ELSE number[s] # 0
    /\ cur.new # NULL => number[cur.new] # 0
    /\ cur.sock # NULL => \A t \in Socks :
          cur.sock < t /\ number[t] # 0 => number[t] # number[cur.sock]

\* Monitored connections have a thread in the list with their number.
Listed(s) == \E t \in activeList : number[t] = number[s]

ListInv ==
    /\ dpc \notin Ending => \A s \in attached :
          \/ ~IsActive(s) \/ s \in disagreed \/ Listed(s)
          \/ rootActive /\ (firstEvent \/ dpc = "create")
          \/ event.sock = s /\ (answer = "STOP" \/ (dpc = "send" /\ ret = "STOP"))
    /\ dpc = "pass" => cur.sock \in disagreed \/ Listed(cur.sock)
    /\ dpc = "call" /\ cur.new # NULL /\ ret = "ACCEPT_MONITOR" => cur.new \in activeList
    /\ dpc = "send" /\ cur.new # NULL /\ ret = "ACCEPT_MONITOR" =>
          cur.new \in activeList \cup disagreed
    /\ answer = "ACCEPT_MONITOR" /\ event.new # NULL => event.new \in activeList \cup disagreed

\* The exchange between the debug thread and an active thread.
ExchangeInv ==
    /\ \A t \in Socks :
          /\ flag[t] # NULL =>
                /\ item = t /\ response[t] = NULL
                /\ dpc = IF flag[t] = "EVENT" THEN "await" ELSE "killed"
          /\ response[t] # NULL => item = t /\ dpc \in {"await", "killed"}
          /\ apc[t] = "handling" => flag[t] # NULL
    /\ dpc \in {"await", "killed", "join", "reap"} => item # NULL
    /\ dpc \in {"await", "join"} =>
          /\ number[item] = number[cur.sock]
          /\ item # cur.sock => item < cur.sock /\ item \notin open
    /\ dpc = "await" /\ response[item] # NULL => given = response[item]
    /\ dpc = "join" => given = ret /\ ret = "STOP"
    /\ AnswerIsForEvent

IInv == TypeOK /\ EventInv /\ CurInv /\ NumberInv /\ ListInv /\ ExchangeInv

-----------------------------------------------------------------------------
\* A set of naturals that is not empty has a least element, so that First(S) is a member
\* of S: the search of active_list returns an item of the list.
LEMMA FirstIsLeast ==
    ASSUME NEW S, S \subseteq Nat, S # {}
    PROVE  First(S) \in S /\ \A j \in S : First(S) <= j
<1> DEFINE Less == OpToRel(<, Nat)
<1>1. PICK x \in S : \A y \in S : ~(<<y, x>> \in Less)
  BY NatLessThanWellFounded, WFMin, Zenon
<1>2. Less = {p \in Nat \X Nat : p[1] < p[2]}
  BY Zenon DEF OpToRel
<1> HIDE DEF Less
<1>3. ASSUME NEW y \in S PROVE x <= y
  <2>1. x \in Nat /\ y \in Nat
    BY Zenon
  <2>2. y < x => <<y, x>> \in Less
    BY Zenon, <1>2, <2>1
  <2>3. QED
    BY <1>1, <2>1, <2>2
<1>4. QED
  BY <1>3, Zenon DEF First

\* Sockets and the threads of active_list are named by natural numbers.
LEMMA SocksAreNat == Socks \subseteq Nat
BY DEF Socks

\* Of two sockets one was created before the other.
LEMMA SocksOrdered == \A u, v \in Socks : u = v \/ u < v \/ v < u
BY SocksAreNat

\* NULL is neither a socket, nor a response of the handler, nor a flag of an active thread.
LEMMA Domains ==
    /\ Root \in Socks /\ NULL \notin Socks
    /\ {"NONE", "STOP", "ACCEPT_MONITOR"} \cup Responses \subseteq AllResponses
    /\ NULL \notin AllResponses /\ NULL \notin {"STOP", "ACCEPT_MONITOR", "EVENT", "KILL"}
BY DebugClientAssumption DEF Socks, Root, AllResponses

\* The fields of an event message (sockfd, new_sockfd) are sockets or NULL.
LEMMA EventDomain ==
    /\ NoEvent \in EventSet /\ NoEvent.sock = NULL /\ NoEvent.new = NULL
    /\ \A e \in EventSet : e.sock \in Socks \cup {NULL} /\ e.new \in Socks \cup {NULL}
BY Zenon DEF NoEvent, EventSet

\* The variables of debug_thread, of active_thread and of the monitor keep their types.
LEMMA TypeStep ==
    ASSUME IInv, Next
    PROVE  TypeOK'
<1> USE SocksAreNat, Domains, EventDomain DEF IInv, TypeOK, daemonVars, debugVars, activeVars, history
<1>1. ASSUME NEW s \in Socks, Breakpoint(s) PROVE TypeOK'
  <2>1. event' \in EventSet
    BY Zenon, <1>1 DEF Breakpoint, EventSet
  <2>2. QED
    BY Zenon, <1>1, <2>1 DEF Breakpoint
<1>2. CASE PendingConnection
  <2> DEFINE later == {s \in Socks \ {Root} : number[s] = 0}
             free == Numbers \ {number[s] : s \in open}
  <2>1. First(later) \in Socks
    BY <1>2, FirstIsLeast, Zenon DEF PendingConnection
  <2>2. First(free) \in Nat
    BY <1>2, FirstIsLeast, DebugClientAssumption, Zenon DEF PendingConnection
  <2>3. event' \in EventSet
    BY Zenon, <1>2, <2>1 DEF PendingConnection, EventSet
  <2>4. number' \in [Socks -> Nat]
    BY Zenon, <1>2, <2>1, <2>2 DEF PendingConnection
  <2>5. open' \subseteq Socks /\ attached' \subseteq open'
    BY <1>2, <2>1, Zenon DEF PendingConnection
  <2>6. QED
    BY Zenon, <1>2, <2>3, <2>4, <2>5 DEF PendingConnection
<1>3. CASE Answered
  <2>1. IsPending(event) => event.new \in open
    BY Zenon DEF EventInv, IsPending
  <2>2. attached' \subseteq open'
    BY <1>3, <2>1, Zenon DEF Answered, Attach
  <2>3. QED
    BY Zenon, <1>3, <2>2 DEF Answered, Attach
<1>4. CASE ClientGone
  BY Zenon, <1>4 DEF ClientGone, Attach
<1>5. ASSUME NEW s \in Socks, Freed(s) PROVE TypeOK'
  BY Zenon, <1>5 DEF Freed, Attach
<1>6. CASE DaemonExits
  BY Zenon, <1>6 DEF DaemonExits, Attach
<1>7. ASSUME NEW t \in Socks, ActiveStep(t) PROVE TypeOK'
  <2>1. CASE ActiveResponds(t)
    <3> DEFINE O == Outcomes(t)
    <3>0. O \subseteq AllResponses
      BY Zenon DEF Outcomes
    <3> HIDE DEF O
    <3>1. PICK r \in O : response' = [response EXCEPT ![t] = r] /\ given' = r
      BY <2>1, Zenon DEF ActiveResponds, ActiveAnswer, O
    <3>2. PICK a \in {"wait", "done"} : apc' = [apc EXCEPT ![t] = a]
      BY <2>1, Zenon DEF ActiveResponds, ActiveAnswer
    <3>3. flag' \in [Socks -> {"EVENT", "KILL", NULL}]
      BY Zenon, <2>1 DEF ActiveResponds, ActiveAnswer
    <3>4. QED
      BY Zenon, <2>1, <3>0, <3>1, <3>2, <3>3 DEF ActiveResponds, ActiveAnswer
  <2>2. CASE ActiveSleeps(t)
    BY Zenon, <2>2 DEF ActiveSleeps
  <2>3. CASE ActiveTakes(t)
    BY Zenon, <2>3 DEF ActiveTakes
  <2>4. CASE ActiveExits(t)
    BY Zenon, <2>4 DEF ActiveExits
  <2>5. QED
    BY Zenon, <1>7, <2>1, <2>2, <2>3, <2>4 DEF ActiveStep
<1>8. CASE RecvEvent
  BY Zenon, <1>8 DEF RecvEvent, Handling
<1>9. CASE ConnectionFails \/ NoMemory \/ CloseConnection
  BY <1>9, Zenon DEF ConnectionFails, NoMemory, CloseConnection, Ending
<1>10. CASE OfferConnection
  BY Zenon, <1>10 DEF OfferConnection, Handling, Ending
<1>11. CASE CreateActive
  <2>1. cur.sock \in Socks /\ (passive => cur.new \in Socks)
    BY Zenon, <1>11 DEF CreateActive, EventInv, CurInv, EventSet, Handling
  <2>2. activeList' \subseteq Socks /\ apc' \in [Socks -> {"none", "wait", "handling", "done", "exited"}]
    BY <1>11, <2>1, Zenon DEF CreateActive
  <2>3. QED
    BY Zenon, <1>11, <2>2 DEF CreateActive, Handling
<1>12. CASE CallHandler
  <2>1. dpc' \in Handling \cup Ending /\ ret' \in AllResponses /\ given' \in AllResponses
    BY Zenon, <1>12 DEF CallHandler, Handling, Ending
  <2>2. disagreed' \subseteq Socks
    BY <1>12, Zenon DEF CallHandler, IsPending, EventSet
  <2>3. QED
    BY Zenon, <1>12, <2>1, <2>2 DEF CallHandler
<1>13. CASE PassEvent
  <2> DEFINE S == {t \in activeList : number[t] = number[cur.sock]}
  <2>1. S # {} => First(S) \in Socks
    BY FirstIsLeast, Zenon
  <2>2. item' \in Socks \cup {NULL} /\ flag' \in [Socks -> {"EVENT", "KILL", NULL}]
    BY Zenon, <1>13, <2>1 DEF PassEvent, SendToActive
  <2>3. QED
    BY Zenon, <1>13, <2>2 DEF PassEvent, SendToActive, Handling
<1>14. CASE DebugSleeps
  BY Zenon, <1>14 DEF DebugSleeps
<1>15. CASE GetFromActive
  BY Zenon, <1>15 DEF GetFromActive, Handling, ExchangeInv
<1>16. CASE JoinStopped \/ Reap
  BY <1>16, Zenon DEF JoinStopped, Reap, Handling, Ending
<1>17. CASE SendResponse
  BY Zenon, <1>17 DEF SendResponse
<1>18. CASE KillActive
  <2>1. First(activeList) \in Socks
    BY <1>18, FirstIsLeast, Zenon DEF KillActive
  <2>2. item' \in Socks \cup {NULL} /\ flag' \in [Socks -> {"EVENT", "KILL", NULL}]
    BY Zenon, <1>18, <2>1 DEF KillActive, SendToActive
  <2>3. QED
    BY Zenon, <1>18, <2>2 DEF KillActive, SendToActive, Ending
<1>19. CASE KillAnswered
  BY <1>19, Zenon DEF KillAnswered, Ending
<1>20. QED
  BY Zenon, <1>1, <1>2, <1>3, <1>4, <1>5, <1>6, <1>7, <1>8, <1>9, <1>10, <1>11, <1>12, <1>13,
    <1>14, <1>15,
     <1>16, <1>17, <1>18, <1>19 DEF Next, DebugStep

\* The monitor of the daemon (breakpoint.c): what it does with its sockets, its event
\* and its connection preserves the invariant.
LEMMA DaemonSteps ==
    ASSUME IInv, TypeOK', NEW s \in Socks,
           Breakpoint(s) \/ PendingConnection \/ Answered \/ ClientGone \/ Freed(s) \/ DaemonExits
    PROVE  IInv'
<1> USE DEF daemonVars, debugVars, activeVars, history
<1> TypeOK /\ EventInv /\ CurInv /\ NumberInv /\ ListInv /\ ExchangeInv
  BY Zenon DEF IInv
<1>0. ASSUME UNCHANGED <<rootActive, number, debugVars, activeVars, history>>, open' \subseteq open
      PROVE  NumberInv' /\ ExchangeInv'
  <2>1. NumberInv'
    BY <1>0, Zenon DEF NumberInv
  <2>2. ExchangeInv'
    BY <1>0, Zenon DEF ExchangeInv, AnswerIsForEvent
  <2>3. QED
    BY Zenon, <2>1, <2>2
<1>1. CASE Breakpoint(s)
  <2>1. EventInv'
    BY Zenon, <1>1, Domains, EventDomain DEF Breakpoint, EventInv
  <2>2. CurInv'
    BY Zenon, <1>1 DEF Breakpoint, CurInv, IsActive, EventInv
  <2>3. NumberInv' /\ ExchangeInv'
    BY <1>0, <1>1, Zenon DEF Breakpoint
  <2>4. ListInv'
    BY Zenon, <1>1, Domains, EventDomain DEF Breakpoint, ListInv, Listed, IsActive, EventInv,
      TypeOK
  <2>5. QED
    BY <2>1, <2>2, <2>3, <2>4, Zenon DEF IInv
<1>2. CASE PendingConnection
  <2> DEFINE later == {u \in Socks \ {Root} : number[u] = 0}
             k == First(later)
             free == Numbers \ {number[u] : u \in open}
             n == First(free)
  <2>a. later # {} /\ later \subseteq Nat /\ free # {} /\ free \subseteq Nat
    BY <1>2, SocksAreNat, DebugClientAssumption, Zenon DEF PendingConnection
  <2>b. k \in later /\ \A u \in later : k <= u
    BY <2>a, FirstIsLeast, Zenon
  <2>c. n \in free
    BY <2>a, FirstIsLeast, Zenon
  <2>d. k \in Socks /\ k # Root /\ number[k] = 0
    BY Zenon, <2>b
  <2>e. n \in Nat /\ n # 0 /\ \A u \in open : number[u] # n
    BY <2>c, DebugClientAssumption, Zenon
  <2>f. /\ number' = [number EXCEPT ![k] = n] /\ open' = open \cup {k}
        /\ event = NoEvent /\ event' = [sock |-> Root, new |-> k]
        /\ up /\ ~rootActive /\ Root \in attached
        /\ UNCHANGED <<rootActive, attached, up, answer, debugVars, activeVars, history>>
    BY Zenon, <1>2 DEF PendingConnection
  <2> HIDE DEF k, free, n
  <2>g. cur = NoEvent /\ answer = NULL
    BY Zenon, <2>f DEF EventInv
  <2>h. k \notin open /\ k \notin activeList
    BY Zenon, <2>d DEF NumberInv
  <2>i. \A u \in Socks : number'[u] = IF u = k THEN n ELSE number[u]
    BY Zenon, <2>d, <2>e, <2>f DEF TypeOK
  <2>1. EventInv'
    BY Zenon, <2>d, <2>f, <2>g, Domains, EventDomain DEF EventInv
  <2>2. CurInv'
    BY Zenon, <2>f, <2>g, Domains, EventDomain DEF CurInv, IsActive
  <2>3. NumberInv'
    <3>1. ASSUME NEW u \in Socks, u # Root, u < k PROVE number[u] # 0
      <4>1. u \notin later
        BY <2>b, <2>d, <3>1, SocksAreNat
      <4>2. QED
        BY Zenon, <3>1, <4>1
    <3> HIDE DEF later
    <3>2. \A u \in Socks : k < u => number[u] = 0
      BY Zenon, <2>d DEF NumberInv
    <3>3. \A u, v \in Socks : u < v /\ number'[v] # 0 /\ number'[u] = number'[v] => u \notin open'
      BY <2>d, <2>e, <2>f, <2>i, <3>2, SocksAreNat DEF NumberInv
    <3>4. ASSUME NEW u \in Socks, NEW v \in Socks, u # Root, u < v, number'[v] # 0
          PROVE  number'[u] # 0
      <4>1. CASE v = k
        BY Zenon, <2>i, <3>1, <3>4, <4>1
      <4>2. CASE v # k
        BY Zenon, <2>e, <2>i, <3>4, <4>2 DEF NumberInv
      <4>3. QED
        BY Zenon, <4>1, <4>2
    <3>5. \A u \in open' : u # Root => number'[u] # 0
      BY Zenon, <2>e, <2>f, <2>i DEF NumberInv, TypeOK
    <3>6. \A u \in activeList : number'[u] = number[u]
      BY Zenon, <2>h, <2>i DEF TypeOK
    <3>7. QED
      BY <2>d, <2>f, <2>g, <2>i, <3>3, <3>4, <3>5, <3>6, Domains, EventDomain DEF NumberInv
  <2>4. ListInv'
    <3>1. \A u \in attached \cup activeList : number'[u] = number[u]
      BY Zenon, <2>h, <2>i DEF TypeOK
    <3>2. \A u \in attached : Listed(u) => Listed(u)'
      BY Zenon, <2>f, <3>1 DEF Listed
    <3>3. dpc = "recv" \/ dpc \in Ending
      BY Zenon, <2>g, Domains, EventDomain DEF EventInv, TypeOK
    <3>4. ASSUME NEW u \in attached, dpc \notin Ending
          PROVE  ~IsActive(u) \/ u \in disagreed \/ Listed(u)
      BY Zenon, <2>f, <2>g, <3>3, <3>4, Domains, EventDomain DEF ListInv
    <3>5. QED
      BY Zenon, <2>f, <2>g, <3>2, <3>3, <3>4, Domains, EventDomain DEF ListInv, IsActive, Ending
  <2>5. ExchangeInv'
    <3>1. dpc \notin {"await", "join", "send"}
      BY Zenon, <2>g, Domains, EventDomain DEF EventInv, Handling
    <3>2. QED
      BY Zenon, <2>f, <3>1 DEF ExchangeInv, AnswerIsForEvent
  <2>6. QED
    BY <2>1, <2>2, <2>3, <2>4, <2>5, Zenon DEF IInv
<1>3. CASE Answered
  <2>1. EventInv'
    BY <1>3, Domains, EventDomain, Zenon DEF Answered, Attach, EventInv, IsPending
  <2>2. CurInv'
    BY Zenon, <1>3, EventDomain DEF Answered, Attach, CurInv, IsActive, EventInv, IsPending
  <2>3. NumberInv' /\ ExchangeInv'
    BY <1>0, <1>3, Zenon DEF Answered, Attach
  <2>4. ListInv'
    BY Zenon, <1>3, Domains, EventDomain DEF Answered, Attach, ListInv, Listed, IsActive,
      EventInv, CurInv, IsPending, Ending
  <2>5. QED
    BY <2>1, <2>2, <2>3, <2>4, Zenon DEF IInv
<1>4. CASE ClientGone
  <2>1. EventInv'
    BY <1>4, Domains, EventDomain, Zenon DEF ClientGone, Attach, EventInv
  <2>2. CurInv'
    BY Zenon, <1>4, Domains, EventDomain DEF ClientGone, Attach, CurInv, IsActive, EventInv
  <2>3. NumberInv' /\ ExchangeInv'
    BY <1>0, <1>4, Zenon DEF ClientGone, Attach
  <2>4. ListInv'
    BY Zenon, <1>4, Domains DEF ClientGone, Attach, ListInv, Listed, IsActive
  <2>5. QED
    BY <2>1, <2>2, <2>3, <2>4, Zenon DEF IInv
<1>5. CASE Freed(s)
  <2>1. EventInv'
    BY Zenon, <1>5, Domains, EventDomain DEF Freed, Attach, EventInv, TypeOK
  <2>2. CurInv'
    BY <1>5, Zenon DEF Freed, Attach, CurInv, IsActive
  <2>3. NumberInv' /\ ExchangeInv'
    BY <1>0, <1>5, Zenon DEF Freed, Attach
  <2>4. ListInv'
    BY Zenon, <1>5 DEF Freed, Attach, ListInv, Listed, IsActive, EventInv, TypeOK
  <2>5. QED
    BY <2>1, <2>2, <2>3, <2>4, Zenon DEF IInv
<1>6. CASE DaemonExits
  <2>1. EventInv'
    BY <1>6, Domains, EventDomain, Zenon DEF DaemonExits, Attach, EventInv
  <2>2. CurInv'
    BY Zenon, <1>6, Domains, EventDomain DEF DaemonExits, Attach, CurInv, IsActive, EventInv
  <2>3. NumberInv' /\ ExchangeInv'
    BY <1>0, <1>6, Zenon DEF DaemonExits, Attach
  <2>4. ListInv'
    BY Zenon, <1>6, Domains DEF DaemonExits, Attach, ListInv, Listed, IsActive
  <2>5. QED
    BY <2>1, <2>2, <2>3, <2>4, Zenon DEF IInv
<1>7. QED
  BY Zenon, <1>1, <1>2, <1>3, <1>4, <1>5, <1>6

\* The loop of active_thread preserves the invariant: it runs the handler only while the
\* debug thread waits for it.
LEMMA ActiveSteps ==
    ASSUME IInv, TypeOK', NEW t \in Socks,
           ActiveSleeps(t) \/ ActiveTakes(t) \/ ActiveResponds(t) \/ ActiveExits(t)
    PROVE  IInv'
<1> USE DEF daemonVars, debugVars, activeVars, history
<1> TypeOK /\ EventInv /\ CurInv /\ NumberInv /\ ListInv /\ ExchangeInv
  BY Zenon DEF IInv
<1>1. UNCHANGED <<daemonVars, debugVars, disagreed>>
  BY Zenon DEF ActiveSleeps, ActiveTakes, ActiveResponds, ActiveAnswer, ActiveExits
<1>2. EventInv' /\ CurInv'
  BY <1>1, Zenon DEF EventInv, CurInv, IsActive
<1>3. NumberInv' /\ ListInv'
  BY <1>1, Zenon DEF NumberInv, ListInv, Listed, IsActive
<1>4. ExchangeInv'
  <2>1. CASE ActiveSleeps(t)
    BY <2>1, Zenon DEF ActiveSleeps, ExchangeInv, AnswerIsForEvent
  <2>2. CASE ActiveTakes(t) \/ ActiveExits(t)
    <3>1. /\ UNCHANGED <<flag, response, given>>
          /\ apc'[t] = "handling" => flag[t] # NULL
          /\ \A u \in Socks \ {t} : apc'[u] = apc[u]
      BY Zenon, <2>2 DEF ActiveTakes, ActiveExits, TypeOK
    <3>2. QED
      BY Zenon, <1>1, <3>1 DEF ExchangeInv, AnswerIsForEvent
  <2>3. CASE ActiveResponds(t)
    <3>1. PICK r : response' = [response EXCEPT ![t] = r] /\ given' = r
      BY <2>3, Zenon DEF ActiveResponds, ActiveAnswer
    <3>2. apc[t] = "handling" /\ flag' = [flag EXCEPT ![t] = NULL]
      BY <2>3, Zenon DEF ActiveResponds, ActiveAnswer
    <3>3. flag[t] # NULL /\ item = t /\ dpc \in {"await", "killed"}
      BY Zenon, <3>2 DEF ExchangeInv
    <3>4. apc'[t] # "handling" /\ \A u \in Socks \ {t} : apc'[u] = apc[u]
      BY <2>3 DEF ActiveResponds, ActiveAnswer, TypeOK
    <3>5. /\ flag'[t] = NULL /\ response'[t] = r
          /\ \A u \in Socks \ {t} : flag'[u] = flag[u] /\ response'[u] = response[u]
      BY Zenon, <3>1, <3>2 DEF TypeOK
    <3>6. QED
      BY Zenon, <1>1, <3>1, <3>3, <3>4, <3>5 DEF ExchangeInv, AnswerIsForEvent
  <2>4. QED
    BY Zenon, <2>1, <2>2, <2>3
<1>5. QED
  BY <1>2, <1>3, <1>4, Zenon DEF IInv

\* debug_thread preserves the invariant while it handles an event, up to its answer.
LEMMA EventSteps ==
    ASSUME IInv, TypeOK',
           RecvEvent \/ ConnectionFails \/ OfferConnection \/ CreateActive \/ NoMemory \/ CallHandler
             \/ SendResponse
    PROVE  IInv'
<1> USE DEF daemonVars, debugVars, activeVars, history
<1> TypeOK /\ EventInv /\ CurInv /\ NumberInv /\ ListInv /\ ExchangeInv
  BY Zenon DEF IInv
<1>0. UNCHANGED <<daemonVars, cur, activeList>> => NumberInv'
  BY DEF NumberInv
<1>1. CASE RecvEvent
  <2>1. EventInv'
    BY Zenon, <1>1, Domains, EventDomain DEF RecvEvent, EventInv, IsPending, TypeOK, Handling,
      Ending
  <2>2. CurInv'
    BY Zenon, <1>1, Domains, EventDomain DEF RecvEvent, CurInv, IsActive, IsPending, EventInv,
      TypeOK
  <2>3. NumberInv'
    <3>1. event.sock \in open /\ event.sock \in Socks /\ (event.new # NULL => event.new \in open)
      BY Zenon, <1>1 DEF RecvEvent, EventInv, TypeOK
    <3>2. event.new # NULL => number[event.new] # 0
      BY Zenon, <3>1 DEF NumberInv, EventInv
    <3>3. ASSUME NEW t \in Socks, event.sock < t, number[t] # 0
          PROVE  number[t] # number[event.sock]
      BY Zenon, <3>1, <3>3 DEF NumberInv
    <3>4. QED
      BY Zenon, <1>1, <3>2, <3>3 DEF RecvEvent, NumberInv
  <2>4. ListInv'
    <3>1. event.sock \in attached /\ answer = NULL /\ dpc = "recv"
      BY Zenon, <1>1 DEF RecvEvent, EventInv
    <3>2. \A u \in attached : \/ ~IsActive(u) \/ u \in disagreed \/ Listed(u)
                              \/ rootActive /\ firstEvent
      BY Zenon, <3>1, Domains DEF ListInv, Ending
    <3>3. rootActive => event.sock = Root /\ ~IsPending(event)
      BY Zenon, <3>1 DEF CurInv, EventInv, IsPending, TypeOK
    <3>4. rootActive /\ firstEvent => dpc' = "create"
      BY Zenon, <1>1, <3>3 DEF RecvEvent, IsActive
    <3>5. dpc' = "pass" => event.sock \in disagreed \/ Listed(event.sock)
      BY Zenon, <1>1, <3>1, <3>2 DEF RecvEvent
    <3>6. (dpc' = "call" => event.new = NULL) /\ dpc' # "send"
      BY Zenon, <1>1 DEF RecvEvent, IsPending
    <3>7. UNCHANGED <<attached, disagreed, activeList, number, rootActive, answer>> /\ cur' = event
      BY Zenon, <1>1 DEF RecvEvent
    <3>8. QED
      BY Zenon, <3>1, <3>2, <3>4, <3>5, <3>6, <3>7, Domains DEF ListInv, Listed, IsActive
  <2>5. ExchangeInv'
    BY Zenon, <1>1 DEF RecvEvent, ExchangeInv, AnswerIsForEvent
  <2>6. QED
    BY <2>1, <2>2, <2>3, <2>4, <2>5, Zenon DEF IInv
<1>2. CASE ConnectionFails
  <2>1. EventInv'
    BY Zenon, <1>2 DEF ConnectionFails, EventInv, Handling, Ending
  <2>2. CurInv'
    BY <1>2, Zenon DEF ConnectionFails, CurInv, IsActive
  <2>3. NumberInv'
    BY <1>0, <1>2, Zenon DEF ConnectionFails
  <2>4. ListInv'
    BY Zenon, <1>2 DEF ConnectionFails, ListInv, Listed, IsActive, EventInv, Handling, Ending
  <2>5. ExchangeInv'
    BY <1>2, Zenon DEF ConnectionFails, ExchangeInv, AnswerIsForEvent
  <2>6. QED
    BY <2>1, <2>2, <2>3, <2>4, <2>5, Zenon DEF IInv
<1>3. CASE OfferConnection
  <2>1. EventInv'
    BY Zenon, <1>3 DEF OfferConnection, EventInv, Handling, Ending
  <2>2. CurInv'
    BY <1>3, Zenon DEF OfferConnection, CurInv, IsActive
  <2>3. NumberInv'
    BY <1>0, <1>3, Zenon DEF OfferConnection
  <2>4. ListInv'
    BY Zenon, <1>3 DEF OfferConnection, ListInv, Listed, IsActive, EventInv, CurInv, Handling,
      Ending
  <2>5. ExchangeInv'
    BY <1>3, Zenon DEF OfferConnection, ExchangeInv, AnswerIsForEvent
  <2>6. QED
    BY <2>1, <2>2, <2>3, <2>4, <2>5, Zenon DEF IInv
<1>4. CASE CreateActive
  <2>1. EventInv'
    BY Zenon, <1>4 DEF CreateActive, EventInv, Handling, Ending
  <2>2. CurInv'
    BY <1>4, Zenon DEF CreateActive, CurInv, IsActive
  <2>3. NumberInv'
    <3> DEFINE u == IF passive THEN cur.new ELSE cur.sock
    <3>1. IF u = Root THEN rootActive ELSE number[u] # 0
      <4>1. CASE rootActive
        BY Zenon, <1>4, <4>1 DEF CreateActive, CurInv, EventInv, Handling
      <4>2. CASE ~rootActive
        BY Zenon, <1>4, <4>2 DEF CreateActive, CurInv, NumberInv
      <4>3. QED
        BY Zenon, <4>1, <4>2
    <3>2. activeList' = activeList \cup {u} /\ UNCHANGED <<number, open, cur, rootActive>>
      BY <1>4, Zenon DEF CreateActive
    <3> HIDE DEF u
    <3>3. QED
      BY Zenon, <3>1, <3>2 DEF NumberInv
  <2>4. ListInv'
    BY Zenon, <1>4, Domains DEF CreateActive, ListInv, Listed, IsActive, EventInv, CurInv, TypeOK,
      Handling, Ending
  <2>5. ExchangeInv'
    <3> DEFINE u == IF passive THEN cur.new ELSE cur.sock
    <3>1. /\ dpc = "create" /\ dpc' \in {"pass", "call"}
          /\ apc' = apc \/ apc' = [apc EXCEPT ![u] = "wait"]
          /\ UNCHANGED <<item, flag, response>>
      BY Zenon, <1>4 DEF CreateActive
    <3> HIDE DEF u
    <3>2. \A t \in Socks : apc'[t] = "handling" => apc[t] = "handling"
      BY Zenon, <3>1 DEF TypeOK
    <3>3. \A t \in Socks : flag[t] = NULL /\ response[t] = NULL
      BY Zenon, <3>1 DEF ExchangeInv
    <3>4. QED
      BY Zenon, <3>1, <3>2, <3>3 DEF ExchangeInv, AnswerIsForEvent
  <2>6. QED
    BY <2>1, <2>2, <2>3, <2>4, <2>5, Zenon DEF IInv
<1>5. CASE NoMemory
  <2>1. EventInv'
    BY <1>5, Zenon DEF NoMemory, EventInv, Handling, Ending
  <2>2. CurInv'
    BY <1>5, Zenon DEF NoMemory, CurInv, IsActive
  <2>3. NumberInv'
    BY <1>0, <1>5, Zenon DEF NoMemory
  <2>4. ListInv'
    BY Zenon, <1>5 DEF NoMemory, ListInv, Listed, IsActive, EventInv, Handling, Ending
  <2>5. ExchangeInv'
    BY <1>5, Zenon DEF NoMemory, ExchangeInv, AnswerIsForEvent
  <2>6. QED
    BY <2>1, <2>2, <2>3, <2>4, <2>5, Zenon DEF IInv
<1>6. CASE CallHandler
  <2>1. EventInv'
    BY Zenon, <1>6 DEF CallHandler, EventInv, Handling, Ending
  <2>2. CurInv'
    BY <1>6, Zenon DEF CallHandler, CurInv, IsActive
  <2>3. NumberInv'
    BY <1>0, <1>6, Zenon DEF CallHandler
  <2>4. ListInv'
    BY Zenon, <1>6, Domains DEF CallHandler, ListInv, Listed, IsActive, EventInv, CurInv,
      IsPending, TypeOK, Handling, Ending
  <2>5. ExchangeInv'
    BY <1>6, Zenon DEF CallHandler, ExchangeInv, AnswerIsForEvent
  <2>6. QED
    BY <2>1, <2>2, <2>3, <2>4, <2>5, Zenon DEF IInv
<1>7. CASE SendResponse
  <2>1. EventInv'
    BY Zenon, <1>7, Domains, EventDomain DEF SendResponse, EventInv, Handling, Ending
  <2>2. CurInv'
    BY Zenon, <1>7, Domains, EventDomain DEF SendResponse, CurInv, IsActive, EventInv, Handling,
      Ending
  <2>3. NumberInv'
    BY Zenon, <1>7, Domains, EventDomain DEF SendResponse, NumberInv
  <2>4. ListInv'
    BY Zenon, <1>7, Domains, EventDomain DEF SendResponse, ListInv, Listed, IsActive, EventInv,
      Handling, Ending
  <2>5. ExchangeInv'
    BY <1>7, Zenon DEF SendResponse, ExchangeInv, AnswerIsForEvent
  <2>6. QED
    BY <2>1, <2>2, <2>3, <2>4, <2>5, Zenon DEF IInv
<1>8. QED
  BY Zenon, <1>1, <1>2, <1>3, <1>4, <1>5, <1>6, <1>7

\* send_and_get_from_active, and what debug_thread does with the thread it returns from,
\* preserve the invariant.
LEMMA ExchangeSteps ==
    ASSUME IInv, TypeOK',
           PassEvent \/ DebugSleeps \/ GetFromActive \/ JoinStopped \/ KillActive \/ KillAnswered
             \/ Reap \/ CloseConnection
    PROVE  IInv'
<1> USE DEF daemonVars, debugVars, activeVars, history
<1> TypeOK /\ EventInv /\ CurInv /\ NumberInv /\ ListInv /\ ExchangeInv
  BY Zenon DEF IInv
<1>0. UNCHANGED <<daemonVars, cur, activeList>> => NumberInv'
  BY DEF NumberInv
<1>1. CASE PassEvent
  <2>1. EventInv'
    BY Zenon, <1>1 DEF PassEvent, SendToActive, Broadcast, EventInv, Handling, Ending
  <2>2. CurInv'
    BY <1>1, Zenon DEF PassEvent, SendToActive, Broadcast, CurInv, IsActive
  <2>3. NumberInv'
    BY <1>0, <1>1, Zenon DEF PassEvent
  <2>4. ListInv'
    BY Zenon, <1>1 DEF PassEvent, SendToActive, Broadcast, ListInv, Listed, IsActive, CurInv,
      Handling, Ending
  <2>5. ExchangeInv'
    <3> DEFINE S == {t \in activeList : number[t] = number[cur.sock]}
               f == First(S)
    <3>1. dpc = "pass" /\ cur.sock \in Socks /\ IsActive(cur.sock)
      BY Zenon, <1>1, Domains, EventDomain DEF PassEvent, TypeOK, EventInv, CurInv, Handling
    <3>2. \A t \in Socks : flag[t] = NULL /\ response[t] = NULL /\ apc[t] # "handling"
      BY Zenon, <3>1 DEF ExchangeInv
    <3>3. UNCHANGED <<response, apc, number, cur, open, given, ret, disagreed>>
      BY Zenon, <1>1 DEF PassEvent, SendToActive
    <3>4. CASE S = {}
      <4>1. dpc' = "send" /\ UNCHANGED <<item, flag>>
        BY Zenon, <1>1, <3>4 DEF PassEvent
      <4>2. cur.sock \in disagreed
        BY Zenon, <3>1, <3>4 DEF ListInv, Listed
      <4>3. QED
        BY Zenon, <3>2, <3>3, <4>1, <4>2 DEF ExchangeInv, AnswerIsForEvent
    <3>5. CASE S # {}
      <4>1. S \subseteq Nat
        BY SocksAreNat, Zenon DEF TypeOK
      <4>2. f \in S
        BY <3>5, <4>1, FirstIsLeast, Zenon
      <4>3. dpc' = "await" /\ item' = f /\ flag' = [flag EXCEPT ![f] = "EVENT"]
        BY <1>1, <3>5, Zenon DEF PassEvent, SendToActive
      <4> HIDE DEF f
      <4>4. f \in Socks /\ f \in activeList /\ number[f] = number[cur.sock]
        BY Zenon, <4>2 DEF TypeOK
      <4> HIDE DEF S
      <4>5. number[f] = 0 => f = Root
        BY Zenon, <4>4 DEF NumberInv
      <4>6. number[f] = 0 => cur.sock = Root
        BY Zenon, <3>1, <4>4, <4>5, Domains DEF NumberInv, CurInv
      <4>7. f # cur.sock => f < cur.sock
        BY Zenon, <3>1, <4>4, <4>5, <4>6, SocksOrdered, Domains DEF NumberInv
      <4>8. f # cur.sock => f \notin open
        BY Zenon, <3>1, <4>4, <4>5, <4>6, <4>7 DEF NumberInv
      <4>9. QED
        <5>1. flag'[f] = "EVENT" /\ \A t \in Socks \ {f} : flag'[t] = NULL
          BY Zenon, <3>2, <4>3, <4>4 DEF TypeOK
        <5>2. QED
          BY Zenon, <3>2, <3>3, <4>3, <4>4, <4>7, <4>8, <5>1, Domains DEF ExchangeInv, AnswerIsForEvent
    <3>6. QED
      BY Zenon, <3>4, <3>5
  <2>6. QED
    BY <2>1, <2>2, <2>3, <2>4, <2>5, Zenon DEF IInv
<1>2. CASE DebugSleeps
  <2>1. EventInv'
    BY <1>2, Zenon DEF DebugSleeps, EventInv
  <2>2. CurInv'
    BY <1>2, Zenon DEF DebugSleeps, CurInv, IsActive
  <2>3. NumberInv'
    BY <1>0, <1>2, Zenon DEF DebugSleeps
  <2>4. ListInv'
    BY <1>2, Zenon DEF DebugSleeps, ListInv, Listed, IsActive
  <2>5. ExchangeInv'
    BY <1>2, Zenon DEF DebugSleeps, ExchangeInv, AnswerIsForEvent
  <2>6. QED
    BY <2>1, <2>2, <2>3, <2>4, <2>5, Zenon DEF IInv
<1>3. CASE GetFromActive
  <2>1. EventInv'
    BY Zenon, <1>3 DEF GetFromActive, EventInv, Handling, Ending
  <2>2. CurInv'
    BY <1>3, Zenon DEF GetFromActive, CurInv, IsActive
  <2>3. NumberInv'
    BY <1>0, <1>3, Zenon DEF GetFromActive
  <2>4. ListInv'
    BY Zenon, <1>3 DEF GetFromActive, ListInv, Listed, IsActive, CurInv, EventInv, Handling,
      Ending
  <2>5. ExchangeInv'
    <3>1. dpc = "await" /\ item \in Socks /\ response[item] # NULL
      BY Zenon, <1>3 DEF GetFromActive, ExchangeInv, TypeOK
    <3>2. given = response[item] /\ \A t \in Socks : flag[t] = NULL /\ apc[t] # "handling"
      BY Zenon, <3>1 DEF ExchangeInv
    <3>3. \A t \in Socks : response'[t] = NULL
      BY Zenon, <1>3, <3>1 DEF GetFromActive, ExchangeInv, TypeOK
    <3>4. /\ ret' = response[item] /\ dpc' = IF ret' = "STOP" THEN "join" ELSE "send"
          /\ UNCHANGED <<flag, apc, item, number, cur, open, given, disagreed>>
      BY Zenon, <1>3 DEF GetFromActive
    <3>5. QED
      BY Zenon, <3>1, <3>2, <3>3, <3>4 DEF ExchangeInv, AnswerIsForEvent
  <2>6. QED
    BY <2>1, <2>2, <2>3, <2>4, <2>5, Zenon DEF IInv
<1>4. CASE JoinStopped
  <2>1. EventInv'
    BY Zenon, <1>4 DEF JoinStopped, EventInv, Handling, Ending
  <2>2. CurInv'
    BY <1>4, Zenon DEF JoinStopped, CurInv, IsActive
  <2>3. NumberInv'
    BY <1>4, Zenon DEF JoinStopped, NumberInv
  <2>4. ListInv'
    <3>1. dpc = "join" /\ answer = NULL /\ cur.new = NULL
      BY Zenon, <1>4 DEF JoinStopped, CurInv, EventInv
    <3>2. /\ activeList' = activeList \ {item} /\ dpc' = IF passive THEN "send" ELSE "kill"
          /\ UNCHANGED <<attached, disagreed, number, rootActive, answer, event, ret, cur, passive>>
      BY Zenon, <1>4 DEF JoinStopped
    <3>3. number[item] = number[cur.sock] /\ ret = "STOP"
      BY Zenon, <3>1 DEF ExchangeInv
    <3>4. ASSUME passive, NEW u \in attached, IsActive(u), u \notin disagreed, u # event.sock
          PROVE  Listed(u)'
      <4>1. event = cur /\ cur.sock \in open /\ u \in open
        BY Zenon, <3>1, <3>4, Domains, EventDomain DEF EventInv, TypeOK, Handling
      <4>2. ~rootActive /\ u # Root /\ number[u] # 0
        BY Zenon, <3>4, <4>1 DEF CurInv, NumberInv, IsActive
      <4>3. PICK t \in activeList : number[t] = number[u]
        BY Zenon, <3>1, <3>4, <4>2, Domains DEF ListInv, Listed, Ending
      <4>4. u \in Socks /\ cur.sock \in Socks /\ u # cur.sock
        BY Zenon, <3>4, <4>1 DEF TypeOK
      <4>5. u < cur.sock \/ cur.sock < u
        BY Zenon, <4>4, SocksOrdered
      <4>6. number[u] # number[cur.sock]
        BY Zenon, <4>1, <4>2, <4>4, <4>5 DEF NumberInv
      <4>7. QED
        BY Zenon, <3>2, <3>3, <4>3, <4>6 DEF Listed
    <3>5. QED
      BY Zenon, <3>1, <3>2, <3>3, <3>4, Domains DEF ListInv, IsActive, Ending
  <2>5. ExchangeInv'
    BY <1>4, Zenon DEF JoinStopped, ExchangeInv, AnswerIsForEvent
  <2>6. QED
    BY <2>1, <2>2, <2>3, <2>4, <2>5, Zenon DEF IInv
<1>5. CASE KillActive
  <2>1. EventInv'
    BY Zenon, <1>5 DEF KillActive, SendToActive, Broadcast, EventInv, Handling, Ending
  <2>2. CurInv'
    BY <1>5, Zenon DEF KillActive, SendToActive, Broadcast, CurInv, IsActive
  <2>3. NumberInv'
    BY <1>0, <1>5, Zenon DEF KillActive
  <2>4. ListInv'
    BY Zenon, <1>5 DEF KillActive, SendToActive, Broadcast, ListInv, Listed, IsActive, Handling,
      Ending
  <2>5. ExchangeInv'
    <3> DEFINE f == First(activeList)
    <3>1. activeList # {} /\ activeList \subseteq Nat
      BY <1>5, SocksAreNat, Zenon DEF KillActive, TypeOK
    <3>2. f \in Socks
      BY <3>1, FirstIsLeast, Zenon DEF TypeOK
    <3>3. \A t \in Socks : flag[t] = NULL /\ response[t] = NULL /\ apc[t] # "handling"
      BY <1>5, Zenon DEF KillActive, ExchangeInv
    <3>4. /\ dpc' = "killed" /\ item' = f /\ flag' = [flag EXCEPT ![f] = "KILL"]
          /\ UNCHANGED <<apc, response>>
      BY Zenon, <1>5 DEF KillActive, SendToActive
    <3> HIDE DEF f
    <3>5. QED
      <4>1. flag'[f] = "KILL" /\ \A t \in Socks \ {f} : flag'[t] = NULL
        BY Zenon, <3>2, <3>3, <3>4 DEF TypeOK
      <4>2. QED
        BY Zenon, <3>2, <3>3, <3>4, <4>1, Domains DEF ExchangeInv, AnswerIsForEvent
  <2>6. QED
    BY <2>1, <2>2, <2>3, <2>4, <2>5, Zenon DEF IInv
<1>6. CASE KillAnswered
  <2>1. EventInv'
    BY Zenon, <1>6 DEF KillAnswered, EventInv, Handling, Ending
  <2>2. CurInv'
    BY <1>6, Zenon DEF KillAnswered, CurInv, IsActive
  <2>3. NumberInv'
    BY <1>0, <1>6, Zenon DEF KillAnswered
  <2>4. ListInv'
    BY Zenon, <1>6 DEF KillAnswered, ListInv, Listed, IsActive, Handling, Ending
  <2>5. ExchangeInv'
    <3>1. /\ dpc = "killed" /\ dpc' = "reap" /\ item \in Socks
          /\ response' = [response EXCEPT ![item] = NULL] /\ UNCHANGED <<item, flag, apc>>
          /\ response[item] # NULL
      BY <1>6, Zenon DEF KillAnswered, ExchangeInv, TypeOK
    <3>2. \A t \in Socks : flag[t] = NULL /\ apc[t] # "handling" /\ (response[t] # NULL => t = item)
      BY Zenon, <3>1 DEF ExchangeInv
    <3>3. \A t \in Socks : response'[t] = NULL
      BY Zenon, <3>1, <3>2 DEF TypeOK
    <3>4. QED
      BY Zenon, <3>1, <3>2, <3>3, Domains DEF ExchangeInv, AnswerIsForEvent
  <2>6. QED
    BY <2>1, <2>2, <2>3, <2>4, <2>5, Zenon DEF IInv
<1>7. CASE Reap
  <2>1. EventInv'
    BY <1>7, Zenon DEF Reap, EventInv, Handling, Ending
  <2>2. CurInv'
    BY <1>7, Zenon DEF Reap, CurInv, IsActive
  <2>3. NumberInv'
    BY <1>7, Zenon DEF Reap, NumberInv
  <2>4. ListInv'
    BY Zenon, <1>7, Domains DEF Reap, ListInv, Listed, IsActive, EventInv, Handling, Ending
  <2>5. ExchangeInv'
    BY <1>7, Zenon DEF Reap, ExchangeInv, AnswerIsForEvent
  <2>6. QED
    BY <2>1, <2>2, <2>3, <2>4, <2>5, Zenon DEF IInv
<1>8. CASE CloseConnection
  <2>1. EventInv'
    BY <1>8, Zenon DEF CloseConnection, EventInv, Handling, Ending
  <2>2. CurInv'
    BY <1>8, Zenon DEF CloseConnection, CurInv, IsActive
  <2>3. NumberInv'
    BY <1>0, <1>8, Zenon DEF CloseConnection
  <2>4. ListInv'
    BY Zenon, <1>8 DEF CloseConnection, ListInv, Listed, IsActive, Handling, Ending
  <2>5. ExchangeInv'
    BY <1>8, Zenon DEF CloseConnection, ExchangeInv, AnswerIsForEvent
  <2>6. QED
    BY <2>1, <2>2, <2>3, <2>4, <2>5, Zenon DEF IInv
<1>9. QED
  BY Zenon, <1>1, <1>2, <1>3, <1>4, <1>5, <1>6, <1>7, <1>8

\* The invariant holds of the first states, and every step preserves it.
LEMMA Inductive == Spec => []IInv
<1>1. Init => IInv
  <2> SUFFICES ASSUME Init PROVE IInv
    BY Zenon
  <2> USE Domains, EventDomain DEF Init
  <2>1. TypeOK
    BY Zenon DEF TypeOK, AllResponses, Handling
  <2>2. EventInv /\ CurInv /\ NumberInv
    BY Zenon, SocksAreNat DEF EventInv, CurInv, NumberInv, Handling
  <2>3. ListInv /\ ExchangeInv
    BY Zenon DEF ListInv, ExchangeInv, IsActive, AnswerIsForEvent
  <2>4. QED
    BY Zenon, <2>1, <2>2, <2>3 DEF IInv
<1>2. IInv /\ [Next]_vars => IInv'
  <2> SUFFICES ASSUME IInv, [Next]_vars PROVE IInv'
    BY Zenon
  <2>1. CASE Next
    <3>1. TypeOK'
      BY Zenon, <2>1, TypeStep
    <3>2. QED
      BY Zenon, <2>1, <3>1, DaemonSteps, ActiveSteps, EventSteps, ExchangeSteps, Domains
         DEF Next, ActiveStep, DebugStep
  <2>2. CASE UNCHANGED vars
    <3> USE <2>2 DEF vars, daemonVars, debugVars, activeVars, history
    <3>1. TypeOK'
      BY Zenon DEF IInv, TypeOK
    <3>2. EventInv'
      BY Zenon DEF IInv, EventInv
    <3>3. CurInv'
      BY Zenon DEF IInv, CurInv, IsActive
    <3>4. NumberInv'
      BY Zenon DEF IInv, NumberInv
    <3>5. ListInv'
      BY Zenon DEF IInv, ListInv, Listed, IsActive
    <3>6. ExchangeInv'
      BY Zenon DEF IInv, ExchangeInv, AnswerIsForEvent
    <3>7. QED
      BY <3>1, <3>2, <3>3, <3>4, <3>5, <3>6, Zenon DEF IInv
  <2>3. QED
    BY Zenon, <2>1, <2>2
<1>3. QED
  BY <1>1, <1>2, PTL DEF Spec

\* Whatever the daemon, the network and the handler do, and however many connections are
\* monitored, debug_thread answers an event with what the handler returned for it, except
\* for a connection that the handler accepted in its second call only.
THEOREM ResponsesMatchEvents == Spec => []AnswerIsForEvent
<1>1. IInv => AnswerIsForEvent
  BY Zenon DEF IInv, ExchangeInv
<1>2. QED
  BY <1>1, Inductive, PTL

\* DL_SEARCH_SCALAR finds the thread of the event's connection, for any reuse of socket
\* numbers, unless an earlier connection with that number was freed and has its thread
\* still in active_list.
THEOREM HandlersRunInTheirThread == Spec => []HandledByItsThread
<1>1. IInv => HandledByItsThread
  <2> SUFFICES ASSUME IInv, NEW t \in Socks,
                      apc[t] = "handling", flag[t] = "EVENT", t # cur.sock
               PROVE  t < cur.sock /\ number[t] = number[cur.sock] /\ t \notin open
    BY Zenon DEF HandledByItsThread
  <2>1. item = t /\ dpc = "await"
    BY Zenon, Domains DEF IInv, ExchangeInv
  <2>2. QED
    BY Zenon, <2>1 DEF IInv, ExchangeInv
<1>2. QED
  BY <1>1, Inductive, PTL
=============================================================================
