----------------------- MODULE SegmentDelivery_proofs -----------------------
(***************************************************************************)
(* Proofs about the delivery of segments, for any number of peers, ports   *)
(* and segments: the segments of a connection that no debug response held  *)
(* back are delivered in order, every segment that has arrived is in one   *)
(* place, and the delivery thread does not sleep beside a queue that holds *)
(* segments.                                                               *)
(*                                                                         *)
(* The identity of a segment is its key: connection, number, and whether   *)
(* it is the copy.  The seven kinds of places (hands, lists, sockets, the  *)
(* dropped segments) have sets of keys that are pairwise disjoint, and no  *)
(* place has a key twice.  Each step moves keys from one kind of place to  *)
(* another (MoveKeeps), or adds a new key.                                 *)
(***************************************************************************)
EXTENDS SegmentDelivery, TLAPS

Key(x) == <<x.conn, x.num, x.copy>>

\* The keys in a list, in the hands of threads, and in a family of lists; and
\* that no key is there twice.
ListKeys(s) == {Key(s[i]) : i \in DOMAIN s}
ListApart(s) == \A i, j \in DOMAIN s : Key(s[i]) = Key(s[j]) => i = j
HeldKeys(f) == {Key(f[d]) : d \in {e \in DOMAIN f : f[e] # NULL}}
HeldApart(f) ==
    \A d, e \in DOMAIN f : f[d] # NULL /\ f[e] # NULL /\ Key(f[d]) = Key(f[e]) => d = e
ShelfKeys(w) == UNION {ListKeys(w[s]) : s \in DOMAIN w}
ShelfApart(w) ==
    /\ \A s \in DOMAIN w : ListApart(w[s])
    /\ \A s, t \in DOMAIN w : ListKeys(w[s]) \cap ListKeys(w[t]) # {} => s = t
SetApart(L) == \A x, y \in L : Key(x) = Key(y) => x = y

\* The keys in each kind of place.
Names == {"hand", "drawn", "sdraw", "queue", "delivered", "withheld", "lost"}
Where ==
    [p \in Names |->
        CASE p = "hand" -> HeldKeys(hand)
          [] p = "drawn" -> HeldKeys(drawn)
          [] p = "sdraw" -> HeldKeys(sdraw)
          [] p = "queue" -> ListKeys(delivery_queue)
          [] p = "delivered" -> ShelfKeys(delivered)
          [] p = "withheld" -> ShelfKeys(withheld)
          [] p = "lost" -> {Key(x) : x \in lost}]
Apart(A) == \A p, q \in Names : p # q => A[p] \cap A[q] = {}
Placed(k) == \E p \in Names : k \in Where[p]

DeliveryType ==
    /\ latency \in BOOLEAN
    /\ withheld \in [Sockets -> Seq(Segments)]
    /\ delivery_queue \in Seq(Segments)
    /\ arrived \in [Conns -> 0..MaxSegments]
    /\ delivered \in [Conns -> Seq(Segments)]
    /\ lost \subseteq Segments
    /\ npc \in [NetThreads -> {"idle", "breakpoint", "decide", "queue", "deliver",
                               "drawn", "drawn_deliver"}]
    /\ entry \in [NetThreads -> Sockets \cup {NULL}]
    /\ hand \in [NetThreads -> Segments \cup {NULL}]
    /\ drawn \in [NetThreads -> Segments \cup {NULL}]
    /\ ahead \in [NetThreads -> SUBSET Segments]
    /\ dpc \in {"check", "head", "deliver", "sleep", "timed_sleep", "woken", "exit"}
    /\ sdraw \in [Sockets -> Segments \cup {NULL}]

\* What a thread has at each of its steps.  A segment in hand is the last one
\* that arrived on its connection, whose peer the thread serves.
ThreadsMatch ==
    \A n \in NetThreads :
        /\ npc[n] # "idle" => entry[n] \in Sockets
        /\ npc[n] \in {"breakpoint", "decide", "queue", "deliver"} <=> hand[n] # NULL
        /\ npc[n] \in {"idle", "breakpoint"} => drawn[n] = NULL
        /\ npc[n] \in {"drawn", "drawn_deliver"} => drawn[n] # NULL
        /\ hand[n] # NULL => /\ hand[n].conn[1] = n
                             /\ hand[n].num = arrived[hand[n].conn]
                             /\ hand[n].copy = FALSE
                             /\ hand[n].route = "rcvd"
        /\ drawn[n] # NULL => drawn[n].route = "withheld"
DrawsMatch == \A s \in Sockets : sdraw[s] # NULL => sdraw[s].route = "withheld"
DeliveredToOwn == \A c \in Conns : \A i \in DOMAIN delivered[c] : delivered[c][i].conn = c
HeadKept == (dpc = "deliver" => delivery_queue # <<>>) /\ QueueAttended
HandsMatch == ThreadsMatch /\ DrawsMatch /\ DeliveredToOwn /\ HeadKept

\* No key is in two places.
OneOfEach ==
    /\ HeldApart(hand) /\ HeldApart(drawn) /\ HeldApart(sdraw)
    /\ ListApart(delivery_queue)
    /\ ShelfApart(delivered) /\ ShelfApart(withheld)
    /\ SetApart(lost)
    /\ Apart(Where)

\* The keys are those of the segments that have arrived, and of copies.  The
\* copy of a segment is made when its thread goes on from the breakpoint.
ArrivedPlaced ==
    /\ \A c \in Conns : \A m \in 1..MaxSegments :
          /\ m <= arrived[c] => Placed(<<c, m, FALSE>>)
          /\ \A b \in BOOLEAN : Placed(<<c, m, b>>) => m <= arrived[c]
    /\ \A n \in NetThreads :
          npc[n] = "breakpoint" => ~Placed(<<hand[n].conn, hand[n].num, TRUE>>)

\* A segment that was queued when another one arrived never gets back into the
\* queue, and none of them is in the queue when that other one is delivered.
AheadGone ==
    \A n \in NetThreads : \A x \in ahead[n] :
        /\ Key(x) \in Where["queue"] \cup Where["delivered"] \cup Where["lost"]
        /\ hand[n] # NULL => x.conn = hand[n].conn
        /\ npc[n] = "deliver" => Key(x) \notin Where["queue"]

Received(x) == x.route = "rcvd"

\* Of the segments of a connection that have not been held back, the delivered
\* ones come first, then those in the queue, then the one in hand.
DeliveredOrder ==
    \A c \in Conns : \A i, j \in DOMAIN delivered[c] :
        i < j /\ Received(delivered[c][i]) /\ Received(delivered[c][j])
           => delivered[c][i].num < delivered[c][j].num
QueueOrder ==
    \A i, j \in DOMAIN delivery_queue :
        i < j /\ Received(delivery_queue[i]) /\ Received(delivery_queue[j])
              /\ delivery_queue[i].conn = delivery_queue[j].conn
           => delivery_queue[i].num < delivery_queue[j].num
DeliveredFirst ==
    \A c \in Conns : \A i \in DOMAIN delivered[c], j \in DOMAIN delivery_queue :
        Received(delivered[c][i]) /\ Received(delivery_queue[j]) /\ delivery_queue[j].conn = c
           => delivered[c][i].num < delivery_queue[j].num
HandLast ==
    \A n \in NetThreads : \A h \in Segments : hand[n] = h =>
        /\ \A i \in DOMAIN delivered[h.conn] :
              Received(delivered[h.conn][i]) => delivered[h.conn][i].num < h.num
        /\ \A j \in DOMAIN delivery_queue :
              Received(delivery_queue[j]) /\ delivery_queue[j].conn = h.conn
                 => delivery_queue[j].num < h.num /\ npc[n] # "deliver"
InOrder == DeliveredOrder /\ QueueOrder /\ DeliveredFirst /\ HandLast

DeliveryInv ==
    DeliveryType /\ HandsMatch /\ OneOfEach /\ ArrivedPlaced /\ AheadGone /\ InOrder

-----------------------------------------------------------------------------
(* Keys in lists, in hands and in families of lists.                       *)

\* The elements of a list to which one is appended.
LEMMA AppendCells ==
    ASSUME NEW S, NEW s \in Seq(S), NEW x \in S
    PROVE  /\ Append(s, x) \in Seq(S)
           /\ Len(s) \in Nat
           /\ DOMAIN s = 1..Len(s)
           /\ DOMAIN Append(s, x) = 1..(Len(s) + 1)
           /\ \A i \in 1..Len(s) : Append(s, x)[i] = s[i]
           /\ Append(s, x)[Len(s) + 1] = x
<1>1. /\ Append(s, x) \in Seq(S) /\ Len(Append(s, x)) = Len(s) + 1
      /\ \A i \in 1..Len(s) : Append(s, x)[i] = s[i]
      /\ Append(s, x)[Len(s) + 1] = x
  OBVIOUS
<1>2. Len(s) \in Nat /\ DOMAIN s = 1..Len(s)
  OBVIOUS
<1>3. DOMAIN Append(s, x) = 1..Len(Append(s, x))
  BY <1>1
<1> QED BY Zenon, <1>1, <1>2, <1>3

\* The elements of a list without its head.
LEMMA TailCells ==
    ASSUME NEW S, NEW s \in Seq(S), s # <<>>
    PROVE  /\ Tail(s) \in Seq(S) /\ Head(s) \in S
           /\ Len(s) \in Nat \ {0}
           /\ DOMAIN s = 1..Len(s)
           /\ Head(s) = s[1]
           /\ DOMAIN Tail(s) = 1..(Len(s) - 1)
           /\ \A i \in 1..(Len(s) - 1) : Tail(s)[i] = s[i + 1]
<1>1. /\ Head(s) \in S /\ Tail(s) \in Seq(S) /\ Len(Tail(s)) = Len(s) - 1
      /\ \A i \in 1..Len(Tail(s)) : Tail(s)[i] = s[i + 1]
  OBVIOUS
<1>2. Len(s) \in Nat \ {0} /\ DOMAIN s = 1..Len(s)
  OBVIOUS
<1>3. DOMAIN Tail(s) = 1..Len(Tail(s))
  BY <1>1
<1>4. Head(s) = s[1]
  OBVIOUS
<1> QED BY Zenon, <1>1, <1>2, <1>3, <1>4

\* Appending adds one key.
LEMMA AppendKeys ==
    ASSUME NEW S, NEW s \in Seq(S), NEW x \in S
    PROVE  /\ ListKeys(Append(s, x)) = ListKeys(s) \cup {Key(x)}
           /\ ListApart(s) /\ Key(x) \notin ListKeys(s) => ListApart(Append(s, x))
<1> DEFINE a == Append(s, x)
<1>1. /\ Len(s) \in Nat /\ DOMAIN s = 1..Len(s) /\ DOMAIN a = 1..(Len(s) + 1)
      /\ \A i \in 1..Len(s) : a[i] = s[i]
      /\ a[Len(s) + 1] = x
  BY AppendCells
<1> HIDE DEF a
<1>2. \A i \in 1..(Len(s) + 1) : i \in 1..Len(s) \/ i = Len(s) + 1
  BY <1>1
<1>3. Len(s) + 1 \in 1..(Len(s) + 1) /\ \A i \in 1..Len(s) : i \in 1..(Len(s) + 1)
  BY <1>1
<1>4. ListKeys(a) = ListKeys(s) \cup {Key(x)}
  BY Zenon, <1>1, <1>2, <1>3 DEF ListKeys
<1>5. ASSUME ListApart(s), Key(x) \notin ListKeys(s)
      PROVE  ListApart(a)
  <2> SUFFICES ASSUME NEW i \in 1..(Len(s) + 1), NEW j \in 1..(Len(s) + 1), Key(a[i]) = Key(a[j])
               PROVE  i = j
    BY Zenon, <1>1 DEF ListApart
  <2>1. CASE i \in 1..Len(s) /\ j \in 1..Len(s)
    BY Zenon, <1>1, <1>5, <2>1 DEF ListApart
  <2>2. CASE i \in 1..Len(s) /\ j = Len(s) + 1
    BY Zenon, <1>1, <1>5, <2>2 DEF ListKeys
  <2>3. CASE i = Len(s) + 1 /\ j \in 1..Len(s)
    BY Zenon, <1>1, <1>5, <2>3 DEF ListKeys
  <2> QED BY Zenon, <1>2, <2>1, <2>2, <2>3
<1> QED BY Zenon, <1>4, <1>5 DEF a

\* Taking the head removes its key.
LEMMA TailKeys ==
    ASSUME NEW S, NEW s \in Seq(S), s # <<>>, ListApart(s)
    PROVE  /\ Key(Head(s)) \in ListKeys(s)
           /\ ListKeys(Tail(s)) = ListKeys(s) \ {Key(Head(s))}
           /\ ListApart(Tail(s))
<1> DEFINE a == Tail(s)
<1>1. /\ Len(s) \in Nat \ {0} /\ DOMAIN s = 1..Len(s) /\ DOMAIN a = 1..(Len(s) - 1)
      /\ Head(s) = s[1]
      /\ \A i \in 1..(Len(s) - 1) : a[i] = s[i + 1]
  BY Zenon, TailCells
<1> HIDE DEF a
<1>2. 1 \in DOMAIN s /\ \A i \in DOMAIN a : i + 1 \in DOMAIN s /\ i + 1 # 1
  BY <1>1
<1>3. \A i \in DOMAIN s : i # 1 => i - 1 \in DOMAIN a /\ (i - 1) + 1 = i
  BY <1>1
<1>4. Key(Head(s)) \in ListKeys(s)
  BY Zenon, <1>1, <1>2 DEF ListKeys
<1>5. ListKeys(a) \subseteq ListKeys(s) \ {Key(Head(s))}
  BY <1>1, <1>2 DEF ListKeys, ListApart
<1>6. ListKeys(s) \ {Key(Head(s))} \subseteq ListKeys(a)
  <2> SUFFICES ASSUME NEW i \in DOMAIN s, Key(s[i]) # Key(s[1])
               PROVE  Key(s[i]) \in ListKeys(a)
    BY Zenon, <1>1 DEF ListKeys
  <2>1. i - 1 \in DOMAIN a /\ a[i - 1] = s[i]
    BY Zenon, <1>1, <1>3
  <2> QED BY Zenon, <2>1 DEF ListKeys
<1>7. ListApart(a)
  <2> SUFFICES ASSUME NEW i \in DOMAIN a, NEW j \in DOMAIN a, Key(a[i]) = Key(a[j])
               PROVE  i = j
    BY Zenon DEF ListApart
  <2>1. a[i] = s[i + 1] /\ a[j] = s[j + 1]
    BY Zenon, <1>1
  <2>2. i + 1 = j + 1
    BY Zenon, <1>2, <2>1 DEF ListApart
  <2> QED BY <1>1, <2>2
<1> QED BY Zenon, <1>4, <1>5, <1>6, <1>7 DEF a

\* A thread lets go of a segment.
LEMMA HeldDrop ==
    ASSUME NEW D, NEW T, NEW f \in [D -> T], NEW d \in D, f[d] # NULL, HeldApart(f)
    PROVE  /\ Key(f[d]) \in HeldKeys(f)
           /\ HeldKeys([f EXCEPT ![d] = NULL]) = HeldKeys(f) \ {Key(f[d])}
           /\ HeldApart([f EXCEPT ![d] = NULL])
BY Zenon DEF HeldKeys, HeldApart

\* A thread takes a segment.
LEMMA HeldTake ==
    ASSUME NEW D, NEW f \in [D -> Segments \cup {NULL}], NEW d \in D, f[d] = NULL,
           NEW x \in Segments, HeldApart(f), Key(x) \notin HeldKeys(f)
    PROVE  /\ HeldKeys([f EXCEPT ![d] = x]) = HeldKeys(f) \cup {Key(x)}
           /\ HeldApart([f EXCEPT ![d] = x])
BY DeliveryAssumption DEF HeldKeys, HeldApart

\* One list of a family is replaced by one that has its keys and more.
LEMMA ShelfGrows ==
    ASSUME NEW D, NEW T, NEW w \in [D -> T], NEW s \in D, NEW l,
           ListKeys(w[s]) \subseteq ListKeys(l)
    PROVE  \A k : k \in ShelfKeys([w EXCEPT ![s] = l]) <=> k \in ShelfKeys(w) \cup ListKeys(l)
<1> DEFINE v == [w EXCEPT ![s] = l]
<1>0. DOMAIN v = D /\ DOMAIN w = D /\ v[s] = l /\ \A t \in D \ {s} : v[t] = w[t]
  BY Zenon
<1> HIDE DEF v
<1>1. \A k : k \in ShelfKeys(v) <=> k \in ShelfKeys(w) \cup ListKeys(l)
  BY Zenon, <1>0 DEF ShelfKeys
<1> QED BY Zenon, <1>1 DEF v

\* One list of a family is replaced by one that has some of its keys.
LEMMA ShelfShrinks ==
    ASSUME NEW D, NEW T, NEW w \in [D -> T], NEW s \in D, NEW l,
           ShelfApart(w), ListKeys(l) \subseteq ListKeys(w[s])
    PROVE  /\ ListKeys(w[s]) \subseteq ShelfKeys(w)
           /\ \A k : k \in ShelfKeys([w EXCEPT ![s] = l])
                       <=> k \in ShelfKeys(w) \ (ListKeys(w[s]) \ ListKeys(l))
<1> DEFINE v == [w EXCEPT ![s] = l]
<1>0. DOMAIN v = D /\ DOMAIN w = D /\ v[s] = l /\ \A t \in D \ {s} : v[t] = w[t]
  BY Zenon
<1> HIDE DEF v
<1>1. \A k : k \in ShelfKeys(v) => k \in ShelfKeys(w) /\ k \notin ListKeys(w[s]) \ ListKeys(l)
  BY <1>0 DEF ShelfKeys, ShelfApart
<1>2. \A k : k \in ShelfKeys(w) /\ k \notin ListKeys(w[s]) \ ListKeys(l) => k \in ShelfKeys(v)
  BY Zenon, <1>0 DEF ShelfKeys
<1>3. \A k : k \in ShelfKeys(v) <=> k \in ShelfKeys(w) \ (ListKeys(w[s]) \ ListKeys(l))
  BY Zenon, <1>1, <1>2
<1>4. ListKeys(w[s]) \subseteq ShelfKeys(w)
  BY Zenon, <1>0 DEF ShelfKeys
<1> QED BY Zenon, <1>3, <1>4 DEF v

\* One list of a family is replaced, and what is new in it is nowhere else.
LEMMA ShelfStaysApart ==
    ASSUME NEW D, NEW T, NEW w \in [D -> T], NEW s \in D, NEW l,
           ShelfApart(w), ListApart(l), ListKeys(l) \cap ShelfKeys(w) \subseteq ListKeys(w[s])
    PROVE  ShelfApart([w EXCEPT ![s] = l])
<1> DEFINE v == [w EXCEPT ![s] = l]
<1>0. DOMAIN v = D /\ DOMAIN w = D /\ v[s] = l /\ \A t \in D \ {s} : v[t] = w[t]
  BY Zenon
<1> HIDE DEF v
<1>1. \A t \in D : ListApart(v[t])
  BY Zenon, <1>0 DEF ShelfApart
<1>2. \A u \in D \ {s} : ListKeys(l) \cap ListKeys(w[u]) = {}
  <2> SUFFICES ASSUME NEW u \in D \ {s}, NEW k, k \in ListKeys(l), k \in ListKeys(w[u])
               PROVE  FALSE
    BY Zenon
  <2>1. k \in ListKeys(w[s])
    BY Zenon, <1>0 DEF ShelfKeys
  <2> QED BY Zenon, <1>0, <2>1 DEF ShelfApart
<1>3. \A t, u \in D : ListKeys(v[t]) \cap ListKeys(v[u]) # {} => t = u
  BY <1>0, <1>2 DEF ShelfApart
<1>4. ShelfApart(v)
  BY Zenon, <1>0, <1>1, <1>3 DEF ShelfApart
<1> QED BY Zenon, <1>4 DEF v

\* A segment is appended to one list of a family.
LEMMA ShelfAppend ==
    ASSUME NEW D, NEW S, NEW w \in [D -> Seq(S)], NEW s \in D, NEW x \in S, ShelfApart(w),
           Key(x) \notin ShelfKeys(w)
    PROVE  /\ ShelfKeys([w EXCEPT ![s] = Append(@, x)]) = ShelfKeys(w) \cup {Key(x)}
           /\ ShelfApart([w EXCEPT ![s] = Append(@, x)])
<1> DEFINE l == Append(w[s], x)
<1>0. w[s] \in Seq(S) /\ ListApart(w[s]) /\ ListKeys(w[s]) \subseteq ShelfKeys(w)
  BY Zenon DEF ShelfApart, ShelfKeys
<1>1. ListKeys(l) = ListKeys(w[s]) \cup {Key(x)} /\ ListApart(l)
  BY <1>0, AppendKeys
<1> HIDE DEF l
<1>2. ListKeys(l) \cap ShelfKeys(w) \subseteq ListKeys(w[s])
  BY Zenon, <1>1
<1>3. ListKeys(w[s]) \subseteq ListKeys(l)
  BY Zenon, <1>1
<1>4. ShelfKeys([w EXCEPT ![s] = l]) = ShelfKeys(w) \cup ListKeys(l)
  BY Zenon, <1>3, ShelfGrows
<1>5. ShelfApart([w EXCEPT ![s] = l])
  BY Zenon, <1>1, <1>2, ShelfStaysApart
<1> QED BY Zenon, <1>0, <1>1, <1>4, <1>5 DEF l

\* The head of one list of a family is taken.
LEMMA ShelfTail ==
    ASSUME NEW D, NEW S, NEW w \in [D -> Seq(S)], NEW s \in D, w[s] # <<>>, ShelfApart(w)
    PROVE  /\ Key(Head(w[s])) \in ShelfKeys(w)
           /\ ShelfKeys([w EXCEPT ![s] = Tail(w[s])]) = ShelfKeys(w) \ {Key(Head(w[s]))}
           /\ ShelfApart([w EXCEPT ![s] = Tail(w[s])])
<1> DEFINE l == Tail(w[s])
<1>0. w[s] \in Seq(S) /\ ListApart(w[s]) /\ ListKeys(w[s]) \subseteq ShelfKeys(w)
  BY Zenon DEF ShelfApart, ShelfKeys
<1>1. /\ Key(Head(w[s])) \in ListKeys(w[s])
      /\ ListKeys(l) = ListKeys(w[s]) \ {Key(Head(w[s]))} /\ ListApart(l)
  BY Zenon, <1>0, TailKeys
<1> HIDE DEF l
<1>2. ListKeys(l) \cap ShelfKeys(w) \subseteq ListKeys(w[s])
  BY Zenon, <1>1
<1>a. ListKeys(l) \subseteq ListKeys(w[s])
  BY Zenon, <1>1
<1>3. ShelfKeys([w EXCEPT ![s] = l]) = ShelfKeys(w) \ (ListKeys(w[s]) \ ListKeys(l))
  BY Zenon, <1>a, ShelfShrinks
<1>4. ShelfApart([w EXCEPT ![s] = l])
  BY Zenon, <1>1, <1>2, ShelfStaysApart
<1>5. ListKeys(w[s]) \ ListKeys(l) = {Key(Head(w[s]))}
  BY Zenon, <1>1
<1> QED BY Zenon, <1>0, <1>1, <1>3, <1>4, <1>5 DEF l

\* One list of a family is emptied.
LEMMA ShelfClear ==
    ASSUME NEW D, NEW S, NEW w \in [D -> Seq(S)], NEW s \in D, ShelfApart(w)
    PROVE  /\ ListKeys(w[s]) \subseteq ShelfKeys(w)
           /\ ShelfKeys([w EXCEPT ![s] = <<>>]) = ShelfKeys(w) \ ListKeys(w[s])
           /\ ShelfApart([w EXCEPT ![s] = <<>>])
<1>1. ListKeys(<<>>) = {} /\ ListApart(<<>>)
  BY DEF ListKeys, ListApart
<1> DEFINE l == <<>>
<1>2. ListKeys(l) = {} /\ ListApart(l)
  BY Zenon, <1>1
<1> HIDE DEF l
<1>a. ListKeys(l) \subseteq ListKeys(w[s]) /\ ListKeys(l) \cap ShelfKeys(w) \subseteq ListKeys(w[s])
  BY Zenon, <1>2
<1>3. /\ ListKeys(w[s]) \subseteq ShelfKeys(w)
      /\ ShelfKeys([w EXCEPT ![s] = l]) = ShelfKeys(w) \ (ListKeys(w[s]) \ ListKeys(l))
  BY Zenon, <1>a, ShelfShrinks
<1>4. ShelfApart([w EXCEPT ![s] = l])
  BY Zenon, <1>2, <1>a, ShelfStaysApart
<1>5. ListKeys(w[s]) \ ListKeys(l) = ListKeys(w[s])
  BY Zenon, <1>2
<1> QED BY Zenon, <1>3, <1>4, <1>5 DEF l

-----------------------------------------------------------------------------
(* Keys that move from one kind of place to another.                       *)

\* The kinds of places, one by one.
LEMMA WhereIs ==
    /\ Where["hand"] = HeldKeys(hand) /\ Where["drawn"] = HeldKeys(drawn)
    /\ Where["sdraw"] = HeldKeys(sdraw) /\ Where["queue"] = ListKeys(delivery_queue)
    /\ Where["delivered"] = ShelfKeys(delivered) /\ Where["withheld"] = ShelfKeys(withheld)
    /\ Where["lost"] = {Key(x) : x \in lost}
BY Zenon DEF Where, Names

\* The same, after a step.
LEMMA WhereIsNext ==
    /\ Where'["hand"] = HeldKeys(hand') /\ Where'["drawn"] = HeldKeys(drawn')
    /\ Where'["sdraw"] = HeldKeys(sdraw') /\ Where'["queue"] = ListKeys(delivery_queue')
    /\ Where'["delivered"] = ShelfKeys(delivered') /\ Where'["withheld"] = ShelfKeys(withheld')
    /\ Where'["lost"] = {Key(x) : x \in lost'}
BY Zenon DEF Where, Names, HeldKeys, ListKeys, ShelfKeys

\* The keys X move from places p to places q.
Moves(p, q, X) ==
    /\ X \subseteq Where[p]
    /\ Where'[p] = Where[p] \ X
    /\ Where'[q] = Where[q] \cup X
    /\ \A r \in Names \ {p, q} : Where'[r] = Where[r]

\* Where the segments go that were queued once.
Left == {"queue", "delivered", "lost"}

\* A move keeps the places apart, and loses nothing.
LEMMA MoveKeeps ==
    ASSUME NEW p \in Names, NEW q \in Names \ {p}, NEW X, Apart(Where), Moves(p, q, X)
    PROVE  /\ Apart(Where')
           /\ \A k : Placed(k)' <=> Placed(k)
<1>1. Apart(Where')
  <2> SUFFICES ASSUME NEW r \in Names, NEW t \in Names, r # t, NEW k,
                      k \in Where'[r], k \in Where'[t]
               PROVE  FALSE
    BY Zenon DEF Apart
  <2>1. ASSUME NEW u \in Names, k \in Where'[u]
        PROVE  (k \in Where[u] /\ (u # p \/ k \notin X)) \/ (u = q /\ k \in X)
    <3>1. CASE u = p
      BY Zenon, <2>1, <3>1 DEF Moves
    <3>2. CASE u = q
      BY Zenon, <2>1, <3>2 DEF Moves
    <3>3. CASE u \in Names \ {p, q}
      BY Zenon, <2>1, <3>3 DEF Moves
    <3> QED BY Zenon, <3>1, <3>2, <3>3
  <2>2. CASE k \in X
    <3>1. k \in Where[p] /\ k \notin Where'[p]
      BY Zenon, <2>2 DEF Moves
    <3>2. \A u \in Names : k \in Where[u] => u = p
      BY Zenon, <3>1 DEF Apart
    <3>3. r = q /\ t = q
      BY Zenon, <2>1, <2>2, <3>2
    <3> QED BY Zenon, <3>3
  <2>3. CASE k \notin X
    <3>1. k \in Where[r] /\ k \in Where[t]
      BY Zenon, <2>1, <2>3
    <3> QED BY Zenon, <3>1 DEF Apart
  <2> QED BY Zenon, <2>2, <2>3
<1>2. ASSUME NEW k
      PROVE  (\E r \in Names : k \in Where'[r]) <=> (\E r \in Names : k \in Where[r])
  BY Zenon DEF Moves
<1> QED BY Zenon, <1>1, <1>2 DEF Placed

\* In the places that a step changes, no key is there twice.
StaysApart ==
    /\ hand' = hand \/ HeldApart(hand')
    /\ drawn' = drawn \/ HeldApart(drawn')
    /\ sdraw' = sdraw \/ HeldApart(sdraw')
    /\ delivery_queue' = delivery_queue \/ ListApart(delivery_queue')
    /\ delivered' = delivered \/ ShelfApart(delivered')
    /\ withheld' = withheld \/ ShelfApart(withheld')
    /\ lost' = lost \/ SetApart(lost')

LEMMA ApartNext ==
    ASSUME OneOfEach, StaysApart
    PROVE  /\ HeldApart(hand)' /\ HeldApart(drawn)' /\ HeldApart(sdraw)'
           /\ ListApart(delivery_queue)' /\ ShelfApart(delivered)' /\ ShelfApart(withheld)'
           /\ SetApart(lost)'
<1>1. HeldApart(hand') /\ HeldApart(drawn') /\ HeldApart(sdraw')
  BY Zenon DEF OneOfEach, StaysApart
<1>2. ListApart(delivery_queue') /\ ShelfApart(delivered') /\ ShelfApart(withheld')
  BY Zenon DEF OneOfEach, StaysApart
<1>3. SetApart(lost')
  BY Zenon DEF OneOfEach, StaysApart
<1>4. HeldApart(hand)' /\ HeldApart(drawn)' /\ HeldApart(sdraw)'
  BY Zenon, <1>1 DEF HeldApart
<1>5. ListApart(delivery_queue)'
  BY Zenon, <1>2 DEF ListApart
<1>6. ShelfApart(delivered)' /\ ShelfApart(withheld)'
  BY Zenon, <1>2 DEF ShelfApart, ListApart, ListKeys
<1>7. SetApart(lost)'
  BY Zenon, <1>3 DEF SetApart
<1> QED BY Zenon, <1>4, <1>5, <1>6, <1>7

\* What a step that moves keys has to show, beside its effect on the hands and
\* on the order.
LEMMA MovePreserves ==
    ASSUME DeliveryInv, NEW p \in Names, NEW q \in Names \ {p}, NEW X, Moves(p, q, X),
           p \in Left => q \in Left /\ q # "queue",
           DeliveryType', HandsMatch', InOrder',
           StaysApart,
           UNCHANGED arrived,
           \A n \in NetThreads :
              /\ hand'[n] \in {hand[n], NULL}
              /\ ahead'[n] \in {ahead[n], {}}
              /\ npc'[n] = "breakpoint" => npc[n] = "breakpoint"
              /\ npc'[n] = "deliver" =>
                    npc[n] = "deliver" \/ \A x \in ahead[n] : Key(x) \notin Where'["queue"]
    PROVE  DeliveryInv'
<1>0. /\ Apart(Where) /\ ArrivedPlaced /\ AheadGone
  BY Zenon DEF DeliveryInv, OneOfEach
<1>1. Apart(Where') /\ \A k : Placed(k)' <=> Placed(k)
  BY Zenon, <1>0, MoveKeeps
<1>2. OneOfEach'
  BY Zenon, <1>1, ApartNext DEF DeliveryInv, OneOfEach
<1>3. ArrivedPlaced'
  <2>1. \A c \in Conns : \A m \in 1..MaxSegments :
           /\ m <= arrived'[c] => Placed(<<c, m, FALSE>>)'
           /\ \A b \in BOOLEAN : Placed(<<c, m, b>>)' => m <= arrived'[c]
    BY Zenon, <1>0, <1>1 DEF ArrivedPlaced
  <2>2. ASSUME NEW n \in NetThreads, npc'[n] = "breakpoint"
        PROVE  ~Placed(<<hand[n].conn, hand[n].num, TRUE>>)'
    <3>1. npc[n] = "breakpoint" /\ hand'[n] = hand[n]
      BY Zenon, <2>2 DEF HandsMatch, ThreadsMatch
    <3>2. PICK h : h = hand[n]
      BY Zenon
    <3>3. ~Placed(<<h.conn, h.num, TRUE>>)
      BY Zenon, <1>0, <3>1, <3>2 DEF ArrivedPlaced
    <3>4. ~Placed(<<h.conn, h.num, TRUE>>)'
      BY Zenon, <1>1, <3>3
    <3> QED BY Zenon, <3>1, <3>2, <3>4 DEF Placed
  <2> QED BY Zenon, <2>1, <2>2 DEF ArrivedPlaced
<1>4. AheadGone'
  <2> SUFFICES ASSUME NEW n \in NetThreads, NEW x \in ahead'[n]
               PROVE  /\ Key(x) \in Where'["queue"] \cup Where'["delivered"] \cup Where'["lost"]
                      /\ hand'[n] # NULL => x.conn = hand'[n].conn
                      /\ npc'[n] = "deliver" => Key(x) \notin Where'["queue"]
    BY Zenon DEF AheadGone
  <2>0. x \in ahead[n] /\ hand'[n] \in {hand[n], NULL}
    BY Zenon
  <2>1. /\ Key(x) \in Where["queue"] \cup Where["delivered"] \cup Where["lost"]
        /\ hand[n] # NULL => x.conn = hand[n].conn
        /\ npc[n] = "deliver" => Key(x) \notin Where["queue"]
    BY Zenon, <1>0, <2>0 DEF AheadGone
  <2>2. PICK k : k = Key(x)
    BY Zenon
  <2>3. PICK r \in Left : k \in Where[r]
    BY Zenon, <2>1, <2>2 DEF Left
  <2>4. \E t \in Left : k \in Where'[t]
    BY Zenon, <2>3 DEF Moves, Names, Left
  <2>5. k \notin Where["queue"] => k \notin Where'["queue"]
    <3> SUFFICES ASSUME k \notin Where["queue"], k \in Where'["queue"]
                 PROVE  FALSE
      BY Zenon
    <3>1. q = "queue" /\ k \in Where[p]
      BY Zenon DEF Moves, Names
    <3>2. p \notin Left
      BY Zenon, <3>1
    <3> QED BY Zenon, <1>0, <2>3, <3>1, <3>2 DEF Apart, Names, Left
  <2> QED BY Zenon, <2>0, <2>1, <2>2, <2>4, <2>5 DEF Left
<1> QED BY Zenon, <1>2, <1>3, <1>4 DEF DeliveryInv

-----------------------------------------------------------------------------
(* The order of the segments.                                              *)

\* Nothing is delivered or queued, and no segment is received.
LEMMA OrderQuiet ==
    ASSUME InOrder, UNCHANGED <<delivered, delivery_queue>>,
           \A n \in NetThreads :
              /\ hand'[n] \in {hand[n], NULL}
              /\ npc'[n] = "deliver" => \/ npc[n] = "deliver"
                                        \/ QueuedFor(hand[n].conn) = {}
    PROVE  InOrder'
<1>1. DeliveredOrder' /\ QueueOrder' /\ DeliveredFirst'
  BY Zenon DEF InOrder, DeliveredOrder, QueueOrder, DeliveredFirst
<1>2. HandLast'
  <2> SUFFICES ASSUME NEW n \in NetThreads, NEW h \in Segments, hand'[n] = h
               PROVE  /\ \A i \in DOMAIN delivered[h.conn] :
                            Received(delivered[h.conn][i]) => delivered[h.conn][i].num < h.num
                      /\ \A j \in DOMAIN delivery_queue :
                            Received(delivery_queue[j]) /\ delivery_queue[j].conn = h.conn
                               => delivery_queue[j].num < h.num /\ npc'[n] # "deliver"
    BY Zenon DEF HandLast
  <2>1. hand[n] = h
    BY Zenon, DeliveryAssumption
  <2>2. \A j \in DOMAIN delivery_queue : QueuedFor(h.conn) = {} => delivery_queue[j].conn # h.conn
    BY Zenon DEF QueuedFor, Range
  <2> QED BY Zenon, <2>1, <2>2 DEF InOrder, HandLast
<1> QED BY Zenon, <1>1, <1>2 DEF InOrder

\* A segment is appended to the queue: one that was held back, or one that a
\* thread has in hand and lets go of.
LEMMA OrderQueue ==
    ASSUME DeliveryType, HandsMatch, InOrder, NEW x \in Segments,
           delivery_queue' = Append(delivery_queue, x), UNCHANGED delivered,
           \A n \in NetThreads : /\ hand'[n] \in {hand[n], NULL}
                                 /\ npc'[n] = "deliver" => npc[n] = "deliver",
           Received(x) => \E n \in NetThreads : hand[n] = x /\ hand'[n] = NULL
    PROVE  InOrder'
<1>0. delivery_queue \in Seq(Segments) /\ NULL \notin Segments
  BY Zenon, DeliveryAssumption DEF DeliveryType
<1> DEFINE l == Len(delivery_queue)
<1>1. /\ l \in Nat /\ DOMAIN delivery_queue = 1..l /\ DOMAIN delivery_queue' = 1..(l + 1)
      /\ \A i \in 1..l : delivery_queue'[i] = delivery_queue[i]
      /\ delivery_queue'[l + 1] = x
  BY <1>0, AppendCells
<1> HIDE DEF l
<1>2. \A i \in DOMAIN delivery_queue' : i \in DOMAIN delivery_queue \/ i = l + 1
  BY <1>1
<1>3. ASSUME Received(x)
      PROVE  /\ \A i \in DOMAIN delivered[x.conn] :
                   Received(delivered[x.conn][i]) => delivered[x.conn][i].num < x.num
             /\ \A j \in DOMAIN delivery_queue :
                   Received(delivery_queue[j]) /\ delivery_queue[j].conn = x.conn
                      => delivery_queue[j].num < x.num
  BY Zenon, <1>3 DEF InOrder, HandLast
<1>4. DeliveredOrder'
  BY Zenon DEF InOrder, DeliveredOrder
<1>5. QueueOrder'
  <2> SUFFICES ASSUME NEW i \in DOMAIN delivery_queue', NEW j \in DOMAIN delivery_queue', i < j,
                      Received(delivery_queue'[i]), Received(delivery_queue'[j]),
                      delivery_queue'[i].conn = delivery_queue'[j].conn
               PROVE  delivery_queue'[i].num < delivery_queue'[j].num
    BY Zenon DEF QueueOrder, Received
  <2>1. i \in DOMAIN delivery_queue
    BY <1>1
  <2>2. CASE j \in DOMAIN delivery_queue
    BY Zenon, <1>1, <2>1, <2>2 DEF InOrder, QueueOrder
  <2>3. CASE j = l + 1
    BY Zenon, <1>1, <1>3, <2>1, <2>3
  <2> QED BY Zenon, <1>2, <2>2, <2>3
<1>6. DeliveredFirst'
  <2> SUFFICES ASSUME NEW c \in Conns, NEW i \in DOMAIN delivered[c], NEW j \in DOMAIN delivery_queue',
                      Received(delivered[c][i]), Received(delivery_queue'[j]),
                      delivery_queue'[j].conn = c
               PROVE  delivered[c][i].num < delivery_queue'[j].num
    BY Zenon DEF DeliveredFirst, Received
  <2>1. CASE j \in DOMAIN delivery_queue
    BY Zenon, <1>1, <2>1 DEF InOrder, DeliveredFirst
  <2>2. CASE j = l + 1
    BY Zenon, <1>1, <1>3, <2>2
  <2> QED BY Zenon, <1>2, <2>1, <2>2
<1>7. HandLast'
  <2> SUFFICES ASSUME NEW n \in NetThreads, NEW h \in Segments, hand'[n] = h
               PROVE  /\ \A i \in DOMAIN delivered[h.conn] :
                            Received(delivered[h.conn][i]) => delivered[h.conn][i].num < h.num
                      /\ \A j \in DOMAIN delivery_queue' :
                            Received(delivery_queue'[j]) /\ delivery_queue'[j].conn = h.conn
                               => delivery_queue'[j].num < h.num /\ npc'[n] # "deliver"
    BY Zenon DEF HandLast, Received
  <2>1. hand[n] = h /\ hand'[n] # NULL
    BY Zenon, <1>0
  <2>2. ASSUME NEW i \in DOMAIN delivered[h.conn], Received(delivered[h.conn][i])
        PROVE  delivered[h.conn][i].num < h.num
    BY Zenon, <2>1, <2>2 DEF InOrder, HandLast
  <2>3. ASSUME NEW j \in DOMAIN delivery_queue', Received(delivery_queue'[j]),
               delivery_queue'[j].conn = h.conn
        PROVE  delivery_queue'[j].num < h.num /\ npc'[n] # "deliver"
    <3>1. CASE j \in DOMAIN delivery_queue
      BY <1>1, <2>1, <2>3, <3>1 DEF InOrder, HandLast
    <3>2. CASE j = l + 1
      <4>1. PICK m \in NetThreads : hand[m] = x /\ hand'[m] = NULL
        BY Zenon, <1>1, <2>3, <3>2
      <4>2. h.conn[1] = n /\ x.conn[1] = m /\ x.conn = h.conn
        BY <1>0, <1>1, <2>1, <2>3, <3>2, <4>1 DEF HandsMatch, ThreadsMatch
      <4> QED BY Zenon, <2>1, <4>1, <4>2
    <3> QED BY Zenon, <1>2, <2>3, <3>1, <3>2
  <2> QED BY Zenon, <2>2, <2>3
<1> QED BY Zenon, <1>4, <1>5, <1>6, <1>7 DEF InOrder

\* A segment is delivered: one that was held back, or one that its connection
\* thread has in hand.
LEMMA OrderDeliver ==
    ASSUME DeliveryType, HandsMatch, InOrder, NEW x \in Segments,
           DeliverSegment(x), UNCHANGED delivery_queue,
           \A n \in NetThreads : /\ hand'[n] \in {hand[n], NULL}
                                 /\ npc'[n] = "deliver" => npc[n] = "deliver",
           Received(x) => \E n \in NetThreads : hand[n] = x /\ hand'[n] = NULL /\ npc[n] = "deliver"
    PROVE  InOrder'
<1>0. /\ delivered \in [Conns -> Seq(Segments)] /\ x.conn \in Conns
      /\ delivered[x.conn] \in Seq(Segments) /\ NULL \notin Segments
  BY Zenon, DeliveryAssumption DEF DeliveryType, Segments
<1>d. PICK d \in Conns : d = x.conn
  BY Zenon, <1>0
<1>e. PICK e \in Seq(Segments) : e = delivered[d]
  BY Zenon, <1>0, <1>d
<1> DEFINE l == Len(e)
<1>1. /\ l \in Nat /\ DOMAIN e = 1..l /\ DOMAIN Append(e, x) = 1..(l + 1)
      /\ \A i \in 1..l : Append(e, x)[i] = e[i]
      /\ Append(e, x)[l + 1] = x
  BY AppendCells
<1>2. /\ delivered'[d] = Append(e, x)
      /\ \A c \in Conns \ {d} : delivered'[c] = delivered[c]
  BY Zenon, <1>0, <1>d, <1>e DEF DeliverSegment
<1> HIDE DEF l
<1>3. \A i \in DOMAIN delivered'[d] :
         \/ i \in DOMAIN delivered[d] /\ delivered'[d][i] = delivered[d][i]
         \/ i = l + 1 /\ delivered'[d][i] = x
  BY <1>1, <1>2, <1>e
<1>4. ASSUME Received(x)
      PROVE  /\ \A i \in DOMAIN delivered[d] :
                   Received(delivered[d][i]) => delivered[d][i].num < x.num
             /\ \A j \in DOMAIN delivery_queue :
                   ~(Received(delivery_queue[j]) /\ delivery_queue[j].conn = d)
  BY Zenon, <1>4, <1>d DEF InOrder, HandLast
<1>5. DeliveredOrder'
  <2> SUFFICES ASSUME NEW c \in Conns, NEW i \in DOMAIN delivered'[c], NEW j \in DOMAIN delivered'[c],
                      i < j, Received(delivered'[c][i]), Received(delivered'[c][j])
               PROVE  delivered'[c][i].num < delivered'[c][j].num
    BY Zenon DEF DeliveredOrder, Received
  <2>1. CASE c # d
    BY Zenon, <1>2, <2>1 DEF InOrder, DeliveredOrder
  <2>2. CASE c = d
    <3>1. i \in 1..l /\ (j \in 1..l \/ j = l + 1)
      BY <1>1, <1>2, <2>2
    <3>2. i \in DOMAIN delivered[d] /\ delivered'[d][i] = delivered[d][i]
      BY Zenon, <1>1, <1>2, <1>e, <3>1
    <3>3. CASE j \in 1..l
      <4>1. j \in DOMAIN delivered[d] /\ delivered'[d][j] = delivered[d][j]
        BY Zenon, <1>1, <1>2, <1>e, <3>3
      <4> QED BY Zenon, <2>2, <3>2, <4>1 DEF InOrder, DeliveredOrder
    <3>4. CASE j = l + 1
      <4>1. delivered'[d][j] = x
        BY Zenon, <1>1, <1>2, <3>4
      <4> QED BY Zenon, <1>4, <2>2, <3>2, <4>1
    <3> QED BY Zenon, <3>1, <3>3, <3>4
  <2> QED BY Zenon, <2>1, <2>2
<1>6. QueueOrder'
  BY Zenon DEF InOrder, QueueOrder
<1>7. DeliveredFirst'
  <2> SUFFICES ASSUME NEW c \in Conns, NEW i \in DOMAIN delivered'[c], NEW j \in DOMAIN delivery_queue,
                      Received(delivered'[c][i]), Received(delivery_queue[j]),
                      delivery_queue[j].conn = c
               PROVE  delivered'[c][i].num < delivery_queue[j].num
    BY Zenon DEF DeliveredFirst, Received
  <2>1. CASE c # d
    BY Zenon, <1>2, <2>1 DEF InOrder, DeliveredFirst
  <2>2. CASE c = d
    <3>1. CASE i \in DOMAIN delivered[d] /\ delivered'[d][i] = delivered[d][i]
      BY Zenon, <2>2, <3>1 DEF InOrder, DeliveredFirst
    <3>2. CASE i = l + 1 /\ delivered'[d][i] = x
      BY Zenon, <1>4, <2>2, <3>2
    <3> QED BY Zenon, <1>3, <2>2, <3>1, <3>2
  <2> QED BY Zenon, <2>1, <2>2
<1>8. HandLast'
  <2> SUFFICES ASSUME NEW n \in NetThreads, NEW h \in Segments, hand'[n] = h
               PROVE  /\ \A i \in DOMAIN delivered'[h.conn] :
                            Received(delivered'[h.conn][i]) => delivered'[h.conn][i].num < h.num
                      /\ \A j \in DOMAIN delivery_queue :
                            Received(delivery_queue[j]) /\ delivery_queue[j].conn = h.conn
                               => delivery_queue[j].num < h.num /\ npc'[n] # "deliver"
    BY Zenon DEF HandLast, Received
  <2>1. hand[n] = h /\ hand'[n] # NULL
    BY Zenon, <1>0
  <2>c. PICK c \in Conns : c = h.conn
    BY Zenon DEF Segments
  <2>2. ASSUME NEW i \in DOMAIN delivered'[c], Received(delivered'[c][i])
        PROVE  delivered'[c][i].num < h.num
    <3>1. CASE c # d
      BY Zenon, <1>2, <2>1, <2>2, <2>c, <3>1 DEF InOrder, HandLast
    <3>2. CASE c = d /\ i \in DOMAIN delivered[d] /\ delivered'[d][i] = delivered[d][i]
      BY Zenon, <2>1, <2>2, <2>c, <3>2 DEF InOrder, HandLast
    <3>3. CASE c = d /\ i = l + 1 /\ delivered'[d][i] = x
      <4>1. PICK m \in NetThreads : hand[m] = x /\ hand'[m] = NULL
        BY Zenon, <2>2, <3>3
      <4>2. hand[n] # NULL /\ hand[m] # NULL /\ x.conn = h.conn
        BY Zenon, <1>0, <1>d, <2>1, <2>c, <3>3, <4>1
      <4>3. h.conn[1] = n /\ x.conn[1] = m
        BY <2>1, <4>1, <4>2 DEF HandsMatch, ThreadsMatch
      <4> QED BY Zenon, <2>1, <4>1, <4>2, <4>3
    <3> QED BY Zenon, <1>3, <2>2, <3>1, <3>2, <3>3
  <2>3. ASSUME NEW j \in DOMAIN delivery_queue, Received(delivery_queue[j]),
               delivery_queue[j].conn = h.conn
        PROVE  delivery_queue[j].num < h.num /\ npc'[n] # "deliver"
    BY Zenon, <2>1, <2>3 DEF InOrder, HandLast
  <2> QED BY Zenon, <2>2, <2>3, <2>c
<1> QED BY Zenon, <1>5, <1>6, <1>7, <1>8 DEF InOrder

\* The head of the queue is taken, and delivered or dropped.
LEMMA OrderTake ==
    ASSUME DeliveryType, InOrder, delivery_queue # <<>>,
           delivery_queue' = Tail(delivery_queue),
           DeliverSegment(Head(delivery_queue)) \/ UNCHANGED delivered,
           UNCHANGED <<hand, npc>>
    PROVE  InOrder'
<1>0. /\ delivered \in [Conns -> Seq(Segments)] /\ delivery_queue \in Seq(Segments)
  BY Zenon DEF DeliveryType
<1> DEFINE q == Len(delivery_queue)
<1>1. /\ Head(delivery_queue) \in Segments /\ Head(delivery_queue) = delivery_queue[1]
      /\ q \in Nat \ {0} /\ DOMAIN delivery_queue = 1..q /\ DOMAIN delivery_queue' = 1..(q - 1)
      /\ \A i \in 1..(q - 1) : delivery_queue'[i] = delivery_queue[i + 1]
  BY Zenon, <1>0, TailCells
<1> HIDE DEF q
<1>2. /\ 1 \in DOMAIN delivery_queue
      /\ \A i \in DOMAIN delivery_queue' :
            /\ i + 1 \in DOMAIN delivery_queue /\ 1 < i + 1
            /\ delivery_queue'[i] = delivery_queue[i + 1]
  BY <1>1
<1>x. PICK x \in Segments : x = Head(delivery_queue) /\ x = delivery_queue[1] /\ x.conn \in Conns
  BY Zenon, <1>1 DEF Segments
<1>3. QueueOrder'
  <2> SUFFICES ASSUME NEW i \in DOMAIN delivery_queue', NEW j \in DOMAIN delivery_queue', i < j,
                      Received(delivery_queue'[i]), Received(delivery_queue'[j]),
                      delivery_queue'[i].conn = delivery_queue'[j].conn
               PROVE  delivery_queue'[i].num < delivery_queue'[j].num
    BY Zenon DEF QueueOrder, Received
  <2>1. i + 1 < j + 1
    BY <1>1
  <2> QED BY Zenon, <1>2, <2>1 DEF InOrder, QueueOrder
<1>4. ASSUME NEW c \in Conns, NEW i \in DOMAIN delivered'[c]
      PROVE  \/ i \in DOMAIN delivered[c] /\ delivered'[c][i] = delivered[c][i]
             \/ /\ c = x.conn /\ delivered'[c][i] = x
                /\ \A j \in DOMAIN delivered[c] : j < i /\ delivered'[c][j] = delivered[c][j]
                /\ \A j \in DOMAIN delivered'[c] : j < i => j \in DOMAIN delivered[c]
                /\ \A j \in DOMAIN delivered'[c] : j <= i
  <2>1. CASE UNCHANGED delivered
    BY Zenon, <1>4, <2>1
  <2>2. CASE DeliverSegment(x) /\ c # x.conn
    BY Zenon, <1>0, <1>4, <1>x, <2>2 DEF DeliverSegment
  <2>3. CASE DeliverSegment(x) /\ c = x.conn
    <3>1. PICK e \in Seq(Segments) : e = delivered[c]
      BY Zenon, <1>0
    <3>2. delivered'[c] = Append(e, x)
      BY Zenon, <1>0, <2>3, <3>1 DEF DeliverSegment
    <3>3. /\ Len(e) \in Nat /\ DOMAIN e = 1..Len(e) /\ DOMAIN Append(e, x) = 1..(Len(e) + 1)
          /\ \A j \in 1..Len(e) : Append(e, x)[j] = e[j]
          /\ Append(e, x)[Len(e) + 1] = x
      BY AppendCells
    <3>4. CASE i \in 1..Len(e)
      BY Zenon, <3>1, <3>2, <3>3, <3>4
    <3>5. CASE i = Len(e) + 1
      BY <2>3, <3>1, <3>2, <3>3, <3>5
    <3>6. i \in 1..Len(e) \/ i = Len(e) + 1
      BY <1>4, <3>2, <3>3
    <3> QED BY Zenon, <3>4, <3>5, <3>6
  <2> QED BY Zenon, <1>x, <2>1, <2>2, <2>3
<1>5. DeliveredOrder'
  <2> SUFFICES ASSUME NEW c \in Conns, NEW i \in DOMAIN delivered'[c], NEW j \in DOMAIN delivered'[c],
                      i < j, Received(delivered'[c][i]), Received(delivered'[c][j])
               PROVE  delivered'[c][i].num < delivered'[c][j].num
    BY Zenon DEF DeliveredOrder, Received
  <2>1. i \in DOMAIN delivered[c] /\ delivered'[c][i] = delivered[c][i]
    <3>1. CASE j \in DOMAIN delivered[c] /\ delivered'[c][j] = delivered[c][j]
      <4>1. DOMAIN delivered[c] = 1..Len(delivered[c]) /\ Len(delivered[c]) \in Nat
        BY <1>0
      <4>2. delivered'[c] \in Seq(Segments)
        <5>1. delivered[c] \in Seq(Segments) /\ Append(delivered[c], x) \in Seq(Segments)
          BY Zenon, <1>0, AppendCells
        <5> QED BY Zenon, <1>0, <1>x, <5>1 DEF DeliverSegment
      <4>3. i \in Nat /\ j \in Nat /\ ~(j < i)
        BY <4>2
      <4>4. i \in DOMAIN delivered[c]
        BY Zenon, <1>4, <3>1, <4>3
      <4> QED BY Zenon, <1>4, <4>1, <4>4
    <3>2. CASE ~(j \in DOMAIN delivered[c] /\ delivered'[c][j] = delivered[c][j])
      BY <1>4, <3>2
    <3> QED BY Zenon, <3>1, <3>2
  <2>2. CASE j \in DOMAIN delivered[c] /\ delivered'[c][j] = delivered[c][j]
    BY Zenon, <2>1, <2>2 DEF InOrder, DeliveredOrder
  <2>3. CASE c = x.conn /\ delivered'[c][j] = x
    BY Zenon, <1>2, <1>x, <2>1, <2>3 DEF InOrder, DeliveredFirst
  <2> QED BY Zenon, <1>4, <2>2, <2>3
<1>6. DeliveredFirst'
  <2> SUFFICES ASSUME NEW c \in Conns, NEW i \in DOMAIN delivered'[c], NEW j \in DOMAIN delivery_queue',
                      Received(delivered'[c][i]), Received(delivery_queue'[j]),
                      delivery_queue'[j].conn = c
               PROVE  delivered'[c][i].num < delivery_queue'[j].num
    BY Zenon DEF DeliveredFirst, Received
  <2>1. CASE i \in DOMAIN delivered[c] /\ delivered'[c][i] = delivered[c][i]
    BY Zenon, <1>2, <2>1 DEF InOrder, DeliveredFirst
  <2>2. CASE c = x.conn /\ delivered'[c][i] = x
    BY Zenon, <1>2, <1>x, <2>2 DEF InOrder, QueueOrder
  <2> QED BY <1>4, <2>1, <2>2
<1>7. HandLast'
  <2> SUFFICES ASSUME NEW n \in NetThreads, NEW h \in Segments, hand[n] = h
               PROVE  /\ \A i \in DOMAIN delivered'[h.conn] :
                            Received(delivered'[h.conn][i]) => delivered'[h.conn][i].num < h.num
                      /\ \A j \in DOMAIN delivery_queue' :
                            Received(delivery_queue'[j]) /\ delivery_queue'[j].conn = h.conn
                               => delivery_queue'[j].num < h.num /\ npc[n] # "deliver"
    BY Zenon DEF HandLast, Received
  <2>c. PICK c \in Conns : c = h.conn
    BY Zenon DEF Segments
  <2>1. ASSUME NEW i \in DOMAIN delivered'[c], Received(delivered'[c][i])
        PROVE  delivered'[c][i].num < h.num
    <3>1. CASE i \in DOMAIN delivered[c] /\ delivered'[c][i] = delivered[c][i]
      BY Zenon, <2>1, <2>c, <3>1 DEF InOrder, HandLast
    <3>2. CASE c = x.conn /\ delivered'[c][i] = x
      BY ZenonT(40), <1>2, <1>x, <2>1, <2>c, <3>2 DEF InOrder, HandLast
    <3> QED BY Zenon, <1>4, <2>1, <3>1, <3>2
  <2>2. ASSUME NEW j \in DOMAIN delivery_queue', Received(delivery_queue'[j]),
               delivery_queue'[j].conn = h.conn
        PROVE  delivery_queue'[j].num < h.num /\ npc[n] # "deliver"
    BY <1>2, <2>2 DEF InOrder, HandLast
  <2> QED BY Zenon, <2>1, <2>2, <2>c
<1> QED BY Zenon, <1>3, <1>5, <1>6, <1>7 DEF InOrder

-----------------------------------------------------------------------------
(* What each kind of step does to the places it touches.                   *)

\* A key is in one kind of place.
LEMMA Elsewhere ==
    ASSUME DeliveryInv, NEW p \in Names, NEW k, k \in Where[p]
    PROVE  \A q \in Names \ {p} : k \notin Where[q]
BY Zenon DEF DeliveryInv, OneOfEach, Apart

\* What is not touched.
LEMMA WhereStays ==
    /\ hand' = hand => Where'["hand"] = Where["hand"]
    /\ drawn' = drawn => Where'["drawn"] = Where["drawn"]
    /\ sdraw' = sdraw => Where'["sdraw"] = Where["sdraw"]
    /\ delivery_queue' = delivery_queue => Where'["queue"] = Where["queue"]
    /\ delivered' = delivered => Where'["delivered"] = Where["delivered"]
    /\ withheld' = withheld => Where'["withheld"] = Where["withheld"]
    /\ lost' = lost => Where'["lost"] = Where["lost"]
BY Zenon, WhereIs, WhereIsNext

\* A thread lets go of the segment in hand.
LEMMA HandGoes ==
    ASSUME DeliveryInv, NEW n \in NetThreads, hand[n] # NULL,
           hand' = [hand EXCEPT ![n] = NULL]
    PROVE  /\ hand[n] \in Segments /\ Key(hand[n]) \in Where["hand"]
           /\ Where'["hand"] = Where["hand"] \ {Key(hand[n])}
           /\ HeldApart(hand') /\ hand' \in [NetThreads -> Segments \cup {NULL}]
<1>1. hand \in [NetThreads -> Segments \cup {NULL}] /\ HeldApart(hand)
  BY Zenon DEF DeliveryInv, DeliveryType, OneOfEach
<1>2. /\ Key(hand[n]) \in HeldKeys(hand)
      /\ HeldKeys([hand EXCEPT ![n] = NULL]) = HeldKeys(hand) \ {Key(hand[n])}
      /\ HeldApart([hand EXCEPT ![n] = NULL])
  BY Zenon, <1>1, HeldDrop
<1> QED BY Zenon, <1>1, <1>2, WhereIs, WhereIsNext

\* A thread lets go of the segment it has drawn.
LEMMA DrawnGoes ==
    ASSUME DeliveryInv, NEW n \in NetThreads, drawn[n] # NULL,
           drawn' = [drawn EXCEPT ![n] = NULL]
    PROVE  /\ drawn[n] \in Segments /\ Key(drawn[n]) \in Where["drawn"]
           /\ Where'["drawn"] = Where["drawn"] \ {Key(drawn[n])}
           /\ HeldApart(drawn') /\ drawn' \in [NetThreads -> Segments \cup {NULL}]
<1>1. drawn \in [NetThreads -> Segments \cup {NULL}] /\ HeldApart(drawn)
  BY Zenon DEF DeliveryInv, DeliveryType, OneOfEach
<1>2. /\ Key(drawn[n]) \in HeldKeys(drawn)
      /\ HeldKeys([drawn EXCEPT ![n] = NULL]) = HeldKeys(drawn) \ {Key(drawn[n])}
      /\ HeldApart([drawn EXCEPT ![n] = NULL])
  BY Zenon, <1>1, HeldDrop
<1> QED BY Zenon, <1>1, <1>2, WhereIs, WhereIsNext

\* The segment drawn when a socket changed state is passed on.
LEMMA StateDrawGoes ==
    ASSUME DeliveryInv, NEW s \in Sockets, sdraw[s] # NULL,
           sdraw' = [sdraw EXCEPT ![s] = NULL]
    PROVE  /\ sdraw[s] \in Segments /\ Key(sdraw[s]) \in Where["sdraw"]
           /\ Where'["sdraw"] = Where["sdraw"] \ {Key(sdraw[s])}
           /\ HeldApart(sdraw') /\ sdraw' \in [Sockets -> Segments \cup {NULL}]
<1>1. sdraw \in [Sockets -> Segments \cup {NULL}] /\ HeldApart(sdraw)
  BY Zenon DEF DeliveryInv, DeliveryType, OneOfEach
<1>2. /\ Key(sdraw[s]) \in HeldKeys(sdraw)
      /\ HeldKeys([sdraw EXCEPT ![s] = NULL]) = HeldKeys(sdraw) \ {Key(sdraw[s])}
      /\ HeldApart([sdraw EXCEPT ![s] = NULL])
  BY Zenon, <1>1, HeldDrop
<1> QED BY Zenon, <1>1, <1>2, WhereIs, WhereIsNext

\* A segment is added to the queue, and the delivery thread is told.
LEMMA QueueGrows ==
    ASSUME DeliveryInv, NEW x \in Segments, QueueSegment(x), Key(x) \notin Where["queue"]
    PROVE  /\ Where'["queue"] = Where["queue"] \cup {Key(x)}
           /\ ListApart(delivery_queue') /\ delivery_queue' \in Seq(Segments)
           /\ dpc' \in {"check", "head", "deliver", "sleep", "timed_sleep", "woken", "exit"}
           /\ HeadKept'
<1>1. delivery_queue \in Seq(Segments) /\ ListApart(delivery_queue)
  BY Zenon DEF DeliveryInv, DeliveryType, OneOfEach
<1>2. delivery_queue' = Append(delivery_queue, x) /\ Key(x) \notin ListKeys(delivery_queue)
  BY Zenon, WhereIs DEF QueueSegment
<1>3. /\ ListKeys(delivery_queue') = ListKeys(delivery_queue) \cup {Key(x)}
      /\ ListApart(delivery_queue')
  BY <1>1, <1>2, AppendKeys
<1>4. delivery_queue' \in Seq(Segments)
  BY Zenon, <1>1, <1>2, AppendCells
<1>5. /\ dpc' \in {"check", "head", "deliver", "sleep", "timed_sleep", "woken", "exit"}
      /\ dpc' # "deliver" /\ dpc' # "sleep"
  BY Zenon DEF DeliveryInv, DeliveryType, QueueSegment, Holding
<1> QED BY Zenon, <1>3, <1>4, <1>5, WhereIs, WhereIsNext DEF HeadKept, QueueAttended

\* The head of the queue is taken off it.
LEMMA QueueShrinks ==
    ASSUME DeliveryInv, delivery_queue # <<>>, delivery_queue' = Tail(delivery_queue)
    PROVE  /\ Head(delivery_queue) \in Segments /\ Key(Head(delivery_queue)) \in Where["queue"]
           /\ Where'["queue"] = Where["queue"] \ {Key(Head(delivery_queue))}
           /\ ListApart(delivery_queue') /\ delivery_queue' \in Seq(Segments)
<1>1. delivery_queue \in Seq(Segments) /\ ListApart(delivery_queue)
  BY Zenon DEF DeliveryInv, DeliveryType, OneOfEach
<1>2. /\ Key(Head(delivery_queue)) \in ListKeys(delivery_queue)
      /\ ListKeys(delivery_queue') = ListKeys(delivery_queue) \ {Key(Head(delivery_queue))}
      /\ ListApart(delivery_queue')
  BY Zenon, <1>1, TailKeys
<1>3. Head(delivery_queue) \in Segments /\ delivery_queue' \in Seq(Segments)
  BY Zenon, <1>1, TailCells
<1> QED BY Zenon, <1>2, <1>3, WhereIs, WhereIsNext

\* A segment is delivered.
LEMMA DeliveredGrows ==
    ASSUME DeliveryInv, NEW x \in Segments, DeliverSegment(x), Key(x) \notin Where["delivered"]
    PROVE  /\ Where'["delivered"] = Where["delivered"] \cup {Key(x)}
           /\ ShelfApart(delivered') /\ delivered' \in [Conns -> Seq(Segments)]
           /\ DeliveredToOwn'
<1>1. delivered \in [Conns -> Seq(Segments)] /\ ShelfApart(delivered) /\ x.conn \in Conns
  BY Zenon DEF DeliveryInv, DeliveryType, OneOfEach, Segments
<1>c. PICK d \in Conns : d = x.conn
  BY Zenon, <1>1
<1>2. delivered' = [delivered EXCEPT ![d] = Append(@, x)] /\ Key(x) \notin ShelfKeys(delivered)
  BY Zenon, <1>c, WhereIs DEF DeliverSegment
<1>3. /\ ShelfKeys([delivered EXCEPT ![d] = Append(@, x)]) = ShelfKeys(delivered) \cup {Key(x)}
      /\ ShelfApart([delivered EXCEPT ![d] = Append(@, x)])
  BY Zenon, <1>1, <1>2, ShelfAppend
<1>4. PICK e \in Seq(Segments) : e = delivered[d]
  BY Zenon, <1>1
<1>5. /\ Append(e, x) \in Seq(Segments)
      /\ Len(e) \in Nat /\ DOMAIN e = 1..Len(e) /\ DOMAIN Append(e, x) = 1..(Len(e) + 1)
      /\ \A i \in 1..Len(e) : Append(e, x)[i] = e[i]
      /\ Append(e, x)[Len(e) + 1] = x
  BY AppendCells
<1>6. delivered'[d] = Append(e, x) /\ \A c \in Conns \ {d} : delivered'[c] = delivered[c]
  BY Zenon, <1>1, <1>2, <1>4
<1>7. delivered' \in [Conns -> Seq(Segments)]
  BY Zenon, <1>1, <1>2, <1>4, <1>5
<1>8. ASSUME NEW c \in Conns, NEW i \in DOMAIN delivered'[c]
      PROVE  delivered'[c][i].conn = c
  <2>1. CASE c # d
    BY Zenon, <1>6, <1>8, <2>1 DEF DeliveryInv, HandsMatch, DeliveredToOwn
  <2>2. CASE c = d /\ i \in 1..Len(e)
    <3>1. e[i].conn = d
      BY Zenon, <1>4, <1>5, <2>2 DEF DeliveryInv, HandsMatch, DeliveredToOwn
    <3> QED BY Zenon, <1>5, <1>6, <2>2, <3>1
  <2>3. CASE c = d /\ i = Len(e) + 1
    BY Zenon, <1>c, <1>5, <1>6, <2>3
  <2>4. c = d => i \in 1..Len(e) \/ i = Len(e) + 1
    BY <1>5, <1>6, <1>8
  <2> QED BY Zenon, <2>1, <2>2, <2>3, <2>4
<1> QED BY Zenon, <1>2, <1>3, <1>7, <1>8, WhereIs, WhereIsNext DEF DeliveredToOwn

\* A segment is dropped.
LEMMA LostGrows ==
    ASSUME DeliveryInv, NEW x \in Segments, lost' = lost \cup {x}, Key(x) \notin Where["lost"]
    PROVE  /\ Where'["lost"] = Where["lost"] \cup {Key(x)}
           /\ SetApart(lost') /\ lost' \subseteq Segments
<1>1. lost \subseteq Segments /\ SetApart(lost)
  BY Zenon DEF DeliveryInv, DeliveryType, OneOfEach
<1>2. Key(x) \notin {Key(y) : y \in lost}
  BY Zenon, WhereIs
<1>3. SetApart(lost')
  BY Zenon, <1>1, <1>2 DEF SetApart
<1>4. {Key(y) : y \in lost'} = {Key(y) : y \in lost} \cup {Key(x)}
  BY Zenon
<1> QED BY Zenon, <1>1, <1>3, <1>4, WhereIs, WhereIsNext

\* A segment is withheld.
LEMMA WithheldGrows ==
    ASSUME DeliveryInv, NEW s \in Sockets, NEW x \in Segments,
           withheld' = [withheld EXCEPT ![s] = Append(@, x)], Key(x) \notin Where["withheld"]
    PROVE  /\ Where'["withheld"] = Where["withheld"] \cup {Key(x)}
           /\ ShelfApart(withheld') /\ withheld' \in [Sockets -> Seq(Segments)]
<1>1. withheld \in [Sockets -> Seq(Segments)] /\ ShelfApart(withheld)
  BY Zenon DEF DeliveryInv, DeliveryType, OneOfEach
<1>2. Key(x) \notin ShelfKeys(withheld)
  BY Zenon, WhereIs
<1>3. /\ ShelfKeys([withheld EXCEPT ![s] = Append(@, x)]) = ShelfKeys(withheld) \cup {Key(x)}
      /\ ShelfApart([withheld EXCEPT ![s] = Append(@, x)])
  BY Zenon, <1>1, <1>2, ShelfAppend
<1>4. Append(withheld[s], x) \in Seq(Segments)
  BY Zenon, <1>1, AppendCells
<1> QED BY Zenon, <1>1, <1>3, <1>4, WhereIs, WhereIsNext

\* The oldest withheld segment is drawn.  It keeps its key.
LEMMA WithheldShrinks ==
    ASSUME DeliveryInv, NEW s \in Sockets, withheld[s] # <<>>,
           withheld' = [withheld EXCEPT ![s] = Draw(s).rest]
    PROVE  /\ Draw(s).seg \in Segments /\ Draw(s).seg.route = "withheld"
           /\ Key(Draw(s).seg) \in Where["withheld"]
           /\ Where'["withheld"] = Where["withheld"] \ {Key(Draw(s).seg)}
           /\ ShelfApart(withheld') /\ withheld' \in [Sockets -> Seq(Segments)]
<1>1. withheld \in [Sockets -> Seq(Segments)] /\ ShelfApart(withheld)
  BY Zenon DEF DeliveryInv, DeliveryType, OneOfEach
<1>2. PICK h \in Segments : h = Head(withheld[s])
  BY Zenon, <1>1, TailCells
<1>3. Draw(s).seg = [h EXCEPT !.route = "withheld"] /\ Draw(s).rest = Tail(withheld[s])
  BY Zenon, <1>2 DEF Draw
<1>4. /\ Draw(s).seg \in Segments /\ Draw(s).seg.route = "withheld"
      /\ Key(Draw(s).seg) = Key(h)
  BY Zenon, <1>3 DEF Segments, Key
<1>5. /\ Key(Head(withheld[s])) \in ShelfKeys(withheld)
      /\ ShelfKeys([withheld EXCEPT ![s] = Tail(withheld[s])])
            = ShelfKeys(withheld) \ {Key(Head(withheld[s]))}
      /\ ShelfApart([withheld EXCEPT ![s] = Tail(withheld[s])])
  BY Zenon, <1>1, ShelfTail
<1>6. Tail(withheld[s]) \in Seq(Segments)
  BY Zenon, <1>1, TailCells
<1> QED BY Zenon, <1>1, <1>2, <1>3, <1>4, <1>5, <1>6, WhereIs, WhereIsNext

-----------------------------------------------------------------------------
(* The actions, one by one.  First those that leave every segment where it *)
(* is.                                                                     *)

LEMMA QuietPreserves ==
    ASSUME DeliveryInv, DeliveryType', HandsMatch',
           UNCHANGED <<hand, drawn, sdraw, delivery_queue, delivered, withheld, lost, arrived,
                       ahead>>,
           \A n \in NetThreads :
              /\ npc'[n] = "breakpoint" => npc[n] = "breakpoint"
              /\ npc'[n] = "deliver" => npc[n] = "deliver" \/ QueuedFor(hand[n].conn) = {}
    PROVE  DeliveryInv'
<1>1. Moves("hand", "lost", {})
  BY Zenon, WhereStays DEF Moves, Names
<1>2. InOrder'
  BY Zenon, OrderQuiet DEF DeliveryInv
<1>3. ASSUME NEW n \in NetThreads, npc'[n] = "deliver", QueuedFor(hand[n].conn) = {},
             NEW x \in ahead[n]
      PROVE  Key(x) \notin Where'["queue"]
  <2>1. x.conn = hand[n].conn
    BY <1>3 DEF DeliveryInv, AheadGone, HandsMatch, ThreadsMatch
  <2>2. \A i \in DOMAIN delivery_queue : delivery_queue[i].conn # x.conn
    BY Zenon, <1>3, <2>1 DEF QueuedFor, Range
  <2>3. Key(x) \notin ListKeys(delivery_queue)
    BY Zenon, <2>2 DEF ListKeys, Key
  <2> QED BY Zenon, <2>3, WhereIs, WhereStays
<1>4. StaysApart
  BY Zenon DEF StaysApart
<1> QED BY Zenon, <1>1, <1>2, <1>3, <1>4, MovePreserves DEF Names, Left

LEMMA ThreadGoesOn ==
    ASSUME DeliveryInv, NEW n \in NetThreads, NoAction(n) \/ Decide(n)
    PROVE  DeliveryInv'
<1>1. /\ npc[n] \in {"breakpoint", "decide"}
      /\ UNCHANGED <<latency, withheld, delivery_queue, arrived, delivered, lost, entry, hand,
                     drawn, ahead, dpc, sdraw>>
  BY Zenon DEF NoAction, Decide, ends, deliveryVars
<1>2. PICK pc \in {"decide", "queue", "deliver"} :
         /\ npc' = [npc EXCEPT ![n] = pc]
         /\ pc = "deliver" => QueuedFor(hand[n].conn) = {}
  BY Zenon DEF NoAction, Decide
<1>3. npc \in [NetThreads -> {"idle", "breakpoint", "decide", "queue", "deliver",
                              "drawn", "drawn_deliver"}]
  BY Zenon DEF DeliveryInv, DeliveryType
<1>4. npc'[n] = pc /\ \A u \in NetThreads \ {n} : npc'[u] = npc[u]
  BY Zenon, <1>2, <1>3
<1>5. DeliveryType'
  BY Zenon, <1>1, <1>2, <1>3 DEF DeliveryInv, DeliveryType
<1>6. ThreadsMatch'
  BY <1>1, <1>4 DEF DeliveryInv, HandsMatch, ThreadsMatch
<1>7. HandsMatch'
  BY Zenon, <1>1, <1>6 DEF DeliveryInv, HandsMatch, DrawsMatch, DeliveredToOwn, HeadKept, QueueAttended
<1> QED BY Zenon, <1>1, <1>2, <1>4, <1>5, <1>7, QuietPreserves

LEMMA DeliveryGoesOn ==
    ASSUME DeliveryInv, DeliveryCheck \/ DeliverySleep \/ DeliveryWake
    PROVE  DeliveryInv'
<1>1. UNCHANGED <<latency, withheld, delivery_queue, arrived, delivered, lost, npc, entry, hand,
                  drawn, ahead, sdraw>>
  BY Zenon DEF DeliveryCheck, DeliverySleep, DeliveryWake, ends, netVars
<1>2. /\ dpc' \in {"head", "exit", "sleep", "timed_sleep", "check"}
      /\ dpc' = "sleep" => delivery_queue = <<>>
  BY Zenon DEF DeliveryCheck, DeliverySleep, DeliveryWake
<1>3. DeliveryType'
  BY Zenon, <1>1, <1>2 DEF DeliveryInv, DeliveryType
<1>4. HandsMatch'
  BY <1>1, <1>2 DEF DeliveryInv, HandsMatch, ThreadsMatch, DrawsMatch, DeliveredToOwn, HeadKept,
                    QueueAttended
<1> QED BY Zenon, <1>1, <1>3, <1>4, QuietPreserves

LEMMA SocketsGoOn ==
    ASSUME DeliveryInv, (\E s \in Sockets : Open(s) \/ FreeBegin(s)) \/ Stop \/ UNCHANGED vars
    PROVE  DeliveryInv'
<1>1. UNCHANGED <<latency, withheld, delivery_queue, arrived, delivered, lost, npc, entry, hand,
                  drawn, ahead, dpc, sdraw>>
  BY Zenon DEF Open, FreeBegin, Stop, vars, ends, netVars, deliveryVars
<1>2. DeliveryType'
  BY Zenon, <1>1 DEF DeliveryInv, DeliveryType
<1>3. HandsMatch'
  BY <1>1 DEF DeliveryInv, HandsMatch, ThreadsMatch, DrawsMatch, DeliveredToOwn, HeadKept,
              QueueAttended
<1> QED BY Zenon, <1>1, <1>2, <1>3, QuietPreserves

-----------------------------------------------------------------------------
(* The connection threads.                                                 *)

\* A step after which the threads still match, that puts no segment in a hand
\* and sends no thread to a breakpoint or to deliver.
ThreadsStep ==
    /\ ThreadsMatch'
    /\ npc' \in [NetThreads -> {"idle", "breakpoint", "decide", "queue", "deliver",
                                "drawn", "drawn_deliver"}]
    /\ entry' \in [NetThreads -> Sockets \cup {NULL}]
    /\ hand' \in [NetThreads -> Segments \cup {NULL}]
    /\ drawn' \in [NetThreads -> Segments \cup {NULL}]
    /\ ahead' \in [NetThreads -> SUBSET Segments]
    /\ UNCHANGED arrived
    /\ \A u \in NetThreads :
          /\ hand'[u] \in {hand[u], NULL}
          /\ ahead'[u] \in {ahead[u], {}}
          /\ npc'[u] = "breakpoint" => npc[u] = "breakpoint"
          /\ npc'[u] = "deliver" => npc[u] = "deliver"

\* The last step of a call, in which the thread has let go of its segments.
LEMMA FinishMatches ==
    ASSUME DeliveryInv, NEW n \in NetThreads, Finish(n), UNCHANGED arrived,
           hand' \in {hand, [hand EXCEPT ![n] = NULL]}, hand'[n] = NULL,
           drawn' \in {drawn, [drawn EXCEPT ![n] = NULL]}, drawn'[n] = NULL
    PROVE  ThreadsStep
<1>1. /\ npc \in [NetThreads -> {"idle", "breakpoint", "decide", "queue", "deliver",
                                 "drawn", "drawn_deliver"}]
      /\ entry \in [NetThreads -> Sockets \cup {NULL}]
      /\ hand \in [NetThreads -> Segments \cup {NULL}]
      /\ drawn \in [NetThreads -> Segments \cup {NULL}]
      /\ ahead \in [NetThreads -> SUBSET Segments]
  BY Zenon DEF DeliveryInv, DeliveryType
<1>2. /\ npc'[n] = "idle" /\ entry'[n] = NULL /\ ahead'[n] = {}
      /\ \A u \in NetThreads \ {n} :
            /\ npc'[u] = npc[u] /\ entry'[u] = entry[u] /\ ahead'[u] = ahead[u]
            /\ hand'[u] = hand[u] /\ drawn'[u] = drawn[u]
  BY Zenon, <1>1 DEF Finish
<1>3. ThreadsMatch'
  BY <1>2 DEF DeliveryInv, HandsMatch, ThreadsMatch
<1>4. /\ npc' \in [NetThreads -> {"idle", "breakpoint", "decide", "queue", "deliver",
                                  "drawn", "drawn_deliver"}]
      /\ entry' \in [NetThreads -> Sockets \cup {NULL}]
      /\ ahead' \in [NetThreads -> SUBSET Segments]
  BY Zenon, <1>1 DEF Finish
<1>5. /\ hand' \in [NetThreads -> Segments \cup {NULL}]
      /\ drawn' \in [NetThreads -> Segments \cup {NULL}]
  BY Zenon, <1>1
<1>6. \A u \in NetThreads :
         /\ hand'[u] \in {hand[u], NULL}
         /\ ahead'[u] \in {ahead[u], {}}
         /\ npc'[u] = "breakpoint" => npc[u] = "breakpoint"
         /\ npc'[u] = "deliver" => npc[u] = "deliver"
  BY Zenon, <1>2
<1> QED BY Zenon, <1>3, <1>4, <1>5, <1>6 DEF ThreadsStep

LEMMA DropPreserves ==
    ASSUME DeliveryInv, NEW n \in NetThreads, Drop(n)
    PROVE  DeliveryInv'
<1>1. /\ hand[n] # NULL /\ drawn[n] = NULL
      /\ lost' = lost \cup {hand[n]} /\ hand' = [hand EXCEPT ![n] = NULL]
      /\ Finish(n)
      /\ UNCHANGED <<latency, withheld, delivery_queue, arrived, delivered, drawn, dpc, sdraw>>
  BY Zenon DEF DeliveryInv, HandsMatch, ThreadsMatch, Drop, deliveryVars
<1>2. /\ hand[n] \in Segments /\ Key(hand[n]) \in Where["hand"]
      /\ Where'["hand"] = Where["hand"] \ {Key(hand[n])}
      /\ HeldApart(hand') /\ hand' \in [NetThreads -> Segments \cup {NULL}]
  BY Zenon, <1>1, HandGoes
<1>3. Key(hand[n]) \notin Where["lost"]
  BY Zenon, <1>2, Elsewhere DEF Names
<1>4. /\ Where'["lost"] = Where["lost"] \cup {Key(hand[n])}
      /\ SetApart(lost') /\ lost' \subseteq Segments
  BY Zenon, <1>1, <1>2, <1>3, LostGrows
<1>5. Moves("hand", "lost", {Key(hand[n])})
  BY Zenon, <1>1, <1>2, <1>4, WhereStays DEF Moves, Names
<1>6. hand'[n] = NULL
  BY Zenon, <1>1 DEF DeliveryInv, DeliveryType
<1>7. ThreadsStep
  BY Zenon, <1>1, <1>6, FinishMatches
<1>8. DeliveryType'
  BY Zenon, <1>1, <1>2, <1>4, <1>7 DEF ThreadsStep, DeliveryInv, DeliveryType
<1>9. HandsMatch'
  BY Zenon, <1>1, <1>7 DEF ThreadsStep, DeliveryInv, HandsMatch, DrawsMatch, DeliveredToOwn, HeadKept,
                    QueueAttended
<1>10. InOrder'
  BY Zenon, <1>1, <1>7, OrderQuiet DEF ThreadsStep, DeliveryInv
<1>11. StaysApart
  BY Zenon, <1>1, <1>2, <1>4 DEF StaysApart
<1> QED BY Zenon, <1>1, <1>5, <1>7, <1>8, <1>9, <1>10, <1>11, MovePreserves
       DEF ThreadsStep, Names, Left

LEMMA WithholdPreserves ==
    ASSUME DeliveryInv, NEW n \in NetThreads, Withhold(n)
    PROVE  DeliveryInv'
<1>1. /\ hand[n] # NULL /\ drawn[n] = NULL /\ entry[n] \in Sockets
      /\ withheld' = [withheld EXCEPT ![entry[n]] = Append(@, hand[n])]
      /\ hand' = [hand EXCEPT ![n] = NULL]
      /\ Finish(n)
      /\ UNCHANGED <<latency, delivery_queue, arrived, delivered, lost, drawn, dpc, sdraw>>
  BY Zenon DEF DeliveryInv, HandsMatch, ThreadsMatch, Withhold, deliveryVars, ends
<1>2. /\ hand[n] \in Segments /\ Key(hand[n]) \in Where["hand"]
      /\ Where'["hand"] = Where["hand"] \ {Key(hand[n])}
      /\ HeldApart(hand') /\ hand' \in [NetThreads -> Segments \cup {NULL}]
  BY Zenon, <1>1, HandGoes
<1>3. Key(hand[n]) \notin Where["withheld"]
  BY Zenon, <1>2, Elsewhere DEF Names
<1>4. /\ Where'["withheld"] = Where["withheld"] \cup {Key(hand[n])}
      /\ ShelfApart(withheld') /\ withheld' \in [Sockets -> Seq(Segments)]
  BY Zenon, <1>1, <1>2, <1>3, WithheldGrows
<1>5. Moves("hand", "withheld", {Key(hand[n])})
  BY Zenon, <1>1, <1>2, <1>4, WhereStays DEF Moves, Names
<1>6. hand'[n] = NULL
  BY Zenon, <1>1 DEF DeliveryInv, DeliveryType
<1>7. ThreadsStep
  BY Zenon, <1>1, <1>6, FinishMatches
<1>8. DeliveryType'
  BY Zenon, <1>1, <1>2, <1>4, <1>7 DEF ThreadsStep, DeliveryInv, DeliveryType
<1>9. HandsMatch'
  BY Zenon, <1>1, <1>7 DEF ThreadsStep, DeliveryInv, HandsMatch, DrawsMatch, DeliveredToOwn, HeadKept,
                    QueueAttended
<1>10. InOrder'
  BY Zenon, <1>1, <1>7, OrderQuiet DEF ThreadsStep, DeliveryInv
<1>11. StaysApart
  BY Zenon, <1>1, <1>2, <1>4 DEF StaysApart
<1> QED BY Zenon, <1>1, <1>5, <1>7, <1>8, <1>9, <1>10, <1>11, MovePreserves
       DEF ThreadsStep, Names, Left

\* The segment drawn goes with the one received.
LEMMA DrawWithReceivedPreserves ==
    ASSUME DeliveryInv, NEW n \in NetThreads, DrawWithReceived(n)
    PROVE  DeliveryInv'
<1>1. /\ npc[n] = "breakpoint" /\ drawn[n] = NULL /\ entry[n] \in Sockets
      /\ withheld[entry[n]] # <<>>
      /\ withheld' = [withheld EXCEPT ![entry[n]] = Draw(entry[n]).rest]
      /\ drawn' = [drawn EXCEPT ![n] = Draw(entry[n]).seg]
      /\ npc' = [npc EXCEPT ![n] = "decide"]
      /\ UNCHANGED <<latency, delivery_queue, arrived, delivered, lost, entry, hand, ahead, dpc,
                     sdraw>>
  BY Zenon DEF DeliveryInv, HandsMatch, ThreadsMatch, DrawWithReceived, deliveryVars, ends
<1>x. PICK x : x = Draw(entry[n]).seg
  BY Zenon
<1>2. /\ x \in Segments /\ x.route = "withheld" /\ Key(x) \in Where["withheld"]
      /\ Where'["withheld"] = Where["withheld"] \ {Key(x)}
      /\ ShelfApart(withheld') /\ withheld' \in [Sockets -> Seq(Segments)]
  BY Zenon, <1>1, <1>x, WithheldShrinks
<1>3. Key(x) \notin Where["drawn"] /\ x # NULL
  BY Zenon, <1>2, Elsewhere, DeliveryAssumption DEF Names
<1>k. Key(x) \notin HeldKeys(drawn)
  BY Zenon, <1>3, WhereIs
<1>4. /\ drawn \in [NetThreads -> Segments \cup {NULL}] /\ HeldApart(drawn)
      /\ npc \in [NetThreads -> {"idle", "breakpoint", "decide", "queue", "deliver",
                                 "drawn", "drawn_deliver"}]
  BY Zenon DEF DeliveryInv, DeliveryType, OneOfEach
<1>5. /\ HeldKeys([drawn EXCEPT ![n] = x]) = HeldKeys(drawn) \cup {Key(x)}
      /\ HeldApart([drawn EXCEPT ![n] = x])
  BY Zenon, <1>1, <1>2, <1>k, <1>4, HeldTake
<1>6. /\ Where'["drawn"] = Where["drawn"] \cup {Key(x)} /\ HeldApart(drawn')
      /\ drawn' \in [NetThreads -> Segments \cup {NULL}]
  BY Zenon, <1>1, <1>x, <1>2, <1>4, <1>5, WhereIs, WhereIsNext
<1>7. Moves("withheld", "drawn", {Key(x)})
  BY Zenon, <1>1, <1>2, <1>6, WhereStays DEF Moves, Names
<1>8. /\ npc'[n] = "decide" /\ drawn'[n] = x
      /\ \A u \in NetThreads \ {n} : npc'[u] = npc[u] /\ drawn'[u] = drawn[u]
  BY ZenonT(40), <1>1, <1>x, <1>4
<1>9. ThreadsMatch'
  BY <1>1, <1>2, <1>3, <1>8 DEF DeliveryInv, HandsMatch, ThreadsMatch
<1>10. DeliveryType'
  BY Zenon, <1>1, <1>2, <1>6, <1>4 DEF DeliveryInv, DeliveryType
<1>11. HandsMatch'
  BY Zenon, <1>1, <1>9 DEF DeliveryInv, HandsMatch, DrawsMatch, DeliveredToOwn, HeadKept, QueueAttended
<1>12. InOrder'
  BY Zenon, <1>1, <1>8, OrderQuiet DEF DeliveryInv
<1>13. StaysApart
  BY Zenon, <1>1, <1>2, <1>6 DEF StaysApart
<1> QED BY Zenon, <1>1, <1>7, <1>8, <1>10, <1>11, <1>12, <1>13, MovePreserves DEF Names, Left

\* The thread has dealt with the segment received, and may have drawn another.
LEMMA AfterSegmentMatches ==
    ASSUME DeliveryInv, NEW n \in NetThreads, npc[n] \in {"queue", "deliver"}, AfterSegment(n),
           hand' = [hand EXCEPT ![n] = NULL], UNCHANGED <<arrived, drawn>>
    PROVE  ThreadsStep
<1>1. /\ npc \in [NetThreads -> {"idle", "breakpoint", "decide", "queue", "deliver",
                                 "drawn", "drawn_deliver"}]
      /\ hand \in [NetThreads -> Segments \cup {NULL}]
      /\ entry \in [NetThreads -> Sockets \cup {NULL}]
      /\ drawn \in [NetThreads -> Segments \cup {NULL}]
      /\ ahead \in [NetThreads -> SUBSET Segments]
  BY Zenon DEF DeliveryInv, DeliveryType
<1>2. hand'[n] = NULL /\ \A u \in NetThreads \ {n} : hand'[u] = hand[u]
  BY Zenon, <1>1
<1>3. CASE drawn[n] = NULL
  BY Zenon, <1>2, <1>3, FinishMatches DEF AfterSegment
<1>4. CASE drawn[n] # NULL
  <2>1. npc' = [npc EXCEPT ![n] = "drawn"] /\ UNCHANGED <<entry, ahead>>
    BY Zenon, <1>4 DEF AfterSegment
  <2>2. npc'[n] = "drawn" /\ \A u \in NetThreads \ {n} : npc'[u] = npc[u]
    BY Zenon, <1>1, <2>1
  <2>3. ThreadsMatch'
    BY <1>2, <1>4, <2>1, <2>2 DEF DeliveryInv, HandsMatch, ThreadsMatch
  <2>4. \A u \in NetThreads :
           /\ hand'[u] \in {hand[u], NULL}
           /\ ahead'[u] \in {ahead[u], {}}
           /\ npc'[u] = "breakpoint" => npc[u] = "breakpoint"
           /\ npc'[u] = "deliver" => npc[u] = "deliver"
    BY Zenon, <1>2, <2>1, <2>2
  <2> QED BY Zenon, <1>1, <2>1, <2>3, <2>4 DEF ThreadsStep
<1> QED BY Zenon, <1>3, <1>4

LEMMA QueueReceivedPreserves ==
    ASSUME DeliveryInv, NEW n \in NetThreads, QueueReceived(n)
    PROVE  DeliveryInv'
<1>1. /\ npc[n] = "queue" /\ hand[n] # NULL
      /\ QueueSegment(hand[n]) /\ hand' = [hand EXCEPT ![n] = NULL] /\ AfterSegment(n)
      /\ UNCHANGED <<latency, withheld, arrived, delivered, lost, drawn, sdraw>>
  BY Zenon DEF DeliveryInv, HandsMatch, ThreadsMatch, QueueReceived, ends
<1>2. /\ hand[n] \in Segments /\ Key(hand[n]) \in Where["hand"]
      /\ Where'["hand"] = Where["hand"] \ {Key(hand[n])}
      /\ HeldApart(hand')
  BY Zenon, <1>1, HandGoes
<1>3. Key(hand[n]) \notin Where["queue"]
  BY Zenon, <1>2, Elsewhere DEF Names
<1>4. /\ Where'["queue"] = Where["queue"] \cup {Key(hand[n])}
      /\ ListApart(delivery_queue') /\ delivery_queue' \in Seq(Segments)
      /\ dpc' \in {"check", "head", "deliver", "sleep", "timed_sleep", "woken", "exit"}
      /\ HeadKept'
  BY Zenon, <1>1, <1>2, <1>3, QueueGrows
<1>5. Moves("hand", "queue", {Key(hand[n])})
  BY Zenon, <1>1, <1>2, <1>4, WhereStays DEF Moves, Names
<1>6. ThreadsStep
  BY Zenon, <1>1, AfterSegmentMatches
<1>7. DeliveryType'
  BY Zenon, <1>1, <1>4, <1>6 DEF ThreadsStep, DeliveryInv, DeliveryType
<1>8. HandsMatch'
  BY Zenon, <1>1, <1>4, <1>6 DEF ThreadsStep, DeliveryInv, HandsMatch, DrawsMatch, DeliveredToOwn
<1>9. InOrder'
  <2>1. hand'[n] = NULL
    BY Zenon, <1>1 DEF DeliveryInv, DeliveryType
  <2>2. delivery_queue' = Append(delivery_queue, hand[n])
    BY Zenon, <1>1 DEF QueueSegment
  <2> QED BY Zenon, <1>1, <1>2, <1>6, <2>1, <2>2, OrderQueue DEF ThreadsStep, DeliveryInv
<1>10. StaysApart
  BY Zenon, <1>1, <1>2, <1>4 DEF StaysApart
<1> QED BY Zenon, <1>5, <1>6, <1>7, <1>8, <1>9, <1>10, MovePreserves DEF ThreadsStep, Names, Left

LEMMA DeliverReceivedPreserves ==
    ASSUME DeliveryInv, NEW n \in NetThreads, DeliverReceived(n)
    PROVE  DeliveryInv'
<1>1. /\ npc[n] = "deliver" /\ hand[n] # NULL
      /\ DeliverSegment(hand[n]) /\ hand' = [hand EXCEPT ![n] = NULL] /\ AfterSegment(n)
      /\ UNCHANGED <<latency, withheld, arrived, delivery_queue, lost, drawn, dpc, sdraw>>
  BY Zenon DEF DeliveryInv, HandsMatch, ThreadsMatch, DeliverReceived, deliveryVars
<1>2. /\ hand[n] \in Segments /\ Key(hand[n]) \in Where["hand"]
      /\ Where'["hand"] = Where["hand"] \ {Key(hand[n])}
      /\ HeldApart(hand')
  BY Zenon, <1>1, HandGoes
<1>3. Key(hand[n]) \notin Where["delivered"]
  BY Zenon, <1>2, Elsewhere DEF Names
<1>4. /\ Where'["delivered"] = Where["delivered"] \cup {Key(hand[n])}
      /\ ShelfApart(delivered') /\ delivered' \in [Conns -> Seq(Segments)]
      /\ DeliveredToOwn'
  BY Zenon, <1>1, <1>2, <1>3, DeliveredGrows
<1>5. Moves("hand", "delivered", {Key(hand[n])})
  BY Zenon, <1>1, <1>2, <1>4, WhereStays DEF Moves, Names
<1>6. ThreadsStep
  BY Zenon, <1>1, AfterSegmentMatches
<1>7. DeliveryType'
  BY Zenon, <1>1, <1>4, <1>6 DEF ThreadsStep, DeliveryInv, DeliveryType
<1>8. HandsMatch'
  BY Zenon, <1>1, <1>4, <1>6 DEF ThreadsStep, DeliveryInv, HandsMatch, DrawsMatch, HeadKept, QueueAttended
<1>9. InOrder'
  <2>1. hand'[n] = NULL
    BY Zenon, <1>1 DEF DeliveryInv, DeliveryType
  <2> QED BY Zenon, <1>1, <1>2, <1>6, <2>1, OrderDeliver DEF ThreadsStep, DeliveryInv
<1>10. StaysApart
  BY Zenon, <1>1, <1>2, <1>4 DEF StaysApart
<1> QED BY Zenon, <1>5, <1>6, <1>7, <1>8, <1>9, <1>10, MovePreserves DEF ThreadsStep, Names, Left

\* With latency the segment drawn is queued.
LEMMA DrawnQueued ==
    ASSUME DeliveryInv, NEW n \in NetThreads, drawn[n] # NULL, hand[n] = NULL,
           QueueSegment(drawn[n]), Finish(n), drawn' = [drawn EXCEPT ![n] = NULL],
           UNCHANGED <<latency, withheld, arrived, delivered, lost, hand, sdraw>>
    PROVE  DeliveryInv'
<1>1. /\ drawn[n] \in Segments /\ Key(drawn[n]) \in Where["drawn"]
      /\ Where'["drawn"] = Where["drawn"] \ {Key(drawn[n])}
      /\ HeldApart(drawn')
  BY Zenon, DrawnGoes
<1>2. Key(drawn[n]) \notin Where["queue"] /\ drawn[n].route = "withheld"
  BY Zenon, <1>1, Elsewhere DEF Names, DeliveryInv, HandsMatch, ThreadsMatch
<1>3. /\ Where'["queue"] = Where["queue"] \cup {Key(drawn[n])}
      /\ ListApart(delivery_queue') /\ delivery_queue' \in Seq(Segments)
      /\ dpc' \in {"check", "head", "deliver", "sleep", "timed_sleep", "woken", "exit"}
      /\ HeadKept'
  BY Zenon, <1>1, <1>2, QueueGrows
<1>4. Moves("drawn", "queue", {Key(drawn[n])})
  BY Zenon, <1>1, <1>3, WhereStays DEF Moves, Names
<1>5. ThreadsStep
  <2>1. drawn'[n] = NULL
    BY Zenon DEF DeliveryInv, DeliveryType
  <2> QED BY Zenon, <2>1, FinishMatches
<1>6. DeliveryType'
  BY Zenon, <1>3, <1>5 DEF ThreadsStep, DeliveryInv, DeliveryType
<1>7. HandsMatch'
  BY Zenon, <1>3, <1>5 DEF ThreadsStep, DeliveryInv, HandsMatch, DrawsMatch, DeliveredToOwn
<1>8. InOrder'
  <2>1. delivery_queue' = Append(delivery_queue, drawn[n]) /\ ~Received(drawn[n])
    BY Zenon, <1>2 DEF QueueSegment, Received
  <2> QED BY Zenon, <1>1, <1>5, <2>1, OrderQueue DEF ThreadsStep, DeliveryInv
<1>9. StaysApart
  BY Zenon, <1>1, <1>3 DEF StaysApart
<1> QED BY Zenon, <1>4, <1>5, <1>6, <1>7, <1>8, <1>9, MovePreserves DEF ThreadsStep, Names, Left

\* Without latency it is dropped if there is no socket for it.
LEMMA DrawnLost ==
    ASSUME DeliveryInv, NEW n \in NetThreads, drawn[n] # NULL, hand[n] = NULL,
           lost' = lost \cup {drawn[n]}, Finish(n), drawn' = [drawn EXCEPT ![n] = NULL],
           UNCHANGED <<latency, withheld, arrived, delivered, delivery_queue, dpc, hand, sdraw>>
    PROVE  DeliveryInv'
<1>1. /\ drawn[n] \in Segments /\ Key(drawn[n]) \in Where["drawn"]
      /\ Where'["drawn"] = Where["drawn"] \ {Key(drawn[n])}
      /\ HeldApart(drawn')
  BY Zenon, DrawnGoes
<1>2. Key(drawn[n]) \notin Where["lost"]
  BY Zenon, <1>1, Elsewhere DEF Names
<1>3. /\ Where'["lost"] = Where["lost"] \cup {Key(drawn[n])}
      /\ SetApart(lost') /\ lost' \subseteq Segments
  BY Zenon, <1>1, <1>2, LostGrows
<1>4. Moves("drawn", "lost", {Key(drawn[n])})
  BY Zenon, <1>1, <1>3, WhereStays DEF Moves, Names
<1>5. ThreadsStep
  <2>1. drawn'[n] = NULL
    BY Zenon DEF DeliveryInv, DeliveryType
  <2> QED BY Zenon, <2>1, FinishMatches
<1>6. DeliveryType'
  BY Zenon, <1>3, <1>5 DEF ThreadsStep, DeliveryInv, DeliveryType
<1>7. HandsMatch'
  BY Zenon, <1>5 DEF ThreadsStep, DeliveryInv, HandsMatch, DrawsMatch, DeliveredToOwn, HeadKept,
              QueueAttended
<1>8. InOrder'
  BY Zenon, <1>5, OrderQuiet DEF ThreadsStep, DeliveryInv
<1>9. StaysApart
  BY Zenon, <1>1, <1>3 DEF StaysApart
<1> QED BY Zenon, <1>4, <1>5, <1>6, <1>7, <1>8, <1>9, MovePreserves DEF ThreadsStep, Names, Left

LEMMA DrawnPreserves ==
    ASSUME DeliveryInv, NEW n \in NetThreads, Drawn(n)
    PROVE  DeliveryInv'
<1>1. /\ npc[n] = "drawn" /\ drawn[n] # NULL /\ hand[n] = NULL
      /\ UNCHANGED <<latency, withheld, arrived, delivered, hand, sdraw>>
  BY Zenon DEF DeliveryInv, HandsMatch, ThreadsMatch, Drawn
<1>2. CASE /\ QueueSegment(drawn[n]) /\ Finish(n) /\ drawn' = [drawn EXCEPT ![n] = NULL]
           /\ UNCHANGED lost
  BY Zenon, <1>1, <1>2, DrawnQueued
<1>3. CASE /\ lost' = lost \cup {drawn[n]} /\ Finish(n) /\ drawn' = [drawn EXCEPT ![n] = NULL]
           /\ UNCHANGED <<delivery_queue, dpc>>
  BY Zenon, <1>1, <1>3, DrawnLost
<1>4. CASE /\ npc' = [npc EXCEPT ![n] = "drawn_deliver"]
           /\ UNCHANGED <<lost, delivery_queue, dpc, drawn, entry, ahead>>
  <2>1. npc \in [NetThreads -> {"idle", "breakpoint", "decide", "queue", "deliver",
                                "drawn", "drawn_deliver"}]
    BY Zenon DEF DeliveryInv, DeliveryType
  <2>2. npc'[n] = "drawn_deliver" /\ \A u \in NetThreads \ {n} : npc'[u] = npc[u]
    BY Zenon, <1>4, <2>1
  <2>3. DeliveryType'
    BY Zenon, <1>1, <1>4, <2>1 DEF DeliveryInv, DeliveryType
  <2>4. ThreadsMatch'
    BY <1>1, <1>4, <2>2 DEF DeliveryInv, HandsMatch, ThreadsMatch
  <2>5. HandsMatch'
    BY Zenon, <1>1, <1>4, <2>4 DEF DeliveryInv, HandsMatch, DrawsMatch, DeliveredToOwn, HeadKept,
                            QueueAttended
  <2> QED BY Zenon, <1>1, <1>4, <2>2, <2>3, <2>5, QuietPreserves
<1> QED BY Zenon, <1>2, <1>3, <1>4 DEF Drawn

LEMMA DrawnDeliverPreserves ==
    ASSUME DeliveryInv, NEW n \in NetThreads, DrawnDeliver(n)
    PROVE  DeliveryInv'
<1>1. /\ npc[n] = "drawn_deliver" /\ drawn[n] # NULL /\ hand[n] = NULL
      /\ DeliverSegment(drawn[n]) /\ drawn' = [drawn EXCEPT ![n] = NULL] /\ Finish(n)
      /\ UNCHANGED <<latency, withheld, arrived, delivery_queue, lost, hand, dpc, sdraw>>
  BY Zenon DEF DeliveryInv, HandsMatch, ThreadsMatch, DrawnDeliver, deliveryVars
<1>2. /\ drawn[n] \in Segments /\ Key(drawn[n]) \in Where["drawn"]
      /\ Where'["drawn"] = Where["drawn"] \ {Key(drawn[n])}
      /\ HeldApart(drawn')
  BY Zenon, <1>1, DrawnGoes
<1>3. Key(drawn[n]) \notin Where["delivered"] /\ ~Received(drawn[n])
  BY Zenon, <1>1, <1>2, Elsewhere DEF Names, DeliveryInv, HandsMatch, ThreadsMatch, Received
<1>4. /\ Where'["delivered"] = Where["delivered"] \cup {Key(drawn[n])}
      /\ ShelfApart(delivered') /\ delivered' \in [Conns -> Seq(Segments)]
      /\ DeliveredToOwn'
  BY Zenon, <1>1, <1>2, <1>3, DeliveredGrows
<1>5. Moves("drawn", "delivered", {Key(drawn[n])})
  BY Zenon, <1>1, <1>2, <1>4, WhereStays DEF Moves, Names
<1>6. ThreadsStep
  <2>1. drawn'[n] = NULL
    BY Zenon, <1>1 DEF DeliveryInv, DeliveryType
  <2> QED BY Zenon, <1>1, <2>1, FinishMatches
<1>7. DeliveryType'
  BY Zenon, <1>1, <1>4, <1>6 DEF ThreadsStep, DeliveryInv, DeliveryType
<1>8. HandsMatch'
  BY Zenon, <1>1, <1>4, <1>6 DEF ThreadsStep, DeliveryInv, HandsMatch, DrawsMatch, HeadKept, QueueAttended
<1>9. InOrder'
  BY Zenon, <1>1, <1>2, <1>3, <1>6, OrderDeliver DEF ThreadsStep, DeliveryInv
<1>10. StaysApart
  BY Zenon, <1>1, <1>2, <1>4 DEF StaysApart
<1> QED BY Zenon, <1>5, <1>6, <1>7, <1>8, <1>9, <1>10, MovePreserves DEF ThreadsStep, Names, Left

-----------------------------------------------------------------------------
(* The threads that draw a segment when a socket changes state, the        *)
(* delivery thread, and the freeing of a socket.                           *)

\* The connection threads have nothing to do with the step.
LEMMA ThreadsAside ==
    ASSUME DeliveryInv, UNCHANGED <<npc, entry, hand, drawn, ahead, arrived>>
    PROVE  ThreadsStep
BY Zenon DEF ThreadsStep, DeliveryInv, DeliveryType, HandsMatch, ThreadsMatch

LEMMA DrawOnStateChangePreserves ==
    ASSUME DeliveryInv, NEW c \in Conns, DrawOnStateChange(c)
    PROVE  DeliveryInv'
<1>1. /\ sdraw[c] = NULL /\ withheld[c] # <<>> /\ c \in Sockets
      /\ withheld' = [withheld EXCEPT ![c] = Draw(c).rest]
      /\ sdraw' = [sdraw EXCEPT ![c] = Draw(c).seg]
      /\ UNCHANGED <<latency, delivery_queue, arrived, delivered, lost, npc, entry, hand, drawn,
                     ahead, dpc>>
  BY Zenon DEF DrawOnStateChange, netVars, deliveryVars, ends, Sockets
<1>x. PICK x : x = Draw(c).seg
  BY Zenon
<1>2. /\ x \in Segments /\ x.route = "withheld" /\ Key(x) \in Where["withheld"]
      /\ Where'["withheld"] = Where["withheld"] \ {Key(x)}
      /\ ShelfApart(withheld') /\ withheld' \in [Sockets -> Seq(Segments)]
  BY Zenon, <1>1, <1>x, WithheldShrinks
<1>3. Key(x) \notin Where["sdraw"] /\ x # NULL
  BY Zenon, <1>2, Elsewhere, DeliveryAssumption DEF Names
<1>k. Key(x) \notin HeldKeys(sdraw)
  BY Zenon, <1>3, WhereIs
<1>4. sdraw \in [Sockets -> Segments \cup {NULL}] /\ HeldApart(sdraw)
  BY Zenon DEF DeliveryInv, DeliveryType, OneOfEach
<1>5. /\ HeldKeys([sdraw EXCEPT ![c] = x]) = HeldKeys(sdraw) \cup {Key(x)}
      /\ HeldApart([sdraw EXCEPT ![c] = x])
  BY Zenon, <1>1, <1>2, <1>k, <1>4, HeldTake
<1>6. /\ Where'["sdraw"] = Where["sdraw"] \cup {Key(x)} /\ HeldApart(sdraw')
      /\ sdraw' \in [Sockets -> Segments \cup {NULL}]
  BY Zenon, <1>1, <1>x, <1>2, <1>4, <1>5, WhereIs, WhereIsNext
<1>7. Moves("withheld", "sdraw", {Key(x)})
  BY Zenon, <1>1, <1>2, <1>6, WhereStays DEF Moves, Names
<1>8. ThreadsStep
  BY Zenon, <1>1, ThreadsAside
<1>9. DeliveryType'
  BY Zenon, <1>1, <1>2, <1>6, <1>8 DEF ThreadsStep, DeliveryInv, DeliveryType
<1>10. DrawsMatch'
  BY Zenon, <1>1, <1>x, <1>2, <1>4 DEF DeliveryInv, HandsMatch, DrawsMatch
<1>11. HandsMatch'
  BY Zenon, <1>1, <1>8, <1>10 DEF ThreadsStep, DeliveryInv, HandsMatch, DeliveredToOwn, HeadKept,
                           QueueAttended
<1>12. InOrder'
  BY Zenon, <1>1, <1>8, OrderQuiet DEF ThreadsStep, DeliveryInv
<1>13. StaysApart
  BY Zenon, <1>1, <1>2, <1>6 DEF StaysApart
<1> QED BY Zenon, <1>7, <1>8, <1>9, <1>11, <1>12, <1>13, MovePreserves DEF ThreadsStep, Names, Left

LEMMA QueueDrawnPreserves ==
    ASSUME DeliveryInv, NEW c \in Conns, QueueDrawn(c)
    PROVE  DeliveryInv'
<1>1. /\ sdraw[c] # NULL /\ c \in Sockets /\ QueueSegment(sdraw[c])
      /\ sdraw' = [sdraw EXCEPT ![c] = NULL]
      /\ UNCHANGED <<latency, withheld, arrived, delivered, lost, npc, entry, hand, drawn, ahead>>
  BY Zenon DEF QueueDrawn, netVars, ends, Sockets
<1>2. /\ sdraw[c] \in Segments /\ Key(sdraw[c]) \in Where["sdraw"]
      /\ Where'["sdraw"] = Where["sdraw"] \ {Key(sdraw[c])}
      /\ HeldApart(sdraw') /\ sdraw' \in [Sockets -> Segments \cup {NULL}]
  BY Zenon, <1>1, StateDrawGoes
<1>3. Key(sdraw[c]) \notin Where["queue"] /\ ~Received(sdraw[c])
  BY Zenon, <1>1, <1>2, Elsewhere DEF Names, DeliveryInv, HandsMatch, DrawsMatch, Received
<1>4. /\ Where'["queue"] = Where["queue"] \cup {Key(sdraw[c])}
      /\ ListApart(delivery_queue') /\ delivery_queue' \in Seq(Segments)
      /\ dpc' \in {"check", "head", "deliver", "sleep", "timed_sleep", "woken", "exit"}
      /\ HeadKept'
  BY Zenon, <1>1, <1>2, <1>3, QueueGrows
<1>5. Moves("sdraw", "queue", {Key(sdraw[c])})
  BY Zenon, <1>1, <1>2, <1>4, WhereStays DEF Moves, Names
<1>6. ThreadsStep
  BY Zenon, <1>1, ThreadsAside
<1>7. DeliveryType'
  BY Zenon, <1>1, <1>2, <1>4, <1>6 DEF ThreadsStep, DeliveryInv, DeliveryType
<1>8. DrawsMatch'
  BY Zenon, <1>1 DEF DeliveryInv, DeliveryType, HandsMatch, DrawsMatch
<1>9. HandsMatch'
  BY Zenon, <1>1, <1>4, <1>6, <1>8 DEF ThreadsStep, DeliveryInv, HandsMatch, DeliveredToOwn
<1>10. InOrder'
  <2>1. delivery_queue' = Append(delivery_queue, sdraw[c])
    BY Zenon, <1>1 DEF QueueSegment
  <2> QED BY Zenon, <1>1, <1>2, <1>3, <1>6, <2>1, OrderQueue DEF ThreadsStep, DeliveryInv
<1>11. StaysApart
  BY Zenon, <1>1, <1>2, <1>4 DEF StaysApart
<1> QED BY Zenon, <1>5, <1>6, <1>7, <1>9, <1>10, <1>11, MovePreserves DEF ThreadsStep, Names, Left

\* The head of the queue is dropped if there is no socket for it.
LEMMA DeliveryLookupPreserves ==
    ASSUME DeliveryInv, DeliveryLookup
    PROVE  DeliveryInv'
<1>1. /\ dpc = "head" /\ delivery_queue # <<>>
      /\ UNCHANGED <<latency, withheld, arrived, delivered, npc, entry, hand, drawn, ahead, sdraw>>
  BY Zenon DEF DeliveryLookup, netVars
<1>2. ThreadsStep
  BY Zenon, <1>1, ThreadsAside
<1>3. CASE /\ lost' = lost \cup {Head(delivery_queue)} /\ delivery_queue' = Tail(delivery_queue)
           /\ UNCHANGED dpc
  <2>x. PICK x : x = Head(delivery_queue)
    BY Zenon
  <2>1. /\ x \in Segments /\ Key(x) \in Where["queue"]
        /\ Where'["queue"] = Where["queue"] \ {Key(x)}
        /\ ListApart(delivery_queue') /\ delivery_queue' \in Seq(Segments)
    BY Zenon, <1>1, <1>3, <2>x, QueueShrinks
  <2>2. Key(x) \notin Where["lost"]
    BY Zenon, <2>1, Elsewhere DEF Names
  <2>3. /\ Where'["lost"] = Where["lost"] \cup {Key(x)}
        /\ SetApart(lost') /\ lost' \subseteq Segments
    BY Zenon, <1>3, <2>x, <2>1, <2>2, LostGrows
  <2>4. Moves("queue", "lost", {Key(x)})
    BY Zenon, <1>1, <2>1, <2>3, WhereStays DEF Moves, Names
  <2>5. DeliveryType'
    BY Zenon, <1>1, <1>2, <1>3, <2>1, <2>3 DEF ThreadsStep, DeliveryInv, DeliveryType
  <2>6. HandsMatch'
    BY Zenon, <1>1, <1>2, <1>3 DEF ThreadsStep, DeliveryInv, HandsMatch, DrawsMatch, DeliveredToOwn,
                            HeadKept, QueueAttended
  <2>7. InOrder'
    BY Zenon, <1>1, <1>3, OrderTake DEF DeliveryInv
  <2>8. StaysApart
    BY Zenon, <1>1, <2>1, <2>3 DEF StaysApart
  <2> QED BY Zenon, <1>2, <2>4, <2>5, <2>6, <2>7, <2>8, MovePreserves DEF ThreadsStep, Names, Left
<1>4. CASE dpc' = "deliver" /\ UNCHANGED <<lost, delivery_queue>>
  <2>1. DeliveryType'
    BY Zenon, <1>1, <1>2, <1>4 DEF ThreadsStep, DeliveryInv, DeliveryType
  <2>2. HandsMatch'
    BY Zenon, <1>1, <1>2, <1>4 DEF ThreadsStep, DeliveryInv, HandsMatch, DrawsMatch, DeliveredToOwn,
                            HeadKept, QueueAttended
  <2> QED BY Zenon, <1>1, <1>4, <2>1, <2>2, QuietPreserves
<1> QED BY Zenon, <1>3, <1>4 DEF DeliveryLookup, deliveryVars

LEMMA DeliveryDeliverPreserves ==
    ASSUME DeliveryInv, DeliveryDeliver
    PROVE  DeliveryInv'
<1>1. /\ delivery_queue # <<>> /\ DeliverSegment(Head(delivery_queue))
      /\ delivery_queue' = Tail(delivery_queue) /\ dpc' = "head"
      /\ UNCHANGED <<latency, withheld, arrived, lost, npc, entry, hand, drawn, ahead, sdraw>>
  BY Zenon DEF DeliveryInv, HandsMatch, HeadKept, DeliveryDeliver, netVars
<1>x. PICK x : x = Head(delivery_queue)
  BY Zenon
<1>2. /\ x \in Segments /\ Key(x) \in Where["queue"]
      /\ Where'["queue"] = Where["queue"] \ {Key(x)}
      /\ ListApart(delivery_queue') /\ delivery_queue' \in Seq(Segments)
  BY Zenon, <1>1, <1>x, QueueShrinks
<1>3. Key(x) \notin Where["delivered"]
  BY Zenon, <1>2, Elsewhere DEF Names
<1>4. /\ Where'["delivered"] = Where["delivered"] \cup {Key(x)}
      /\ ShelfApart(delivered') /\ delivered' \in [Conns -> Seq(Segments)]
      /\ DeliveredToOwn'
  BY Zenon, <1>1, <1>x, <1>2, <1>3, DeliveredGrows
<1>5. Moves("queue", "delivered", {Key(x)})
  BY Zenon, <1>1, <1>2, <1>4, WhereStays DEF Moves, Names
<1>6. ThreadsStep
  BY Zenon, <1>1, ThreadsAside
<1>7. DeliveryType'
  BY Zenon, <1>1, <1>2, <1>4, <1>6 DEF ThreadsStep, DeliveryInv, DeliveryType
<1>8. HandsMatch'
  BY Zenon, <1>1, <1>4, <1>6 DEF ThreadsStep, DeliveryInv, HandsMatch, DrawsMatch, HeadKept, QueueAttended
<1>9. InOrder'
  BY Zenon, <1>1, OrderTake DEF DeliveryInv
<1>10. StaysApart
  BY Zenon, <1>1, <1>2, <1>4 DEF StaysApart
<1> QED BY Zenon, <1>5, <1>6, <1>7, <1>8, <1>9, <1>10, MovePreserves DEF ThreadsStep, Names, Left

\* What is withheld in a socket is freed with it.
LEMMA FreeEndPreserves ==
    ASSUME DeliveryInv, NEW s \in Sockets, FreeEnd(s)
    PROVE  DeliveryInv'
<1>1. /\ lost' = lost \cup Range(withheld[s])
      /\ withheld' = [withheld EXCEPT ![s] = <<>>]
      /\ UNCHANGED <<latency, delivery_queue, arrived, delivered, npc, entry, hand, drawn, ahead,
                     dpc, sdraw>>
  BY Zenon DEF FreeEnd, netVars, deliveryVars
<1>2. /\ withheld \in [Sockets -> Seq(Segments)] /\ ShelfApart(withheld)
      /\ lost \subseteq Segments /\ SetApart(lost)
  BY Zenon DEF DeliveryInv, DeliveryType, OneOfEach
<1>w. PICK w \in Seq(Segments) : w = withheld[s]
  BY Zenon, <1>2
<1>3. /\ ListKeys(withheld[s]) \subseteq ShelfKeys(withheld)
      /\ ShelfKeys([withheld EXCEPT ![s] = <<>>]) = ShelfKeys(withheld) \ ListKeys(withheld[s])
      /\ ShelfApart([withheld EXCEPT ![s] = <<>>])
  BY Zenon, <1>2, ShelfClear
<1>4. /\ ListKeys(w) \subseteq Where["withheld"]
      /\ Where'["withheld"] = Where["withheld"] \ ListKeys(w) /\ ShelfApart(withheld')
  BY Zenon, <1>1, <1>3, <1>w, WhereIs, WhereIsNext
<1>5. withheld' \in [Sockets -> Seq(Segments)]
  <2>1. <<>> \in Seq(Segments)
    OBVIOUS
  <2> QED BY Zenon, <1>1, <1>2, <2>1
<1>6. /\ \A i \in DOMAIN w : w[i] \in Segments
      /\ \A x : x \in Range(w) <=> \E i \in DOMAIN w : x = w[i]
  BY DEF Range
<1>7. lost' \subseteq Segments
  BY <1>1, <1>2, <1>w, <1>6
<1>8. \A k : k \in {Key(x) : x \in lost'} <=> k \in {Key(x) : x \in lost} \cup ListKeys(w)
  BY <1>1, <1>w, <1>6 DEF ListKeys
<1>9. Where'["lost"] = Where["lost"] \cup ListKeys(w)
  BY Zenon, <1>8, WhereIs, WhereIsNext
<1>10. SetApart(lost')
  <2>1. \A k \in ListKeys(w) : k \notin {Key(x) : x \in lost}
    BY Zenon, <1>4, Elsewhere, WhereIs DEF Names
  <2>2. \A i \in DOMAIN w : Key(w[i]) \in ListKeys(w)
    BY Zenon DEF ListKeys
  <2>3. ListApart(w)
    BY Zenon, <1>2, <1>w DEF ShelfApart
  <2>4. \A x \in lost', y \in lost' : Key(x) = Key(y) => x = y
    <3> SUFFICES ASSUME NEW x \in lost', NEW y \in lost', Key(x) = Key(y)
                 PROVE  x = y
      BY Zenon
    <3>1. (x \in lost \/ x \in Range(w)) /\ (y \in lost \/ y \in Range(w))
      BY Zenon, <1>1, <1>w
    <3>2. CASE x \in lost /\ y \in lost
      BY Zenon, <1>2, <3>2 DEF SetApart
    <3>3. CASE x \in Range(w) /\ y \in Range(w)
      BY Zenon, <1>6, <2>3, <3>3 DEF ListApart
    <3>4. CASE x \in lost /\ y \in Range(w)
      BY Zenon, <1>6, <2>1, <2>2, <3>4
    <3>5. CASE x \in Range(w) /\ y \in lost
      BY Zenon, <1>6, <2>1, <2>2, <3>5
    <3> QED BY Zenon, <3>1, <3>2, <3>3, <3>4, <3>5
  <2> QED BY Zenon, <2>4 DEF SetApart
<1>11. Moves("withheld", "lost", ListKeys(w))
  BY Zenon, <1>1, <1>4, <1>9, WhereStays DEF Moves, Names
<1>12. ThreadsStep
  BY Zenon, <1>1, ThreadsAside
<1>13. DeliveryType'
  BY Zenon, <1>1, <1>5, <1>7, <1>12 DEF ThreadsStep, DeliveryInv, DeliveryType
<1>14. HandsMatch'
  BY Zenon, <1>1, <1>12 DEF ThreadsStep, DeliveryInv, HandsMatch, DrawsMatch, DeliveredToOwn, HeadKept,
                     QueueAttended
<1>15. InOrder'
  BY Zenon, <1>1, <1>12, OrderQuiet DEF ThreadsStep, DeliveryInv
<1>16. StaysApart
  BY Zenon, <1>1, <1>4, <1>10 DEF StaysApart
<1> QED BY Zenon, <1>11, <1>12, <1>13, <1>14, <1>15, <1>16, MovePreserves DEF ThreadsStep, Names, Left

-----------------------------------------------------------------------------
(* The steps that add a key: a segment arrives, or is duplicated.          *)

\* The key k is new, and is now among those of q.
Adds(q, k) ==
    /\ Where'[q] = Where[q] \cup {k}
    /\ \A r \in Names \ {q} : Where'[r] = Where[r]

LEMMA NewKeeps ==
    ASSUME NEW q \in Names, NEW k, Apart(Where), ~Placed(k), Adds(q, k)
    PROVE  /\ Apart(Where')
           /\ \A j : Placed(j)' <=> Placed(j) \/ j = k
<1>1. \A r \in Names : k \notin Where[r]
  BY Zenon DEF Placed
<1>2. \A r \in Names : \A j : j \in Where'[r] <=> j \in Where[r] \/ (r = q /\ j = k)
  BY Zenon DEF Adds
<1>3. Apart(Where')
  <2> SUFFICES ASSUME NEW r \in Names, NEW t \in Names, r # t, NEW j,
                      j \in Where'[r], j \in Where'[t]
               PROVE  FALSE
    BY Zenon DEF Apart
  <2>1. CASE j = k
    BY Zenon, <1>1, <1>2, <2>1
  <2>2. CASE j # k
    <3>1. j \in Where[r] /\ j \in Where[t]
      BY <1>2, <2>2
    <3> QED BY Zenon, <3>1 DEF Apart
  <2> QED BY Zenon, <2>1, <2>2
<1>4. ASSUME NEW j
      PROVE  (\E r \in Names : j \in Where'[r]) <=> (\E r \in Names : j \in Where[r]) \/ j = k
  BY Zenon, <1>2
<1> QED BY Zenon, <1>3, <1>4 DEF Placed

\* What Receive(n, c) leaves to show: where the segment has gone, and the order.
LEMMA ArrivalPreserves ==
    ASSUME DeliveryInv, NEW n \in NetThreads, NEW c \in Conns, c[1] = n,
           arrived[c] < MaxSegments, arrived' = [arrived EXCEPT ![c] = @ + 1],
           NEW q \in {"hand", "lost"}, Adds(q, <<c, arrived[c] + 1, FALSE>>),
           npc[n] = "idle", \A u \in NetThreads \ {n} : /\ npc'[u] = npc[u] /\ hand'[u] = hand[u]
                                                        /\ ahead'[u] = ahead[u],
           \/ npc'[n] = npc[n] /\ hand'[n] = hand[n] /\ ahead'[n] = ahead[n]
           \/ /\ npc'[n] = "breakpoint" /\ hand'[n] = Segment(c, arrived[c] + 1)
              /\ ahead'[n] = QueuedFor(c),
           DeliveryType', HandsMatch', StaysApart, InOrder'
    PROVE  DeliveryInv'
<1>0. arrived \in [Conns -> 0..MaxSegments] /\ MaxSegments \in Nat
  BY ZenonT(40), DeliveryAssumption DEF DeliveryInv, DeliveryType
<1>m. PICK m \in 1..MaxSegments : m = arrived[c] + 1
  BY <1>0
<1>1. arrived'[c] = m /\ \A d \in Conns \ {c} : arrived'[d] = arrived[d]
  BY Zenon, <1>0, <1>m
<1>k. PICK k : k = <<c, m, FALSE>>
  BY Zenon
<1>a. arrived[c] \in Int /\ ~(m <= arrived[c])
  BY <1>0, <1>m
<1>2. ~Placed(<<c, m, FALSE>>) /\ ~Placed(<<c, m, TRUE>>)
  BY Zenon, <1>a DEF DeliveryInv, ArrivedPlaced
<1>3. Apart(Where') /\ \A j : Placed(j)' <=> Placed(j) \/ j = k
  BY ZenonT(40), <1>2, <1>k, <1>m, NewKeeps DEF DeliveryInv, OneOfEach, Names
<1>4. OneOfEach'
  BY Zenon, <1>3, ApartNext DEF DeliveryInv, OneOfEach
<1>5. ASSUME NEW d \in Conns, NEW i \in 1..MaxSegments
      PROVE  /\ i <= arrived'[d] => Placed(<<d, i, FALSE>>)'
             /\ \A b \in BOOLEAN : Placed(<<d, i, b>>)' => i <= arrived'[d]
  <2>0. /\ i <= arrived[d] => Placed(<<d, i, FALSE>>)
        /\ \A b \in BOOLEAN : Placed(<<d, i, b>>) => i <= arrived[d]
    BY Zenon DEF DeliveryInv, ArrivedPlaced
  <2>1. CASE d # c
    <3>1. \A b \in BOOLEAN : <<d, i, b>> # k
      BY Zenon, <1>k, <2>1
    <3>2. \A b \in BOOLEAN : Placed(<<d, i, b>>)' <=> Placed(<<d, i, b>>)
      BY Zenon, <1>3, <3>1
    <3> QED BY Zenon, <1>1, <2>0, <2>1, <3>2
  <2>2. CASE d = c /\ i = m
    <3>1. Placed(<<d, i, FALSE>>)'
      BY Zenon, <1>3, <1>k, <2>2
    <3> QED BY <1>0, <1>1, <1>m, <2>2, <3>1
  <2>3. CASE d = c /\ i # m
    <3>1. \A b \in BOOLEAN : <<d, i, b>> # k
      BY Zenon, <1>k, <2>3
    <3>2. \A b \in BOOLEAN : Placed(<<d, i, b>>)' <=> Placed(<<d, i, b>>)
      BY Zenon, <1>3, <3>1
    <3>3. i <= arrived'[d] <=> i <= arrived[d]
      BY <1>0, <1>1, <1>m, <2>3
    <3> QED BY Zenon, <2>0, <3>2, <3>3
  <2> QED BY Zenon, <2>1, <2>2, <2>3
<1>6. ASSUME NEW u \in NetThreads, npc'[u] = "breakpoint"
      PROVE  ~Placed(<<hand[u].conn, hand[u].num, TRUE>>)'
  <2>1. CASE u = n
    <3>1. hand'[u].conn = c /\ hand'[u].num = m
      BY <1>6, <1>m, <2>1 DEF Segment
    <3>2. ~Placed(<<c, m, TRUE>>)'
      BY Zenon, <1>2, <1>3, <1>k
    <3> QED BY Zenon, <3>1, <3>2 DEF Placed
  <2>2. CASE u # n
    <3>1. npc[u] = "breakpoint" /\ hand'[u] = hand[u]
      BY Zenon, <1>6, <2>2
    <3>2. PICK h : h = hand[u]
      BY Zenon
    <3>3. ~Placed(<<h.conn, h.num, TRUE>>)
      BY Zenon, <3>1, <3>2 DEF DeliveryInv, ArrivedPlaced
    <3>4. ~Placed(<<h.conn, h.num, TRUE>>)'
      BY Zenon, <1>3, <1>k, <3>3
    <3> QED BY Zenon, <3>1, <3>2, <3>4 DEF Placed
  <2> QED BY Zenon, <2>1, <2>2
<1>7. ArrivedPlaced'
  BY Zenon, <1>5, <1>6 DEF ArrivedPlaced
<1>8. AheadGone'
  <2> SUFFICES ASSUME NEW u \in NetThreads, NEW x \in ahead'[u]
               PROVE  /\ Key(x) \in Where'["queue"] \cup Where'["delivered"] \cup Where'["lost"]
                      /\ hand'[u] # NULL => x.conn = hand'[u].conn
                      /\ npc'[u] = "deliver" => Key(x) \notin Where'["queue"]
    BY Zenon DEF AheadGone
  <2>0. /\ Where'["queue"] = Where["queue"] /\ Where'["delivered"] = Where["delivered"]
        /\ Where["lost"] \subseteq Where'["lost"]
    BY Zenon DEF Adds, Names
  <2>1. CASE npc'[u] = npc[u] /\ hand'[u] = hand[u] /\ ahead'[u] = ahead[u]
    BY <2>0, <2>1 DEF DeliveryInv, AheadGone
  <2>2. CASE /\ u = n /\ npc'[n] = "breakpoint" /\ hand'[n] = Segment(c, arrived[c] + 1)
             /\ ahead'[n] = QueuedFor(c)
    <3>1. x.conn = c /\ \E i \in DOMAIN delivery_queue : x = delivery_queue[i]
      BY Zenon, <2>2 DEF QueuedFor, Range
    <3>2. Key(x) \in ListKeys(delivery_queue)
      BY Zenon, <3>1 DEF ListKeys
    <3> QED BY <2>0, <2>2, <3>1, <3>2, WhereIs DEF Segment
  <2> QED BY Zenon, <2>1, <2>2
<1> QED BY Zenon, <1>4, <1>7, <1>8 DEF DeliveryInv

\* A segment that is in some place is one of those that have arrived.
LEMMA PlacedHasArrived ==
    ASSUME DeliveryInv, NEW x \in Segments, NEW p \in Names, Key(x) \in Where[p]
    PROVE  x.num <= arrived[x.conn]
<1>1. x.conn \in Conns /\ x.num \in 1..MaxSegments /\ x.copy \in BOOLEAN
  BY Zenon DEF Segments
<1>2. Placed(<<x.conn, x.num, x.copy>>)
  BY Zenon DEF Placed, Key
<1> QED BY Zenon, <1>1, <1>2 DEF DeliveryInv, ArrivedPlaced

\* The segment received comes after all the others of its connection.
LEMMA OrderReceive ==
    ASSUME DeliveryInv, NEW n \in NetThreads, NEW x \in Segments, x.num > arrived[x.conn],
           hand' = [hand EXCEPT ![n] = x], npc' = [npc EXCEPT ![n] = "breakpoint"],
           UNCHANGED <<delivered, delivery_queue>>
    PROVE  InOrder'
<1>0. /\ hand \in [NetThreads -> Segments \cup {NULL}]
      /\ npc \in [NetThreads -> {"idle", "breakpoint", "decide", "queue", "deliver",
                                 "drawn", "drawn_deliver"}]
      /\ arrived \in [Conns -> 0..MaxSegments] /\ MaxSegments \in Nat
      /\ delivery_queue \in Seq(Segments) /\ delivered \in [Conns -> Seq(Segments)]
  BY Zenon, DeliveryAssumption DEF DeliveryInv, DeliveryType
<1>1. DeliveredOrder' /\ QueueOrder' /\ DeliveredFirst'
  BY Zenon DEF DeliveryInv, InOrder, DeliveredOrder, QueueOrder, DeliveredFirst
<1>2. \A y \in Segments : y.num \in Int /\ y.conn \in Conns /\ arrived[y.conn] \in Int
  BY <1>0 DEF Segments
<1>3. ASSUME NEW y \in Segments, NEW p \in Names, Key(y) \in Where[p], y.conn = x.conn
      PROVE  y.num < x.num
  <2>1. y.num <= arrived[x.conn]
    BY Zenon, <1>3, PlacedHasArrived
  <2> QED BY <1>2, <2>1
<1>4. ASSUME NEW j \in DOMAIN delivery_queue, delivery_queue[j].conn = x.conn
      PROVE  delivery_queue[j].num < x.num
  <2>1. delivery_queue[j] \in Segments
    BY <1>0
  <2>2. Key(delivery_queue[j]) \in Where["queue"]
    BY Zenon, WhereIs DEF ListKeys
  <2> QED BY Zenon, <1>3, <1>4, <2>1, <2>2 DEF Names
<1>5. ASSUME NEW i \in DOMAIN delivered[x.conn]
      PROVE  delivered[x.conn][i].num < x.num
  <2>1. x.conn \in Conns /\ delivered[x.conn] \in Seq(Segments)
    BY Zenon, <1>0, <1>2
  <2>2. delivered[x.conn][i] \in Segments
    BY <1>5, <2>1
  <2>3. delivered[x.conn][i].conn = x.conn
    BY Zenon, <2>1 DEF DeliveryInv, HandsMatch, DeliveredToOwn
  <2>4. Key(delivered[x.conn][i]) \in Where["delivered"]
    <3>1. Key(delivered[x.conn][i]) \in ListKeys(delivered[x.conn])
      BY Zenon DEF ListKeys
    <3> QED BY Zenon, <1>0, <2>1, <3>1, WhereIs DEF ShelfKeys
  <2> QED BY Zenon, <1>3, <2>2, <2>3, <2>4 DEF Names
<1>6. HandLast'
  <2> SUFFICES ASSUME NEW u \in NetThreads, NEW h \in Segments, hand'[u] = h
               PROVE  /\ \A i \in DOMAIN delivered[h.conn] :
                            Received(delivered[h.conn][i]) => delivered[h.conn][i].num < h.num
                      /\ \A j \in DOMAIN delivery_queue :
                            Received(delivery_queue[j]) /\ delivery_queue[j].conn = h.conn
                               => delivery_queue[j].num < h.num /\ npc'[u] # "deliver"
    BY Zenon DEF HandLast, Received
  <2>1. CASE u = n
    <3>1. h = x /\ npc'[u] = "breakpoint"
      BY Zenon, <1>0, <2>1
    <3> QED BY Zenon, <1>4, <1>5, <3>1
  <2>2. CASE u # n
    <3>1. hand[u] = h /\ npc'[u] = npc[u]
      BY Zenon, <1>0, <2>2
    <3> QED BY Zenon, <3>1 DEF DeliveryInv, InOrder, HandLast
  <2> QED BY Zenon, <2>1, <2>2
<1> QED BY Zenon, <1>1, <1>6 DEF InOrder

LEMMA ReceivePreserves ==
    ASSUME DeliveryInv, NEW n \in NetThreads, NEW c \in Conns, Receive(n, c)
    PROVE  DeliveryInv'
<1>0. /\ hand \in [NetThreads -> Segments \cup {NULL}]
      /\ drawn \in [NetThreads -> Segments \cup {NULL}]
      /\ npc \in [NetThreads -> {"idle", "breakpoint", "decide", "queue", "deliver",
                                 "drawn", "drawn_deliver"}]
      /\ entry \in [NetThreads -> Sockets \cup {NULL}]
      /\ ahead \in [NetThreads -> SUBSET Segments]
      /\ arrived \in [Conns -> 0..MaxSegments]
      /\ MaxSegments \in Nat /\ MaxDelayed \in 0..MaxSegments
      /\ delivery_queue \in Seq(Segments) /\ HeldApart(hand)
      /\ NULL \notin Segments
  BY Zenon, DeliveryAssumption DEF DeliveryInv, DeliveryType, OneOfEach
<1>1. /\ npc[n] = "idle" /\ hand[n] = NULL /\ drawn[n] = NULL /\ c[1] = n
      /\ arrived[c] < MaxSegments
      /\ arrived' = [arrived EXCEPT ![c] = @ + 1]
      /\ UNCHANGED <<latency, withheld, delivery_queue, delivered, dpc, drawn, sdraw>>
  <2>1. npc[n] = "idle" /\ c[1] = n /\ arrived' = [arrived EXCEPT ![c] = @ + 1]
    BY Zenon DEF Receive
  <2>2. UNCHANGED <<latency, withheld, delivery_queue, delivered, dpc, drawn, sdraw>>
    BY Zenon DEF Receive, netVars, deliveryVars
  <2>3. arrived[c] \in Int /\ arrived[c] < (IF latency THEN MaxDelayed ELSE MaxSegments)
    BY <1>0 DEF Receive
  <2>4. arrived[c] < MaxSegments
    BY <1>0, <2>3
  <2>5. hand[n] = NULL /\ drawn[n] = NULL
    BY Zenon, <2>1 DEF DeliveryInv, HandsMatch, ThreadsMatch
  <2> QED BY Zenon, <2>1, <2>2, <2>4, <2>5
<1>x. PICK x : x = Segment(c, arrived[c] + 1)
  BY Zenon
<1>2. /\ x \in Segments /\ Key(x) = <<c, arrived[c] + 1, FALSE>> /\ x.conn = c
      /\ x.num = arrived[c] + 1 /\ x.num > arrived[x.conn] /\ x.num = arrived'[x.conn]
      /\ x.copy = FALSE /\ x.route = "rcvd"
  <2>1. arrived[c] + 1 \in 1..MaxSegments
    BY <1>0, <1>1
  <2>2. /\ x \in Segments /\ x.conn = c /\ x.num = arrived[c] + 1
        /\ x.copy = FALSE /\ x.route = "rcvd"
    BY Zenon, <1>x, <2>1 DEF Segment, Segments
  <2>3. arrived[c] \in Int /\ arrived'[c] = arrived[c] + 1
    BY <1>0, <1>1
  <2>4. Key(x) = <<c, arrived[c] + 1, FALSE>>
    BY Zenon, <2>2 DEF Key
  <2>5. x.num > arrived[x.conn] /\ x.num = arrived'[x.conn]
    BY <2>2, <2>3
  <2> QED BY Zenon, <2>2, <2>4, <2>5
<1>3. \A p \in Names : Key(x) \notin Where[p]
  <2>1. x.num \in Int /\ arrived[x.conn] \in Int
    BY <1>0, <1>2 DEF Segments
  <2>2. x \in Segments /\ ~(x.num <= arrived[x.conn])
    BY <1>2, <2>1
  <2> QED BY Zenon, <2>2, PlacedHasArrived
<1>4. arrived' \in [Conns -> 0..MaxSegments]
  BY <1>0, <1>1
<1>5. \A u \in NetThreads \ {n} : hand[u] # NULL => arrived'[hand[u].conn] = arrived[hand[u].conn]
  <2> SUFFICES ASSUME NEW u \in NetThreads \ {n}, hand[u] # NULL
               PROVE  arrived'[hand[u].conn] = arrived[hand[u].conn]
    BY Zenon
  <2>1. hand[u].conn \in Conns /\ hand[u].conn # c
    BY <1>0, <1>1 DEF DeliveryInv, HandsMatch, ThreadsMatch, Segments
  <2> QED BY Zenon, <1>0, <1>1, <2>1
<1>6. CASE lost' = lost \cup {x} /\ UNCHANGED netVars
  <2>1. UNCHANGED <<npc, entry, hand, ahead>>
    BY Zenon, <1>6 DEF netVars
  <2>2. /\ Where'["lost"] = Where["lost"] \cup {Key(x)}
        /\ SetApart(lost') /\ lost' \subseteq Segments
    BY Zenon, <1>2, <1>3, <1>6, LostGrows DEF Names
  <2>3. Adds("lost", <<c, arrived[c] + 1, FALSE>>)
    BY Zenon, <1>1, <1>2, <2>1, <2>2, WhereStays DEF Adds, Names
  <2>4. DeliveryType'
    BY ZenonT(40), <1>1, <1>4, <2>1, <2>2 DEF DeliveryInv, DeliveryType
  <2>5. ThreadsMatch'
    BY <1>1, <1>5, <2>1 DEF DeliveryInv, HandsMatch, ThreadsMatch
  <2>6. HandsMatch'
    BY Zenon, <1>1, <2>5 DEF DeliveryInv, HandsMatch, DrawsMatch, DeliveredToOwn, HeadKept, QueueAttended
  <2>7. StaysApart
    BY Zenon, <1>1, <2>1, <2>2 DEF StaysApart
  <2>8. InOrder'
    BY Zenon, <1>1, <2>1, OrderQuiet DEF DeliveryInv
  <2> QED BY ZenonT(40), <1>1, <2>1, <2>3, <2>4, <2>6, <2>7, <2>8, ArrivalPreserves
<1>7. CASE /\ entry' = [entry EXCEPT ![n] = Lookup(c)] /\ Lookup(c) # NULL
           /\ hand' = [hand EXCEPT ![n] = x]
           /\ ahead' = [ahead EXCEPT ![n] = QueuedFor(c)]
           /\ npc' = [npc EXCEPT ![n] = "breakpoint"]
           /\ UNCHANGED lost
  <2>0. Lookup(c) \in Sockets /\ QueuedFor(c) \subseteq Segments
    <3>1. Lookup(c) \in Sockets
      BY Zenon, <1>7 DEF Lookup, Sockets
    <3>2. QueuedFor(c) \subseteq Segments
      BY <1>0 DEF QueuedFor, Range
    <3> QED BY Zenon, <3>1, <3>2
  <2>1. /\ npc'[n] = "breakpoint" /\ hand'[n] = x /\ entry'[n] = Lookup(c)
        /\ ahead'[n] = QueuedFor(c)
        /\ \A u \in NetThreads \ {n} : /\ npc'[u] = npc[u] /\ hand'[u] = hand[u]
                                       /\ entry'[u] = entry[u] /\ ahead'[u] = ahead[u]
    BY Zenon, <1>0, <1>7
  <2>2. Key(x) \notin HeldKeys(hand)
    BY Zenon, <1>3, WhereIs DEF Names
  <2>a. x \in Segments /\ hand \in [NetThreads -> Segments \cup {NULL}] /\ HeldApart(hand)
    BY Zenon, <1>0, <1>2
  <2>b. hand[n] = NULL
    BY Zenon, <1>1
  <2>3. /\ HeldKeys([hand EXCEPT ![n] = x]) = HeldKeys(hand) \cup {Key(x)}
        /\ HeldApart([hand EXCEPT ![n] = x])
    BY Zenon, <2>a, <2>b, <2>2, HeldTake
  <2>4. Where'["hand"] = Where["hand"] \cup {Key(x)} /\ HeldApart(hand')
    BY Zenon, <1>7, <2>3, WhereIs, WhereIsNext
  <2>5. Adds("hand", <<c, arrived[c] + 1, FALSE>>)
    BY Zenon, <1>1, <1>2, <1>7, <2>4, WhereStays DEF Adds, Names
  <2>6. /\ hand' \in [NetThreads -> Segments \cup {NULL}]
        /\ npc' \in [NetThreads -> {"idle", "breakpoint", "decide", "queue", "deliver",
                                    "drawn", "drawn_deliver"}]
        /\ entry' \in [NetThreads -> Sockets \cup {NULL}]
        /\ ahead' \in [NetThreads -> SUBSET Segments]
    BY Zenon, <1>0, <1>2, <1>7, <2>0
  <2>7. DeliveryType'
    BY ZenonT(40), <1>1, <1>4, <1>7, <2>6 DEF DeliveryInv, DeliveryType
  <2>8. ThreadsMatch'
    <3> SUFFICES ASSUME NEW u \in NetThreads
                 PROVE  /\ npc'[u] # "idle" => entry'[u] \in Sockets
                        /\ npc'[u] \in {"breakpoint", "decide", "queue", "deliver"} <=> hand'[u] # NULL
                        /\ npc'[u] \in {"idle", "breakpoint"} => drawn'[u] = NULL
                        /\ npc'[u] \in {"drawn", "drawn_deliver"} => drawn'[u] # NULL
                        /\ hand'[u] # NULL => /\ hand'[u].conn[1] = u
                                              /\ hand'[u].num = arrived'[hand'[u].conn]
                                              /\ hand'[u].copy = FALSE
                                              /\ hand'[u].route = "rcvd"
                        /\ drawn'[u] # NULL => drawn'[u].route = "withheld"
      BY Zenon DEF ThreadsMatch
    <3>1. CASE u = n
      BY ZenonT(40), <1>0, <1>1, <1>2, <2>0, <2>1, <3>1
    <3>2. CASE u # n
      BY <1>1, <1>5, <2>1, <3>2 DEF DeliveryInv, HandsMatch, ThreadsMatch
    <3> QED BY Zenon, <3>1, <3>2
  <2>9. HandsMatch'
    BY Zenon, <1>1, <2>8 DEF DeliveryInv, HandsMatch, DrawsMatch, DeliveredToOwn, HeadKept, QueueAttended
  <2>10. StaysApart
    BY Zenon, <1>1, <1>7, <2>4 DEF StaysApart
  <2>11. InOrder'
    BY Zenon, <1>1, <1>2, <1>7, OrderReceive
  <2> QED BY ZenonT(40), <1>1, <1>x, <2>1, <2>5, <2>7, <2>9, <2>10, <2>11, ArrivalPreserves
<1> QED BY Zenon, <1>6, <1>7, <1>x DEF Receive

\* The copy of the segment in hand is withheld.
LEMMA DuplicatePreserves ==
    ASSUME DeliveryInv, NEW n \in NetThreads, Duplicate(n)
    PROVE  DeliveryInv'
<1>1. /\ npc[n] = "breakpoint" /\ hand[n] # NULL /\ entry[n] \in Sockets
      /\ withheld' = [withheld EXCEPT ![entry[n]] = Append(@, [hand[n] EXCEPT !.copy = TRUE])]
      /\ npc' = [npc EXCEPT ![n] = "decide"]
      /\ UNCHANGED <<latency, delivery_queue, arrived, delivered, lost, entry, hand, drawn, ahead,
                     dpc, sdraw>>
  BY Zenon DEF DeliveryInv, HandsMatch, ThreadsMatch, Duplicate, ends, deliveryVars
<1>0. /\ npc \in [NetThreads -> {"idle", "breakpoint", "decide", "queue", "deliver",
                                 "drawn", "drawn_deliver"}]
      /\ arrived \in [Conns -> 0..MaxSegments] /\ MaxSegments \in Nat
      /\ hand \in [NetThreads -> Segments \cup {NULL}]
  BY Zenon, DeliveryAssumption DEF DeliveryInv, DeliveryType
<1>h. PICK h \in Segments : h = hand[n]
  BY Zenon, <1>0, <1>1
<1>y. PICK y : y = [h EXCEPT !.copy = TRUE]
  BY Zenon
<1>2. y \in Segments /\ Key(y) = <<h.conn, h.num, TRUE>>
  BY Zenon, <1>y DEF Segments, Key
<1>k. PICK k : k = Key(y)
  BY Zenon
<1>3. ~Placed(k)
  BY Zenon, <1>1, <1>h, <1>2, <1>k DEF DeliveryInv, ArrivedPlaced
<1>4. /\ Where'["withheld"] = Where["withheld"] \cup {k}
      /\ ShelfApart(withheld') /\ withheld' \in [Sockets -> Seq(Segments)]
  <2>1. k \notin Where["withheld"]
    BY Zenon, <1>3 DEF Placed, Names
  <2>2. withheld' = [withheld EXCEPT ![entry[n]] = Append(@, y)]
    BY Zenon, <1>1, <1>h, <1>y
  <2> QED BY Zenon, <1>1, <1>2, <1>k, <2>1, <2>2, WithheldGrows
<1>5. Adds("withheld", k)
  BY Zenon, <1>1, <1>4, WhereStays DEF Adds, Names
<1>6. Apart(Where') /\ \A j : Placed(j)' <=> Placed(j) \/ j = k
  BY Zenon, <1>3, <1>5, NewKeeps DEF DeliveryInv, OneOfEach, Names
<1>7. npc'[n] = "decide" /\ \A u \in NetThreads \ {n} : npc'[u] = npc[u]
  BY Zenon, <1>0, <1>1
<1>8. DeliveryType'
  BY ZenonT(40), <1>0, <1>1, <1>4 DEF DeliveryInv, DeliveryType
<1>9. ThreadsMatch'
  BY <1>1, <1>7 DEF DeliveryInv, HandsMatch, ThreadsMatch
<1>10. HandsMatch'
  BY Zenon, <1>1, <1>9 DEF DeliveryInv, HandsMatch, DrawsMatch, DeliveredToOwn, HeadKept, QueueAttended
<1>11. OneOfEach'
  <2>1. StaysApart
    BY Zenon, <1>1, <1>4 DEF StaysApart
  <2> QED BY Zenon, <1>6, <2>1, ApartNext DEF DeliveryInv, OneOfEach
<1>12. ASSUME NEW d \in Conns, NEW i \in 1..MaxSegments
       PROVE  /\ i <= arrived'[d] => Placed(<<d, i, FALSE>>)'
              /\ \A b \in BOOLEAN : Placed(<<d, i, b>>)' => i <= arrived'[d]
  <2>1. /\ i <= arrived[d] => Placed(<<d, i, FALSE>>)
        /\ \A b \in BOOLEAN : Placed(<<d, i, b>>) => i <= arrived[d]
    BY Zenon DEF DeliveryInv, ArrivedPlaced
  <2>2. i <= arrived[d] => Placed(<<d, i, FALSE>>)'
    BY Zenon, <1>6, <2>1
  <2>3. ASSUME NEW b \in BOOLEAN, Placed(<<d, i, b>>)'
        PROVE  i <= arrived[d]
    <3>1. CASE Placed(<<d, i, b>>)
      BY Zenon, <2>1, <3>1
    <3>2. CASE <<d, i, b>> = k
      <4>1. d = h.conn /\ i = h.num
        BY <1>2, <1>k, <3>2
      <4>2. h.num = arrived[h.conn]
        BY ZenonT(40), <1>1, <1>h DEF DeliveryInv, HandsMatch, ThreadsMatch
      <4>3. arrived[d] \in Int /\ i = arrived[d]
        BY <1>0, <4>1, <4>2
      <4> QED BY <4>3
    <3> QED BY Zenon, <1>6, <2>3, <3>1, <3>2
  <2> QED BY Zenon, <1>1, <2>2, <2>3
<1>13. ASSUME NEW u \in NetThreads, npc'[u] = "breakpoint"
       PROVE  ~Placed(<<hand[u].conn, hand[u].num, TRUE>>)'
  <2>1. u # n /\ npc[u] = "breakpoint" /\ hand'[u] = hand[u]
    BY Zenon, <1>1, <1>7, <1>13
  <2>2. PICK g : g = hand[u]
    BY Zenon
  <2>3. ~Placed(<<g.conn, g.num, TRUE>>)
    BY Zenon, <2>1, <2>2 DEF DeliveryInv, ArrivedPlaced
  <2>4. g.conn[1] = u /\ h.conn[1] = n
    BY ZenonT(40), <1>1, <1>h, <2>1, <2>2 DEF DeliveryInv, HandsMatch, ThreadsMatch
  <2>5. <<g.conn, g.num, TRUE>> # k
    BY <1>2, <1>k, <2>1, <2>4
  <2>6. ~Placed(<<g.conn, g.num, TRUE>>)'
    BY Zenon, <1>6, <2>3, <2>5
  <2> QED BY Zenon, <2>1, <2>2, <2>6 DEF Placed
<1>14. ArrivedPlaced'
  BY Zenon, <1>12, <1>13 DEF ArrivedPlaced
<1>15. AheadGone'
  <2>1. /\ Where'["queue"] = Where["queue"] /\ Where'["delivered"] = Where["delivered"]
        /\ Where'["lost"] = Where["lost"]
    BY Zenon, <1>1, WhereStays
  <2> SUFFICES ASSUME NEW u \in NetThreads, NEW x \in ahead[u]
               PROVE  /\ Key(x) \in Where'["queue"] \cup Where'["delivered"] \cup Where'["lost"]
                      /\ hand'[u] # NULL => x.conn = hand'[u].conn
                      /\ npc'[u] = "deliver" => Key(x) \notin Where'["queue"]
    BY Zenon, <1>1 DEF AheadGone
  <2>2. npc'[u] = "deliver" => npc[u] = "deliver"
    BY Zenon, <1>7
  <2> QED BY Zenon, <1>1, <2>1, <2>2 DEF DeliveryInv, AheadGone
<1>16. InOrder'
  BY Zenon, <1>1, <1>7, OrderQuiet DEF DeliveryInv
<1> QED BY ZenonT(40), <1>8, <1>10, <1>11, <1>14, <1>15, <1>16 DEF DeliveryInv

-----------------------------------------------------------------------------
(* The invariant.                                                          *)

LEMMA InitEstablishes == Init => DeliveryInv
<1> SUFFICES ASSUME Init
             PROVE  DeliveryInv
  BY Zenon
<1>1. DeliveryType
  <2>1. <<>> \in Seq(Segments) /\ 0 \in 0..MaxSegments
    BY DeliveryAssumption
  <2> QED BY Zenon, <2>1 DEF Init, DeliveryType
<1>2. HandsMatch
  BY DEF Init, HandsMatch, ThreadsMatch, DrawsMatch, DeliveredToOwn, HeadKept, QueueAttended
<1>3. /\ HeldKeys(hand) = {} /\ HeldKeys(drawn) = {} /\ HeldKeys(sdraw) = {}
      /\ HeldApart(hand) /\ HeldApart(drawn) /\ HeldApart(sdraw)
  BY Zenon DEF Init, HeldKeys, HeldApart
<1>4. /\ ListKeys(<<>>) = {} /\ ListApart(<<>>)
  BY DEF ListKeys, ListApart
<1>5. /\ ShelfKeys(delivered) = {} /\ ShelfKeys(withheld) = {}
      /\ ShelfApart(delivered) /\ ShelfApart(withheld)
  BY Zenon, <1>4 DEF Init, ShelfKeys, ShelfApart
<1>6. SetApart(lost) /\ {Key(x) : x \in lost} = {} /\ delivery_queue = <<>>
  BY Zenon DEF Init, SetApart
<1>7. \A p \in Names : Where[p] = {}
  BY Zenon, <1>3, <1>4, <1>5, <1>6, WhereIs DEF Names
<1>8. OneOfEach
  BY Zenon, <1>3, <1>4, <1>5, <1>6, <1>7 DEF OneOfEach, Apart
<1>9. ArrivedPlaced
  <2>1. \A k : ~Placed(k)
    BY Zenon, <1>7 DEF Placed
  <2>2. \A c \in Conns : arrived[c] = 0
    BY Zenon DEF Init
  <2>3. \A n \in NetThreads : npc[n] # "breakpoint"
    BY Zenon DEF Init
  <2>4. \A c \in Conns : \A m \in 1..MaxSegments : ~(m <= arrived[c])
    BY <2>2, DeliveryAssumption
  <2> QED BY Zenon, <2>1, <2>3, <2>4 DEF ArrivedPlaced
<1>10. AheadGone
  BY Zenon DEF Init, AheadGone
<1>11. InOrder
  BY DeliveryAssumption DEF Init, InOrder, DeliveredOrder, QueueOrder, DeliveredFirst, HandLast
<1> QED BY Zenon, <1>1, <1>2, <1>8, <1>9, <1>10, <1>11 DEF DeliveryInv

LEMMA StepPreserves == DeliveryInv /\ [Next]_vars => DeliveryInv'
<1> SUFFICES ASSUME DeliveryInv, [Next]_vars
             PROVE  DeliveryInv'
  BY Zenon
<1>1. CASE UNCHANGED vars
  BY Zenon, <1>1, SocketsGoOn
<1>2. ASSUME NEW n \in NetThreads, RecvSegment(n)
      PROVE  DeliveryInv'
  BY ZenonT(40), <1>2, DropPreserves, WithholdPreserves, DuplicatePreserves, DrawWithReceivedPreserves,
     ThreadGoesOn, QueueReceivedPreserves, DeliverReceivedPreserves, DrawnPreserves,
     DrawnDeliverPreserves DEF RecvSegment
<1>3. ASSUME NEW n \in NetThreads, NEW c \in Conns, Receive(n, c)
      PROVE  DeliveryInv'
  BY Zenon, <1>3, ReceivePreserves
<1>4. ASSUME NEW c \in Conns, DrawOnStateChange(c) \/ QueueDrawn(c)
      PROVE  DeliveryInv'
  BY Zenon, <1>4, DrawOnStateChangePreserves, QueueDrawnPreserves
<1>5. CASE DeliveryThread
  BY Zenon, <1>5, DeliveryGoesOn, DeliveryLookupPreserves, DeliveryDeliverPreserves DEF DeliveryThread
<1>6. ASSUME NEW s \in Sockets, Open(s) \/ FreeBegin(s) \/ FreeEnd(s)
      PROVE  DeliveryInv'
  BY Zenon, <1>6, SocketsGoOn, FreeEndPreserves
<1>7. CASE Stop
  BY Zenon, <1>7, SocketsGoOn
<1> QED BY Zenon, <1>1, <1>2, <1>3, <1>4, <1>5, <1>6, <1>7 DEF Next

\* Every key is in one place, the threads have the segments their steps say, and
\* the segments of a connection are in order along their path: chitcpd_recv_tcp_segment,
\* chitcpd_draw_withheld_segment and the delivery thread keep all of it in any
\* interleaving, for any number of peers, ports and segments.
THEOREM DeliveryInvariant == Spec => []DeliveryInv
BY InitEstablishes, StepPreserves, PTL DEF Spec

\* chitcpd_segment_delivery_thread_func never sleeps without a time limit beside
\* a queue that holds segments.
THEOREM QueueNotForgotten == Spec => []QueueAttended
<1>1. DeliveryInv => QueueAttended
  BY Zenon DEF DeliveryInv, HandsMatch, HeadKept
<1> QED BY <1>1, DeliveryInvariant, PTL

\* The segments of a connection that no debug response held back are delivered
\* in order, although chitcpd_recv_tcp_segment looks at the queue and delivers
\* in two critical sections; and a thread about to deliver overtakes nothing
\* that was queued for its connection when the segment arrived.
THEOREM DeliveryInOrder == Spec => []OrderKept
<1>1. DeliveryInv => OrderKept
  <2> SUFFICES ASSUME DeliveryInv
               PROVE  OrderKept
    BY Zenon
  <2>1. ASSUME NEW n \in NetThreads, npc[n] = "deliver", NEW x \in ahead[n],
               x \in Range(delivery_queue)
        PROVE  FALSE
    <3>1. Key(x) \notin Where["queue"]
      BY Zenon, <2>1 DEF DeliveryInv, AheadGone
    <3>2. Key(x) \in ListKeys(delivery_queue)
      BY Zenon, <2>1 DEF ListKeys, Range
    <3> QED BY Zenon, <3>1, <3>2, WhereIs
  <2>2. DeliveredOrder
    BY Zenon DEF DeliveryInv, InOrder
  <2> QED BY Zenon, <2>1, <2>2 DEF OrderKept, DeliveredOrder, Received
<1> QED BY <1>1, DeliveryInvariant, PTL

-----------------------------------------------------------------------------
(* From disjoint sets of keys to the numbers of OnePlaceEach.              *)

\* A set without two different elements has at most one.
LEMMA CountOne ==
    ASSUME NEW S, \A i, j \in S : i = j
    PROVE  Cardinality(S) = IF S = {} THEN 0 ELSE 1
<1> DEFINE Rest(T) == T \ {CHOOSE x : x \in T}
           Counts(g) == g = [T \in SUBSET S |-> IF T = {} THEN 0 ELSE 1 + g[Rest(T)]]
           f == [T \in SUBSET S |-> IF T = {} THEN 0 ELSE 1]
<1>1. Cardinality(S) = (CHOOSE g : Counts(g))[S]
  BY Zenon DEF Cardinality
<1>2. \A T \in SUBSET S : Rest(T) = {}
  <2> SUFFICES ASSUME NEW T \in SUBSET S, NEW y \in T, y # CHOOSE x : x \in T
               PROVE  FALSE
    BY Zenon
  <2>1. (CHOOSE x : x \in T) \in T
    BY Zenon
  <2> QED BY Zenon, <2>1
<1> HIDE DEF Rest
<1>3. Counts(f)
  <2>1. \A T \in SUBSET S : f[T] = IF T = {} THEN 0 ELSE 1 + f[Rest(T)]
    BY <1>2
  <2> QED BY Zenon, <2>1
<1>4. Counts(CHOOSE g : Counts(g))
  BY <1>3, Zenon
<1> DEFINE h == CHOOSE g : Counts(g)
<1>5. Cardinality(S) = h[S]
  BY Zenon, <1>1
<1>6. Counts(h)
  BY Zenon, <1>4
<1> HIDE DEF h
<1>7. h[{}] = 0 /\ h[S] = IF S = {} THEN 0 ELSE 1 + h[{}]
  BY Zenon, <1>2, <1>6
<1> QED BY <1>5, <1>7

\* Is the key in places p?
Here(k, p) == IF k \in Where[p] THEN 1 ELSE 0

LEMMA PlacesAdd ==
    ASSUME DeliveryInv, NEW seg \in Segments
    PROVE  Places(seg) = Here(Key(seg), "queue") + Here(Key(seg), "delivered")
                         + Here(Key(seg), "hand") + Here(Key(seg), "drawn")
                         + Here(Key(seg), "sdraw") + Here(Key(seg), "withheld")
                         + Here(Key(seg), "lost")
<1> DEFINE same(x) == x # NULL /\ x.conn = seg.conn /\ x.num = seg.num /\ x.copy = seg.copy
           in(s) == {i \in DOMAIN s : same(s[i])}
           held(f) == {x \in DOMAIN f : same(f[x])}
           shelf == {s \in Sockets : Cardinality(in(withheld[s])) > 0}
           gone == {x \in lost : same(x)}
           k == Key(seg)
<1>0. /\ NULL \notin Segments /\ seg.conn \in Conns
      /\ delivery_queue \in Seq(Segments) /\ delivered \in [Conns -> Seq(Segments)]
      /\ withheld \in [Sockets -> Seq(Segments)] /\ lost \subseteq Segments
      /\ OneOfEach /\ DeliveredToOwn
  BY Zenon, DeliveryAssumption DEF DeliveryInv, DeliveryType, HandsMatch, Segments
<1>1. \A x : same(x) <=> x # NULL /\ Key(x) = k
  BY Zenon DEF Key
<1>a. Places(seg) = Cardinality(in(delivery_queue)) + Cardinality(in(delivered[seg.conn]))
                    + Cardinality(held(hand)) + Cardinality(held(drawn)) + Cardinality(held(sdraw))
                    + Cardinality(shelf) + Cardinality(gone)
  BY Zenon DEF Places
<1> HIDE DEF same, k
<1>2. ASSUME NEW s \in Seq(Segments), ListApart(s)
      PROVE  Cardinality(in(s)) = IF k \in ListKeys(s) THEN 1 ELSE 0
  <2>1. \A i \in DOMAIN s : i \in in(s) <=> Key(s[i]) = k
    <3>1. \A i \in DOMAIN s : s[i] # NULL
      BY <1>0
    <3> QED BY Zenon, <1>1, <3>1
  <2>2. \A i, j \in in(s) : i = j
    BY Zenon, <1>2, <2>1 DEF ListApart
  <2>3. in(s) = {} <=> k \notin ListKeys(s)
    BY Zenon, <2>1 DEF ListKeys
  <2>4. PICK S : S = in(s)
    BY Zenon
  <2>5. Cardinality(S) = IF S = {} THEN 0 ELSE 1
    BY Zenon, <2>2, <2>4, CountOne
  <2> QED BY Zenon, <2>3, <2>4, <2>5
<1>3. ASSUME NEW f, HeldApart(f)
      PROVE  Cardinality(held(f)) = IF k \in HeldKeys(f) THEN 1 ELSE 0
  <2>1. \A d \in DOMAIN f : d \in held(f) <=> f[d] # NULL /\ Key(f[d]) = k
    BY Zenon, <1>1
  <2>2. \A d, e \in held(f) : d = e
    BY Zenon, <1>3, <2>1 DEF HeldApart
  <2>3. held(f) = {} <=> k \notin HeldKeys(f)
    BY Zenon, <2>1 DEF HeldKeys
  <2>4. PICK S : S = held(f)
    BY Zenon
  <2>5. Cardinality(S) = IF S = {} THEN 0 ELSE 1
    BY Zenon, <2>2, <2>4, CountOne
  <2> QED BY Zenon, <2>3, <2>4, <2>5
<1>4. Cardinality(in(delivery_queue)) = Here(k, "queue")
  BY Zenon, <1>0, <1>2, WhereIs DEF OneOfEach, Here
<1>5. /\ Cardinality(held(hand)) = Here(k, "hand")
      /\ Cardinality(held(drawn)) = Here(k, "drawn")
      /\ Cardinality(held(sdraw)) = Here(k, "sdraw")
  BY Zenon, <1>0, <1>3, WhereIs DEF OneOfEach, Here
<1>6. Cardinality(in(delivered[seg.conn])) = Here(k, "delivered")
  <2>1. PICK l \in Seq(Segments) : l = delivered[seg.conn]
    BY Zenon, <1>0
  <2>2. ListApart(l)
    BY Zenon, <1>0, <2>1 DEF OneOfEach, ShelfApart
  <2>3. \A c \in Conns : k \in ListKeys(delivered[c]) => c = seg.conn
    <3> SUFFICES ASSUME NEW c \in Conns, NEW i \in DOMAIN delivered[c], k = Key(delivered[c][i])
                 PROVE  c = seg.conn
      BY Zenon DEF ListKeys
    <3>1. delivered[c][i].conn = c
      BY Zenon, <1>0 DEF DeliveredToOwn
    <3> QED BY Zenon, <3>1 DEF Key, k
  <2>4. k \in ShelfKeys(delivered) <=> k \in ListKeys(l)
    BY Zenon, <1>0, <2>1, <2>3 DEF ShelfKeys
  <2>5. Cardinality(in(l)) = IF k \in ListKeys(l) THEN 1 ELSE 0
    BY Zenon, <1>2, <2>2
  <2> QED BY Zenon, <2>1, <2>4, <2>5, WhereIs DEF Here
<1>7. Cardinality(shelf) = Here(k, "withheld")
  <2>1. ASSUME NEW s \in Sockets
        PROVE  s \in shelf <=> k \in ListKeys(withheld[s])
    <3>1. PICK l \in Seq(Segments) : l = withheld[s]
      BY Zenon, <1>0
    <3>2. ListApart(l)
      BY Zenon, <1>0, <3>1 DEF OneOfEach, ShelfApart
    <3>3. Cardinality(in(l)) = IF k \in ListKeys(l) THEN 1 ELSE 0
      BY Zenon, <1>2, <3>2
    <3>4. Cardinality(in(l)) > 0 <=> k \in ListKeys(l)
      BY <3>3
    <3> QED BY Zenon, <3>1, <3>4
  <2>2. \A s, t \in shelf : s = t
    <3> SUFFICES ASSUME NEW s \in shelf, NEW t \in shelf
                 PROVE  s = t
      BY Zenon
    <3>1. s \in Sockets /\ t \in Sockets
      BY Zenon
    <3>2. k \in ListKeys(withheld[s]) /\ k \in ListKeys(withheld[t])
      BY Zenon, <2>1, <3>1
    <3>3. ListKeys(withheld[s]) \cap ListKeys(withheld[t]) # {}
      BY Zenon, <3>2
    <3> QED BY Zenon, <1>0, <3>1, <3>3 DEF OneOfEach, ShelfApart
  <2>3. shelf = {} <=> k \notin ShelfKeys(withheld)
    <3>1. k \in ShelfKeys(withheld) <=> \E s \in Sockets : k \in ListKeys(withheld[s])
      BY Zenon, <1>0 DEF ShelfKeys
    <3>2. \A s \in shelf : s \in Sockets
      BY Zenon
    <3> QED BY Zenon, <2>1, <3>1, <3>2
  <2>4. PICK S : S = shelf
    BY Zenon
  <2>5. Cardinality(S) = IF S = {} THEN 0 ELSE 1
    BY Zenon, <2>2, <2>4, CountOne
  <2> QED BY Zenon, <2>3, <2>4, <2>5, WhereIs DEF Here
<1>8. Cardinality(gone) = Here(k, "lost")
  <2>1. \A x \in lost : x \in gone <=> Key(x) = k
    BY Zenon, <1>0, <1>1
  <2>2. \A x, y \in gone : x = y
    BY Zenon, <1>0, <2>1 DEF OneOfEach, SetApart
  <2>3. gone = {} <=> k \notin {Key(x) : x \in lost}
    BY Zenon, <2>1
  <2>4. PICK S : S = gone
    BY Zenon
  <2>5. Cardinality(S) = IF S = {} THEN 0 ELSE 1
    BY Zenon, <2>2, <2>4, CountOne
  <2> QED BY Zenon, <2>3, <2>4, <2>5, WhereIs DEF Here
<1> HIDE DEF in, held, shelf, gone
<1> QED BY ZenonT(40), <1>a, <1>4, <1>5, <1>6, <1>7, <1>8 DEF k

\* A key is in one place or in none.
LEMMA PlacesOne ==
    ASSUME DeliveryInv, NEW seg \in Segments
    PROVE  Places(seg) = IF Placed(Key(seg)) THEN 1 ELSE 0
<1>k. PICK k : k = Key(seg)
  BY Zenon
<1>1. Places(seg) = Here(k, "queue") + Here(k, "delivered") + Here(k, "hand") + Here(k, "drawn")
                    + Here(k, "sdraw") + Here(k, "withheld") + Here(k, "lost")
  BY Zenon, <1>k, PlacesAdd
<1>2. CASE ~Placed(k)
  <2>1. \A p \in Names : Here(k, p) = 0
    BY Zenon, <1>2 DEF Placed, Here
  <2> QED BY <1>1, <1>2, <1>k, <2>1 DEF Names
<1>3. CASE Placed(k)
  <2>1. PICK p \in Names : k \in Where[p]
    BY Zenon, <1>3 DEF Placed
  <2>2. Here(k, p) = 1 /\ \A q \in Names \ {p} : Here(k, q) = 0
    BY Zenon, <2>1, Elsewhere DEF Here
  <2>3. Places(seg) = 1
    BY <1>1, <2>2 DEF Names
  <2> QED BY Zenon, <1>3, <1>k, <2>3
<1> QED BY Zenon, <1>2, <1>3, <1>k

\* A segment that has arrived is in exactly one place, and a copy in one at most,
\* in every interleaving of chitcpd_recv_tcp_segment, the draws, the delivery
\* thread and chitcpd_free_socket_entry: none is lost or doubled.
THEOREM SegmentsInOnePlace == Spec => []OnePlaceEach
<1>1. DeliveryInv => OnePlaceEach
  <2> SUFFICES ASSUME DeliveryInv, NEW c \in Conns, NEW m \in 1..MaxSegments
               PROVE  /\ Places(Segment(c, m)) = IF m <= arrived[c] THEN 1 ELSE 0
                      /\ Places([Segment(c, m) EXCEPT !.copy = TRUE]) <= 1
    BY Zenon DEF OnePlaceEach
  <2>1. PICK x : x = Segment(c, m)
    BY Zenon
  <2>2. PICK y : y = [Segment(c, m) EXCEPT !.copy = TRUE]
    BY Zenon
  <2>3. x \in Segments /\ y \in Segments /\ Key(x) = <<c, m, FALSE>>
    BY Zenon, <2>1, <2>2 DEF Segment, Segments, Key
  <2>4. Placed(<<c, m, FALSE>>) <=> m <= arrived[c]
    BY Zenon DEF DeliveryInv, ArrivedPlaced
  <2>5. Places(x) = IF m <= arrived[c] THEN 1 ELSE 0
    BY Zenon, <2>3, <2>4, PlacesOne
  <2>6. Places(y) <= 1
    BY <2>3, PlacesOne
  <2> QED BY Zenon, <2>1, <2>2, <2>5, <2>6
<1> QED BY <1>1, DeliveryInvariant, PTL
=============================================================================
