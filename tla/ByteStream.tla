----------------------------- MODULE ByteStream -----------------------------
(***************************************************************************)
(* What a circular buffer promises (include/chitcp/buffer.h): a bounded    *)
(* stream of bytes.  Bytes are appended at the end, taken from the front   *)
(* in the order in which they were written, and none is overwritten,       *)
(* dropped or invented.  Bytes in the stream can be looked at without      *)
(* taking them.  A closed stream takes no more bytes but can be drained.   *)
(***************************************************************************)
EXTENDS Naturals, Sequences

CONSTANTS Bytes, Capacity, Writers, MaxOffer

VARIABLES
    offered,   \* the bytes each writer has yet to get into the stream
    stream,    \* the bytes in the stream, oldest first
    shown,     \* the bytes the last read or peek returned
    closed

streamVars == <<offered, stream, shown, closed>>

StreamInit ==
    /\ offered = [w \in Writers |-> <<>>]
    /\ stream = <<>> /\ shown = <<>> /\ closed = FALSE

Offer(w, d) ==
    /\ offered[w] = <<>>
    /\ offered' = [offered EXCEPT ![w] = d]
    /\ UNCHANGED <<stream, shown, closed>>

\* Of an offer that exceeds the capacity, only so many bytes are ever taken.
Put(w, k) ==
    LET d == SubSeq(offered[w], 1, IF Len(offered[w]) > Capacity THEN Capacity ELSE Len(offered[w]))
    IN /\ ~closed
       /\ k <= Len(d)
       /\ Len(stream) + k <= Capacity
       /\ stream' = stream \o SubSeq(d, 1, k)
       /\ offered' = [offered EXCEPT ![w] = SubSeq(d, k + 1, Len(d))]
       /\ UNCHANGED <<shown, closed>>

\* A call returns without having written everything.
Withdraw(w) ==
    /\ closed \/ Len(stream) + Len(offered[w]) > Capacity
    /\ offered' = [offered EXCEPT ![w] = <<>>]
    /\ UNCHANGED <<stream, shown, closed>>

Take(n) ==
    /\ shown' = SubSeq(stream, 1, n)
    /\ stream' = SubSeq(stream, n + 1, Len(stream))
    /\ UNCHANGED <<offered, closed>>

Look(from, n) ==
    /\ shown' = SubSeq(stream, from, from + n - 1)
    /\ UNCHANGED <<offered, stream, closed>>

Close == closed' = TRUE /\ UNCHANGED <<offered, stream, shown>>

StreamNext ==
    \/ \E w \in Writers :
          \/ \E n \in 1..MaxOffer : \E d \in [1..n -> Bytes] : Offer(w, d)
          \/ \E k \in 0..Capacity : Put(w, k)
          \/ Withdraw(w)
    \/ \E n \in 1..Len(stream) : Take(n)
    \/ \E from \in 1..Len(stream) : \E n \in 1..(Len(stream) - from + 1) : Look(from, n)
    \/ Close

StreamSpec == StreamInit /\ [][StreamNext]_streamVars
=============================================================================
