--------------------------- MODULE CircularBuffer ---------------------------
(***************************************************************************)
(* The circular buffer between the handlers and the TCP thread             *)
(* (src/libchitcp/buffer.c).                                               *)
(*                                                                         *)
(* A call holds buf->lock from its start, or from the end of a             *)
(* pthread_cond_wait, to its return or to the next pthread_cond_wait: each *)
(* such stretch is one action.  The call of a write, which says what bytes *)
(* are to be written, is an action of its own.  Sequence numbers are       *)
(* uint32_t in the code; here they live modulo SeqMod, so that the         *)
(* wraparound is within reach.                                             *)
(***************************************************************************)
EXTENDS Integers, Sequences, FiniteSets

CONSTANTS
    Writers, Readers,   \* threads that write to, and read from, the buffer
    Bytes,
    maxsize,
    MaxLen,             \* longest write or read a client asks for
    SeqMod,             \* 2^32 in the code
    InitialSeqs         \* arguments of circular_buffer_set_seq_initial

ASSUME BufferAssumption ==
    /\ maxsize \in Nat \ {0}
    /\ MaxLen \in Nat \ {0}
    /\ SeqMod \in Nat /\ SeqMod > maxsize
    /\ InitialSeqs \subseteq 0..(SeqMod - 1)

VARIABLES
    data,                             \* the array, indexed from 0
    start, end, count, closed,
    seq_start, seq_end,
    cv_notempty, cv_notfull,          \* threads asleep on the condition variables
    pc,
    todo,                             \* bytes a write that is under way has yet to write
    arg,                              \* arguments of a read that is under way
    dst                               \* the bytes the last read or peek returned

indexVars == <<start, end, count>>
seqVars == <<seq_start, seq_end>>
cvVars == <<cv_notempty, cv_notfull>>
vars == <<data, indexVars, closed, seqVars, cvVars, pc, todo, arg, dst>>

Threads == Writers \cup Readers
Cells == 0..(maxsize - 1)
Seqs == 0..(SeqMod - 1)
Strings(n) == UNION {[1..k -> Bytes] : k \in 0..n}
Args == [len : 0..MaxLen, offset : Seqs, peeking : BOOLEAN]
NoArg == [len |-> 0, offset |-> 0, peeking |-> FALSE]
Lesser(a, b) == IF a < b THEN a ELSE b

TypeOK ==
    /\ data \in [Cells -> Bytes]
    /\ start \in 0..maxsize /\ end \in 0..maxsize /\ count \in 0..maxsize
    /\ closed \in BOOLEAN
    /\ seq_start \in Seqs /\ seq_end \in Seqs
    /\ cv_notempty \subseteq Readers /\ cv_notfull \subseteq Writers
    /\ pc \in [Threads -> {"idle", "write", "try_write", "read", "peek_at"}]
    /\ todo \in [Writers -> Seq(Bytes)]
    /\ arg \in [Readers -> Args]
    /\ dst \in Seq(Bytes)

\* circular_buffer_init: malloc leaves the array with arbitrary bytes.
Init ==
    /\ data \in [Cells -> Bytes]
    /\ start = 0 /\ end = 0 /\ count = 0
    /\ closed = FALSE
    /\ seq_start = 0 /\ seq_end = 0
    /\ cv_notempty = {} /\ cv_notfull = {}
    /\ pc = [t \in Threads |-> "idle"]
    /\ todo = [w \in Writers |-> <<>>]
    /\ arg = [r \in Readers |-> NoArg]
    /\ dst = <<>>

\* pthread_cond_signal wakes one of the threads asleep, if there is one.
Signal(cv, cvNext) == IF cv = {} THEN cvNext = {} ELSE \E t \in cv : cvNext = cv \ {t}

\* Mutation of SetSeqInitial: bytes already written are not counted.
SetSeqIgnoresContents(x) ==
    /\ start = 0
    /\ seq_start' = x
    /\ seq_end' = x
    /\ UNCHANGED <<data, indexVars, closed, cvVars, pc, todo, arg, dst>>

\* circular_buffer_set_seq_initial, which the TCP thread calls when it picks or
\* learns the initial sequence number, before anything has been read.
SetSeqInitial(x) ==
    /\ start = 0
    /\ seq_start' = x
    /\ seq_end' = (x + end) % SeqMod
    /\ UNCHANGED <<data, indexVars, closed, cvVars, pc, todo, arg, dst>>

-----------------------------------------------------------------------------
(* circular_buffer_write                                                   *)

\* Mutation of CopyIn: the second memcpy starts again at the first byte.
CopyInRepeats(d, k) ==
    /\ data' = [i \in Cells |->
                  IF end <= i /\ i < end + k THEN d[i - end + 1]
                  ELSE IF i < end + k - maxsize THEN d[i + 1]
                  ELSE data[i]]
    /\ end' = IF end + k > maxsize THEN end + k - maxsize ELSE end + k
    /\ count' = count + k
    /\ seq_end' = (seq_end + k) % SeqMod

\* memcpy of k bytes of d to the array from end on, in two parts if they do
\* not fit before the end of the array.
CopyIn(d, k) ==
    /\ data' = [i \in Cells |->
                  IF end <= i /\ i < end + k THEN d[i - end + 1]
                  ELSE IF i < end + k - maxsize THEN d[i + maxsize - end + 1]
                  ELSE data[i]]
    /\ end' = IF end + k > maxsize THEN end + k - maxsize ELSE end + k
    /\ count' = count + k
    /\ seq_end' = (seq_end + k) % SeqMod

\* Mutation of WriteLoop: cv_notempty is not signalled.
WriteSilently(w, d) ==
    IF closed
    THEN /\ pc' = [pc EXCEPT ![w] = "idle"]
         /\ todo' = [todo EXCEPT ![w] = <<>>]
         /\ UNCHANGED <<data, end, count, seq_end, cvVars>>
    ELSE LET k == Lesser(Len(d), maxsize - count) IN
         /\ CopyIn(d, k)
         /\ todo' = [todo EXCEPT ![w] = SubSeq(d, k + 1, Len(d))]
         /\ pc' = [pc EXCEPT ![w] = IF k = Len(d) THEN "idle" ELSE "write"]
         /\ cv_notfull' = IF k = Len(d) THEN cv_notfull ELSE cv_notfull \cup {w}
         /\ UNCHANGED cv_notempty

\* The loop of circular_buffer_write, until it sleeps or returns.  A write
\* that fills the buffer and has to sleep does not signal cv_notempty.
WriteLoop(w, d) ==
    IF closed
    THEN /\ pc' = [pc EXCEPT ![w] = "idle"]
         /\ todo' = [todo EXCEPT ![w] = <<>>]
         /\ UNCHANGED <<data, end, count, seq_end, cvVars>>
    ELSE LET k == Lesser(Len(d), maxsize - count) IN
         /\ CopyIn(d, k)
         /\ todo' = [todo EXCEPT ![w] = SubSeq(d, k + 1, Len(d))]
         /\ IF k = Len(d)
            THEN /\ pc' = [pc EXCEPT ![w] = "idle"]
                 /\ Signal(cv_notempty, cv_notempty')
                 /\ UNCHANGED cv_notfull
            ELSE /\ pc' = [pc EXCEPT ![w] = "write"]
                 /\ cv_notfull' = cv_notfull \cup {w}
                 /\ UNCHANGED cv_notempty

\* A client calls circular_buffer_write; the rest happens with the lock.
Write(w, d, blocking) ==
    /\ pc[w] = "idle"
    /\ pc' = [pc EXCEPT ![w] = IF blocking THEN "write" ELSE "try_write"]
    /\ todo' = [todo EXCEPT ![w] = d]
    /\ UNCHANGED <<data, indexVars, closed, seqVars, cvVars, arg, dst>>

\* A non-blocking write that does not fit writes nothing.
TryWrite(w) ==
    /\ pc[w] = "try_write"
    /\ IF count + Len(todo[w]) > maxsize
       THEN /\ pc' = [pc EXCEPT ![w] = "idle"]
            /\ todo' = [todo EXCEPT ![w] = <<>>]
            /\ UNCHANGED <<data, end, count, seq_end, cvVars>>
       ELSE WriteLoop(w, todo[w])
    /\ UNCHANGED <<start, closed, seq_start, arg, dst>>

\* A blocking write begins, or goes on after a sleep.  A call with more bytes
\* than the buffer can hold writes the first maxsize.
WriteWake(w) ==
    /\ pc[w] = "write"
    /\ w \notin cv_notfull
    /\ WriteLoop(w, SubSeq(todo[w], 1, Lesser(Len(todo[w]), maxsize)))
    /\ UNCHANGED <<start, closed, seq_start, arg, dst>>

-----------------------------------------------------------------------------
(* circular_buffer_read, circular_buffer_peek, circular_buffer_peek_at     *)

\* k bytes of the array from position s on, in two parts if necessary.
CopyOut(s, k) ==
    [i \in 1..k |-> IF s + i - 1 < maxsize THEN data[s + i - 1] ELSE data[s + i - 1 - maxsize]]

\* The reader returns: its arguments are gone.
ReadReturns(r) ==
    /\ pc' = [pc EXCEPT ![r] = "idle"]
    /\ arg' = [arg EXCEPT ![r] = NoArg]
    /\ UNCHANGED cv_notempty

ReadSleeps(r, x) ==
    /\ pc' = [pc EXCEPT ![r] = "read"]
    /\ arg' = [arg EXCEPT ![r] = x]
    /\ cv_notempty' = cv_notempty \cup {r}

\* What a read leaves behind: the bytes it returns are gone, unless it peeks.
Consume(s, toread, peek) ==
    IF peek
    THEN UNCHANGED <<start, count, seq_start>>
    ELSE /\ start' = IF s + toread > maxsize THEN s + toread - maxsize ELSE s + toread
         /\ count' = count - toread
         /\ seq_start' = (seq_start + toread) % SeqMod

\* __circular_buffer_read once the lock is held, until it sleeps or returns.
\* count - offset is computed in uint32_t.
ReadLoop(r, x) ==
    /\ IF count = 0
       THEN /\ IF closed THEN ReadReturns(r) ELSE ReadSleeps(r, x)
            /\ UNCHANGED <<start, count, seq_start, cv_notfull, dst>>
       ELSE LET s == (start + x.offset) % maxsize
                toread == Lesser(x.len, (count - x.offset) % SeqMod)
            IN /\ dst' = CopyOut(s, toread)
               /\ Consume(s, toread, x.peeking)
               /\ Signal(cv_notfull, cv_notfull')
               /\ ReadReturns(r)
    /\ UNCHANGED <<data, end, closed, seq_end, todo>>

\* circular_buffer_read and circular_buffer_peek
Read(r, len, blocking, peek) ==
    /\ pc[r] = "idle"
    /\ count > 0 \/ blocking
    /\ ReadLoop(r, [len |-> len, offset |-> 0, peeking |-> peek])

ReadWake(r) ==
    /\ pc[r] = "read"
    /\ r \notin cv_notempty
    /\ ReadLoop(r, arg[r])

\* The test circular_buffer_peek_at makes, without the lock.
PeekAtValid(at) == at >= seq_start /\ at < seq_end

PeekAt(r, at, len) ==
    /\ pc[r] = "idle"
    /\ PeekAtValid(at)
    /\ pc' = [pc EXCEPT ![r] = "peek_at"]
    /\ arg' = [arg EXCEPT ![r] = [len |-> len, offset |-> at - seq_start, peeking |-> TRUE]]
    /\ UNCHANGED <<data, indexVars, closed, seqVars, cvVars, todo, dst>>

\* It then reads, with the lock, what is at the offset it computed (a
\* non-blocking read, so it returns at once if the buffer is empty by now).
PeekAtRead(r) ==
    /\ pc[r] = "peek_at"
    /\ IF count = 0
       THEN ReadReturns(r)
            /\ UNCHANGED <<data, indexVars, closed, seqVars, cv_notfull, todo, dst>>
       ELSE ReadLoop(r, arg[r])

-----------------------------------------------------------------------------

\* circular_buffer_close
Close ==
    /\ closed' = TRUE
    /\ cv_notempty' = {}
    /\ cv_notfull' = {}
    /\ UNCHANGED <<data, indexVars, seqVars, pc, todo, arg, dst>>

Calls ==
    \/ \E x \in InitialSeqs : SetSeqInitial(x)
    \/ \E w \in Writers : \E d \in Strings(MaxLen) \ {<<>>} : \E blocking \in BOOLEAN :
          Write(w, d, blocking)
    \/ \E r \in Readers : \E len \in 1..MaxLen :
          \/ \E blocking, peek \in BOOLEAN : Read(r, len, blocking, peek)
          \/ \E at \in Seqs : PeekAt(r, at, len)
    \/ Close

Wake(t) ==
    \/ t \in Writers /\ (WriteWake(t) \/ TryWrite(t))
    \/ t \in Readers /\ (ReadWake(t) \/ PeekAtRead(t))

Next == Calls \/ \E t \in Threads : Wake(t)

Spec == Init /\ [][Next]_vars

\* A thread that is awake inside a call gets the lock and runs on; whether a
\* client makes another call is up to the client.
LiveSpec == Spec /\ \A t \in Threads : WF_vars(Wake(t))

-----------------------------------------------------------------------------
(* Properties                                                              *)

\* The bytes in the buffer, oldest first.
Contents == [i \in 1..count |-> data[(start + i - 1) % maxsize]]

Stream == INSTANCE ByteStream
              WITH Capacity <- maxsize, MaxOffer <- MaxLen, stream <- Contents,
                   offered <- todo, shown <- dst

\* Through every wraparound of the array, partial write, peek and blocked
\* call, the buffer behaves as a bounded stream of bytes: what is read or
\* peeked is what the writers offered, in order, and nothing is overwritten.
ImplementsStream == Stream!StreamSpec

\* The sequence numbers that circular_buffer_first and _next return span exactly the
\* bytes in the buffer, also when they have wrapped around; and circular_buffer_peek_at,
\* which compares them with < and >=, finds every byte by its number except while
\* seq_end has wrapped around and seq_start has not.
SeqSpansContents ==
    /\ (seq_end - seq_start) % SeqMod = count
    /\ \A at \in Seqs :
          PeekAtValid(at) <=> (at - seq_start) % SeqMod < count /\ seq_start <= seq_end

\* With one reader and one writer no call waits for ever: a blocked read is not left
\* beside data, nor a blocked write beside free space, although a finished write or read
\* signals only once, and even a peek signals; circular_buffer_close ends every call.
CallsEnd ==
    /\ \A r \in Readers : pc[r] = "read" /\ count > 0 ~> pc[r] = "idle" \/ count = 0
    /\ \A w \in Writers : pc[w] = "write" /\ count < maxsize ~> pc[w] = "idle" \/ count = maxsize
    /\ \A t \in Threads : closed /\ pc[t] # "idle" ~> pc[t] = "idle"
=============================================================================
