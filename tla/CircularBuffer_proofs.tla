------------------------ MODULE CircularBuffer_proofs -----------------------
(***************************************************************************)
(* Proofs about the circular buffer, for any capacity, any modulus of the  *)
(* sequence numbers that exceeds it, any bytes and any number of writers:  *)
(* the sequence numbers span the bytes in the buffer, and, when one thread *)
(* reads, the buffer implements a bounded stream of bytes.                 *)
(*                                                                         *)
(* start and end stay within 0..maxsize, so that a position of the array   *)
(* or a sequence number has wrapped around once or not at all.  This turns *)
(* every remainder into one of two linear cases (FirstLap, SecondLap).     *)
(***************************************************************************)
EXTENDS CircularBuffer, SequenceTheorems, TLAPS

\* The types of all variables but dst: a peek_at whose offset another reader
\* has made stale can return anything.
BufferType ==
    /\ data \in [Cells -> Bytes]
    /\ start \in 0..maxsize /\ end \in 0..maxsize /\ count \in 0..maxsize
    /\ closed \in BOOLEAN
    /\ seq_start \in Seqs /\ seq_end \in Seqs
    /\ pc \in [Threads -> {"idle", "write", "try_write", "read", "peek_at"}]
    /\ todo \in [Writers -> Seq(Bytes)]
    /\ arg \in [Readers -> Args]

\* end is count cells after start, and seq_end count bytes after seq_start.
SpanMatches ==
    /\ end = start + count \/ end = start + count - maxsize
    /\ end = 0 => count = 0
    /\ seq_end = seq_start + count \/ seq_end = seq_start + count - SeqMod

\* A read that is under way asks for at least one byte, and only
\* circular_buffer_peek_at reads from an offset; a thread that is not writing
\* has nothing left to write.
CallsMatch ==
    /\ \A r \in Readers : /\ pc[r] = "read" => arg[r].offset = 0
                          /\ pc[r] = "peek_at" => arg[r].peeking
                          /\ pc[r] \in {"read", "peek_at"} => arg[r].len >= 1
    /\ \A w \in Writers : pc[w] \notin {"write", "try_write"} => todo[w] = <<>>

BufferInv == BufferType /\ SpanMatches /\ CallsMatch

\* The offset of a peek_at that is under way is within the buffer.
PeekInside == \A r \in Readers : pc[r] = "peek_at" => arg[r].offset < count

\* All reads and peeks are by one thread.
OneReader == \A q, r \in Readers : q = r

-----------------------------------------------------------------------------
(* Remainders and the contents of the buffer.                              *)

\* A position that has not wrapped around.
LEMMA FirstLap == \A m \in Nat \ {0} : \A x \in 0..(m - 1) : x % m = x
OBVIOUS

\* A position that has wrapped around once.
LEMMA SecondLap == \A m \in Nat \ {0} : \A x \in m..(2 * m - 1) : x % m = x - m
OBVIOUS

\* A difference of unsigned numbers that is negative.
LEMMA LapBefore == \A m \in Nat \ {0} : \A x \in (-m)..(-1) : x % m = x + m
OBVIOUS

\* Intervals from 1 of the same numbers have the same length.
LEMMA SameInterval == \A a, b \in Nat : 1..a = 1..b => a = b
<1> SUFFICES ASSUME NEW a \in Nat, NEW b \in Nat, 1..a = 1..b
             PROVE  a = b
  OBVIOUS
<1>1. a \in 1..a \/ a = 0
  OBVIOUS
<1>2. b \in 1..b \/ b = 0
  OBVIOUS
<1> QED BY <1>1, <1>2

\* The bytes in the buffer, read off the array.
ContentsRead ==
    /\ Contents \in Seq(Bytes)
    /\ Len(Contents) = count
    /\ \A i \in 1..count :
          Contents[i] = IF start + i - 1 < maxsize THEN data[start + i - 1]
                        ELSE data[start + i - 1 - maxsize]

\* Of the cells of the array, the contents are the count ones from start on.
LEMMA ContentsCells == BufferInv => ContentsRead
<1> SUFFICES ASSUME BufferInv
             PROVE  ContentsRead
  OBVIOUS
<1>0. /\ maxsize \in Nat \ {0} /\ start \in 0..maxsize /\ count \in 0..maxsize
      /\ data \in [Cells -> Bytes]
  BY BufferAssumption DEF BufferInv, BufferType
<1>1. \A i \in 1..count :
         (start + i - 1) % maxsize = IF start + i - 1 < maxsize THEN start + i - 1
                                     ELSE start + i - 1 - maxsize
  <2> TAKE i \in 1..count
  <2>1. CASE start + i - 1 < maxsize
    <3>1. start + i - 1 \in 0..(maxsize - 1)
      BY <1>0, <2>1
    <3> QED BY <1>0, <2>1, <3>1, FirstLap
  <2>2. CASE ~(start + i - 1 < maxsize)
    <3>1. start + i - 1 \in maxsize..(2 * maxsize - 1)
      BY <1>0, <2>2
    <3> QED BY <1>0, <2>2, <3>1, SecondLap
  <2> QED BY <2>1, <2>2
<1>2. \A i \in 1..count : (start + i - 1) % maxsize \in Cells
  BY <1>0, <1>1 DEF Cells
<1>3. Contents \in [1..count -> Bytes]
  BY <1>0, <1>2 DEF Contents
<1>4. Contents \in Seq(Bytes)
  BY <1>0, <1>3, SeqDef
<1>5. Len(Contents) = count
  <2>1. DOMAIN Contents = 1..Len(Contents) /\ Len(Contents) \in Nat
    BY <1>4, LenProperties
  <2>2. DOMAIN Contents = 1..count
    BY <1>3
  <2>3. 1..Len(Contents) = 1..count
    BY <2>1, <2>2
  <2>4. count \in Nat
    BY <1>0
  <2> QED BY <2>1, <2>3, <2>4, SameInterval
<1>6. \A i \in 1..count : Contents[i] = data[(start + i - 1) % maxsize]
  BY DEF Contents
<1> QED BY <1>1, <1>4, <1>5, <1>6 DEF ContentsRead

\* memcpy into the array appends to the contents: the cells written are the
\* free ones, in order, whether or not the copy is in two parts.
LEMMA CopyInAppends ==
    ASSUME BufferInv, NEW d \in Seq(Bytes), NEW k \in 0..Len(d), k <= maxsize - count,
           CopyIn(d, k), UNCHANGED <<start, seq_start>>
    PROVE  /\ data' \in [Cells -> Bytes]
           /\ end' \in 0..maxsize /\ count' \in 0..maxsize /\ seq_end' \in Seqs
           /\ SpanMatches'
           /\ BufferInv' => Contents' = Contents \o SubSeq(d, 1, k)
<1>0. /\ maxsize \in Nat \ {0} /\ SeqMod \in Nat \ {0} /\ SeqMod > maxsize
      /\ start \in 0..maxsize /\ end \in 0..maxsize /\ count \in 0..maxsize
      /\ data \in [Cells -> Bytes]
      /\ seq_start \in 0..(SeqMod - 1) /\ seq_end \in 0..(SeqMod - 1)
  BY BufferAssumption DEF BufferInv, BufferType, Seqs
<1>1. /\ end = start + count \/ end = start + count - maxsize
      /\ end = 0 => count = 0
      /\ seq_end = seq_start + count \/ seq_end = seq_start + count - SeqMod
  BY DEF BufferInv, SpanMatches
<1>k. k \in Nat /\ count + k <= maxsize
  BY <1>0
<1>2. Len(d) \in Nat /\ \A i \in 1..Len(d) : d[i] \in Bytes
  BY LenProperties, ElementOfSeq
<1>a. /\ data' = [i \in Cells |->
                   IF end <= i /\ i < end + k THEN d[i - end + 1]
                   ELSE IF i < end + k - maxsize THEN d[i + maxsize - end + 1]
                   ELSE data[i]]
      /\ end' = IF end + k > maxsize THEN end + k - maxsize ELSE end + k
      /\ count' = count + k
      /\ seq_end' = (seq_end + k) % SeqMod
      /\ start' = start /\ seq_start' = seq_start
  BY DEF CopyIn
<1>3. data' \in [Cells -> Bytes]
  <2>1. \A i \in Cells : data'[i] \in Bytes
    <3> TAKE i \in Cells
    <3>1. i \in 0..(maxsize - 1)
      BY DEF Cells
    <3>2. CASE end <= i /\ i < end + k
      <4>1. i - end + 1 \in 1..Len(d)
        BY <1>0, <1>2, <3>1, <3>2
      <4> QED BY <4>1, <1>a, <1>2, <3>2
    <3>3. CASE ~(end <= i /\ i < end + k) /\ i < end + k - maxsize
      <4>1. i + maxsize - end + 1 \in 1..Len(d)
        BY <1>0, <1>2, <3>1, <3>3
      <4> QED BY <4>1, <1>a, <1>2, <3>3
    <3>4. CASE ~(end <= i /\ i < end + k) /\ ~(i < end + k - maxsize)
      BY <1>0, <1>a, <3>4
    <3> QED BY <3>2, <3>3, <3>4
  <2> QED BY <1>a, <2>1
<1>4. end' \in 0..maxsize /\ count' \in 0..maxsize
  BY <1>0, <1>2, <1>a
<1>5. /\ seq_end' \in Seqs
      /\ seq_end' = seq_end + k \/ seq_end' = seq_end + k - SeqMod
  <2>1. CASE seq_end + k < SeqMod
    <3>1. seq_end + k \in 0..(SeqMod - 1)
      BY <1>0, <1>2, <2>1
    <3> QED BY <1>0, <1>a, <3>1, FirstLap DEF Seqs
  <2>2. CASE ~(seq_end + k < SeqMod)
    <3>1. seq_end + k \in SeqMod..(2 * SeqMod - 1)
      BY <1>0, <1>2, <2>2
    <3>2. (seq_end + k) % SeqMod = seq_end + k - SeqMod
      <4>1. \A x \in SeqMod..(2 * SeqMod - 1) : x % SeqMod = x - SeqMod
        BY <1>0, SecondLap
      <4>2. PICK x \in SeqMod..(2 * SeqMod - 1) : x = seq_end + k
        BY <3>1
      <4>3. x % SeqMod = x - SeqMod
        BY <4>1
      <4> QED BY <4>2, <4>3, <1>0, <1>k
    <3>3. seq_end + k - SeqMod \in 0..(SeqMod - 1)
      BY <1>0, <3>1
    <3> QED BY <1>a, <3>2, <3>3 DEF Seqs
  <2> QED BY <2>1, <2>2
<1>6. SpanMatches'
  <2>1. end' = start' + count' \/ end' = start' + count' - maxsize
    BY <1>0, <1>1, <1>2, <1>a
  <2>2. end' = 0 => count' = 0
    BY <1>0, <1>1, <1>2, <1>a
  <2>3. seq_end' = seq_start' + count' \/ seq_end' = seq_start' + count' - SeqMod
    <3>1. count' = count + k /\ seq_start' = seq_start
      BY <1>a
    <3>2. seq_end' \in 0..(SeqMod - 1)
      BY <1>5 DEF Seqs
    <3> QED BY <1>0, <1>1, <1>k, <1>5, <3>1, <3>2
  <2> QED BY <2>1, <2>2, <2>3 DEF SpanMatches
<1>7. ASSUME BufferInv'
      PROVE  Contents' = Contents \o SubSeq(d, 1, k)
  <2> DEFINE e == SubSeq(d, 1, k)
  <2>1. /\ Contents \in Seq(Bytes) /\ Len(Contents) = count
        /\ \A i \in 1..count :
              Contents[i] = IF start + i - 1 < maxsize THEN data[start + i - 1]
                            ELSE data[start + i - 1 - maxsize]
    BY ContentsCells DEF ContentsRead
  <2>2. /\ Contents' \in Seq(Bytes) /\ Len(Contents') = count'
        /\ \A i \in 1..count' :
              Contents'[i] = IF start' + i - 1 < maxsize THEN data'[start' + i - 1]
                             ELSE data'[start' + i - 1 - maxsize]
    <3>1. ContentsRead'
      BY <1>7, ContentsCells, PTL
    <3> QED BY <3>1 DEF ContentsRead
  <2>3. e \in Seq(Bytes) /\ Len(e) = k /\ \A i \in 1..k : e[i] = d[i]
    <3>1. \A i \in 1..k : d[i] \in Bytes
      BY <1>2
    <3>2. /\ e \in Seq(Bytes) /\ Len(e) = (IF 1 <= k THEN k - 1 + 1 ELSE 0)
          /\ \A i \in 1..(k - 1 + 1) : e[i] = d[1 + i - 1]
      BY <3>1, <1>2, SubSeqProperties
    <3> QED BY <3>2, <1>2
  <2> HIDE DEF e
  <2>4. /\ Contents \o e \in Seq(Bytes) /\ Len(Contents \o e) = count + k
        /\ \A i \in 1..(count + k) :
              (Contents \o e)[i] = IF i <= count THEN Contents[i] ELSE e[i - count]
    <3>1. /\ Contents \o e \in Seq(Bytes) /\ Len(Contents \o e) = Len(Contents) + Len(e)
          /\ \A i \in 1..(Len(Contents) + Len(e)) :
                (Contents \o e)[i] = IF i <= Len(Contents) THEN Contents[i]
                                     ELSE e[i - Len(Contents)]
      BY <2>1, <2>3, ConcatProperties
    <3>2. Len(Contents) = count /\ Len(e) = k
      BY <2>1, <2>3
    <3> QED BY <3>1, <3>2
  <2>5. \A i \in 1..(count + k) : Contents'[i] = (Contents \o e)[i]
    <3> TAKE i \in 1..(count + k)
    <3>1. PICK p \in 0..(maxsize - 1) :
            \/ p = start + i - 1
            \/ p = start + i - 1 - maxsize /\ start + i - 1 >= maxsize
      <4>1. CASE start + i - 1 < maxsize
        <5>1. start + i - 1 \in 0..(maxsize - 1)
          BY <1>0, <1>k, <4>1
        <5> QED BY <5>1
      <4>2. CASE ~(start + i - 1 < maxsize)
        <5>1. start + i - 1 - maxsize \in 0..(maxsize - 1) /\ start + i - 1 >= maxsize
          BY <1>0, <1>k, <4>2
        <5> QED BY <5>1
      <4> QED BY <4>1, <4>2
    <3>2. Contents'[i] = data'[p]
      <4>1. i \in 1..count' /\ start' = start
        BY <1>a
      <4>2. Contents'[i] = IF start + i - 1 < maxsize THEN data'[start + i - 1]
                           ELSE data'[start + i - 1 - maxsize]
        BY <2>2, <4>1
      <4>3. CASE start + i - 1 < maxsize
        <5>1. p = start + i - 1
          BY <1>0, <1>k, <3>1, <4>3
        <5> QED BY <4>2, <4>3, <5>1
      <4>4. CASE ~(start + i - 1 < maxsize)
        <5>1. p = start + i - 1 - maxsize
          BY <1>0, <1>k, <3>1, <4>4
        <5> QED BY <4>2, <4>4, <5>1
      <4> QED BY <4>3, <4>4
    <3>3. data'[p] = IF end <= p /\ p < end + k THEN d[p - end + 1]
                     ELSE IF p < end + k - maxsize THEN d[p + maxsize - end + 1]
                     ELSE data[p]
      BY <1>a, <3>1 DEF Cells
    <3>4. CASE i <= count
      <4>1. ~(end <= p /\ p < end + k) /\ ~(p < end + k - maxsize)
        BY <1>0, <1>1, <1>k, <3>1, <3>4
      <4>2. Contents[i] = data[p]
        <5>1. i \in 1..count
          BY <1>0, <1>k, <3>4
        <5>2. start + i - 1 < maxsize => p = start + i - 1
          BY <1>0, <3>1, <5>1
        <5>3. ~(start + i - 1 < maxsize) => p = start + i - 1 - maxsize
          BY <1>0, <3>1, <5>1
        <5> QED BY <2>1, <5>1, <5>2, <5>3
      <4> QED BY <4>1, <4>2, <3>2, <3>3, <3>4, <2>4
    <3>5. CASE i > count
      <4>1. i - count \in 1..k
        BY <1>0, <1>k, <3>5
      <4>2. \/ end <= p /\ p < end + k /\ p - end + 1 = i - count
            \/ p < end /\ p < end + k - maxsize /\ p + maxsize - end + 1 = i - count
        BY <1>0, <1>1, <1>k, <3>1, <3>5
      <4>3. data'[p] = d[i - count]
        <5>1. ASSUME end <= p, p < end + k, p - end + 1 = i - count
              PROVE  data'[p] = d[i - count]
          BY <5>1, <3>3
        <5>2. ASSUME p < end, p < end + k - maxsize, p + maxsize - end + 1 = i - count
              PROVE  data'[p] = d[i - count]
          <6>1. ~(end <= p)
            BY <5>2, <1>0
          <6> QED BY <5>2, <6>1, <3>3
        <5> QED BY <4>2, <5>1, <5>2
      <4>4. (Contents \o e)[i] = e[i - count]
        BY <2>4, <3>5, <1>0, <1>k
      <4>5. e[i - count] = d[i - count]
        BY <4>1, <2>3
      <4> QED BY <4>3, <4>4, <4>5, <3>2
    <3>6. i <= count \/ i > count
      BY <1>0, <1>k
    <3> QED BY <3>4, <3>5, <3>6
  <2>6. Len(Contents') = Len(Contents \o e)
    BY <2>2, <2>4, <1>a
  <2> QED BY <2>2, <2>4, <2>5, <2>6, <1>a, SeqEqual DEF e
<1> QED BY <1>3, <1>4, <1>5, <1>6, <1>7

\* The memcpy of a read returns the part of the contents that was asked for.
LEMMA CopyOutShows ==
    ASSUME BufferInv, NEW off \in 0..(count - 1), NEW n \in 1..(count - off)
    PROVE  CopyOut((start + off) % maxsize, n) = SubSeq(Contents, off + 1, off + n)
<1>0. /\ maxsize \in Nat \ {0} /\ start \in 0..maxsize /\ count \in 0..maxsize
      /\ data \in [Cells -> Bytes]
  BY BufferAssumption DEF BufferInv, BufferType
<1>1. /\ Contents \in Seq(Bytes) /\ Len(Contents) = count
      /\ \A i \in 1..count :
            Contents[i] = IF start + i - 1 < maxsize THEN data[start + i - 1]
                          ELSE data[start + i - 1 - maxsize]
  BY ContentsCells DEF ContentsRead
<1>2. PICK s \in 0..(maxsize - 1) :
        /\ s = (start + off) % maxsize
        /\ \/ s = start + off
           \/ s = start + off - maxsize
  <2>1. CASE start + off < maxsize
    <3>1. start + off \in 0..(maxsize - 1)
      BY <1>0, <2>1
    <3>2. (start + off) % maxsize = start + off
      BY <1>0, <3>1, FirstLap
    <3> QED BY <3>1, <3>2
  <2>2. CASE ~(start + off < maxsize)
    <3>1. start + off \in maxsize..(2 * maxsize - 1)
      BY <1>0, <2>2
    <3>2. (start + off) % maxsize = start + off - maxsize
      BY <1>0, <3>1, SecondLap
    <3>3. start + off - maxsize \in 0..(maxsize - 1)
      BY <1>0, <3>1
    <3> QED BY <3>2, <3>3
  <2> QED BY <2>1, <2>2
<1>n. /\ off \in Nat /\ n \in Nat /\ n >= 1 /\ off + n <= count
  BY <1>0
<1>3. \A i \in 1..n :
         CopyOut(s, n)[i] = IF s + i - 1 < maxsize THEN data[s + i - 1]
                            ELSE data[s + i - 1 - maxsize]
  BY DEF CopyOut
<1>4. \A i \in 1..n : CopyOut(s, n)[i] = Contents[off + i]
  <2> TAKE i \in 1..n
  <2>1. PICK j \in 1..count : j = off + i
    <3>1. off + i \in 1..count
      BY <1>0, <1>n
    <3> QED BY <3>1
  <2>2. Contents[j] = IF start + j - 1 < maxsize THEN data[start + j - 1]
                      ELSE data[start + j - 1 - maxsize]
    BY <1>1
  <2>3. CASE s = start + off
    <3>1. s + i - 1 = start + j - 1
      BY <1>0, <1>n, <2>1, <2>3
    <3>2. CASE start + j - 1 < maxsize
      BY <1>0, <1>n, <1>3, <2>1, <2>2, <3>1, <3>2
    <3>3. CASE ~(start + j - 1 < maxsize)
      BY <1>0, <1>n, <1>3, <2>1, <2>2, <3>1, <3>3
    <3> QED BY <3>2, <3>3
  <2>4. CASE s = start + off - maxsize
    <3>1. s + i - 1 = start + j - 1 - maxsize
      BY <1>0, <1>n, <2>1, <2>4
    <3>2. ~(start + j - 1 < maxsize) /\ s + i - 1 < maxsize
      BY <1>0, <1>n, <1>2, <2>1, <2>4
    <3> QED BY <1>3, <2>1, <2>2, <3>1, <3>2
  <2> QED BY <1>2, <2>3, <2>4
<1>5. CopyOut(s, n) \in Seq(Bytes) /\ Len(CopyOut(s, n)) = n
  <2>1. \A i \in 1..n : CopyOut(s, n)[i] \in Bytes
    <3> TAKE i \in 1..n
    <3>1. off + i \in 1..Len(Contents)
      BY <1>0, <1>1, <1>n
    <3>2. Contents[off + i] \in Bytes
      BY <3>1, <1>1, ElementOfSeq
    <3> QED BY <3>2, <1>4
  <2>2. DOMAIN CopyOut(s, n) = 1..n /\ CopyOut(s, n) = [i \in 1..n |-> CopyOut(s, n)[i]]
    BY DEF CopyOut
  <2>3. CopyOut(s, n) \in [1..n -> Bytes]
    BY <2>1, <2>2
  <2>4. CopyOut(s, n) \in Seq(Bytes)
    BY <2>3, <1>n, SeqDef
  <2>5. DOMAIN CopyOut(s, n) = 1..Len(CopyOut(s, n)) /\ Len(CopyOut(s, n)) \in Nat
    BY <2>4, LenProperties
  <2> QED BY <2>2, <2>4, <2>5, <1>n, SameInterval
<1>6. LET e == SubSeq(Contents, off + 1, off + n)
      IN e \in Seq(Bytes) /\ Len(e) = n /\ \A i \in 1..n : e[i] = Contents[off + i]
  <2> DEFINE e == SubSeq(Contents, off + 1, off + n)
  <2>1. \A i \in (off + 1)..(off + n) : Contents[i] \in Bytes
    <3> TAKE i \in (off + 1)..(off + n)
    <3>1. i \in 1..Len(Contents)
      BY <1>0, <1>1, <1>n
    <3> QED BY <3>1, <1>1, ElementOfSeq
  <2>2. off + 1 \in Int /\ off + n \in Int
    BY <1>n
  <2>3. /\ e \in Seq(Bytes)
        /\ Len(e) = (IF off + 1 <= off + n THEN off + n - (off + 1) + 1 ELSE 0)
        /\ \A i \in 1..(off + n - (off + 1) + 1) : e[i] = Contents[off + 1 + i - 1]
    BY <2>1, <2>2, SubSeqProperties
  <2> HIDE DEF e
  <2>4. Len(e) = n
    BY <2>3, <1>n
  <2>5. \A i \in 1..n : e[i] = Contents[off + i]
    <3> TAKE i \in 1..n
    <3>1. i \in 1..(off + n - (off + 1) + 1) /\ off + 1 + i - 1 = off + i
      BY <1>n
    <3> QED BY <2>3, <3>1
  <2> QED BY <2>3, <2>4, <2>5 DEF e
<1>7. CopyOut(s, n) = SubSeq(Contents, off + 1, off + n)
  BY <1>4, <1>5, <1>6, SeqEqual
<1> QED BY <1>2, <1>7

\* A read takes what it returns from the front of the contents.
LEMMA ConsumeDrops ==
    ASSUME BufferInv, NEW n \in 1..count, Consume(start % maxsize, n, FALSE),
           UNCHANGED <<data, end, seq_end>>
    PROVE  /\ start' \in 0..maxsize /\ count' \in 0..maxsize /\ seq_start' \in Seqs
           /\ SpanMatches'
           /\ BufferInv' => Contents' = SubSeq(Contents, n + 1, Len(Contents))
<1>0. /\ maxsize \in Nat \ {0} /\ SeqMod \in Nat \ {0} /\ SeqMod > maxsize
      /\ start \in 0..maxsize /\ end \in 0..maxsize /\ count \in 0..maxsize
      /\ data \in [Cells -> Bytes]
      /\ seq_start \in 0..(SeqMod - 1) /\ seq_end \in 0..(SeqMod - 1)
  BY BufferAssumption DEF BufferInv, BufferType, Seqs
<1>1. /\ end = start + count \/ end = start + count - maxsize
      /\ end = 0 => count = 0
      /\ seq_end = seq_start + count \/ seq_end = seq_start + count - SeqMod
  BY DEF BufferInv, SpanMatches
<1>n. n \in Nat /\ n >= 1 /\ n <= count
  BY <1>0
<1>s. PICK s \in 0..(maxsize - 1) :
        /\ s = start % maxsize
        /\ \/ s = start /\ start < maxsize
           \/ s = 0 /\ start = maxsize
  <2>1. CASE start < maxsize
    <3>1. start \in 0..(maxsize - 1)
      BY <1>0, <2>1
    <3>2. start % maxsize = start
      BY <1>0, <3>1, FirstLap
    <3> QED BY <2>1, <3>1, <3>2
  <2>2. CASE start = maxsize
    <3>1. maxsize \in maxsize..(2 * maxsize - 1)
      BY <1>0
    <3>2. maxsize % maxsize = maxsize - maxsize
      BY <1>0, <3>1, SecondLap
    <3>3. maxsize - maxsize = 0 /\ 0 \in 0..(maxsize - 1)
      BY <1>0
    <3> QED BY <2>2, <3>2, <3>3
  <2>3. start < maxsize \/ start = maxsize
    BY <1>0
  <2> QED BY <2>1, <2>2, <2>3
<1>a. /\ start' = IF s + n > maxsize THEN s + n - maxsize ELSE s + n
      /\ count' = count - n
      /\ seq_start' = (seq_start + n) % SeqMod
      /\ data' = data /\ end' = end /\ seq_end' = seq_end
  BY <1>s DEF Consume
<1>4. start' \in 0..maxsize /\ count' \in 0..maxsize
  BY <1>0, <1>n, <1>a
<1>5. /\ seq_start' \in 0..(SeqMod - 1)
      /\ seq_start' = seq_start + n \/ seq_start' = seq_start + n - SeqMod
  <2>1. CASE seq_start + n < SeqMod
    <3>1. seq_start + n \in 0..(SeqMod - 1)
      BY <1>0, <1>n, <2>1
    <3> QED BY <1>0, <1>a, <3>1, FirstLap
  <2>2. CASE ~(seq_start + n < SeqMod)
    <3>1. seq_start + n \in SeqMod..(2 * SeqMod - 1)
      BY <1>0, <1>n, <2>2
    <3>2. \A x \in SeqMod..(2 * SeqMod - 1) : x % SeqMod = x - SeqMod
      BY <1>0, SecondLap
    <3>3. PICK x \in SeqMod..(2 * SeqMod - 1) : x = seq_start + n
      BY <3>1
    <3>4. x % SeqMod = x - SeqMod
      BY <3>2
    <3>5. (seq_start + n) % SeqMod = seq_start + n - SeqMod
      BY <3>3, <3>4, <1>0, <1>n
    <3>6. seq_start + n - SeqMod \in 0..(SeqMod - 1)
      BY <1>0, <3>1
    <3> QED BY <1>a, <3>5, <3>6
  <2> QED BY <2>1, <2>2
<1>6. SpanMatches'
  <2>1. end' = start' + count' \/ end' = start' + count' - maxsize
    BY <1>0, <1>1, <1>n, <1>s, <1>a
  <2>2. end' = 0 => count' = 0
    BY <1>0, <1>1, <1>n, <1>a
  <2>3. seq_end' = seq_start' + count' \/ seq_end' = seq_start' + count' - SeqMod
    BY <1>0, <1>1, <1>n, <1>5, <1>a
  <2> QED BY <2>1, <2>2, <2>3 DEF SpanMatches
<1>7. ASSUME BufferInv'
      PROVE  Contents' = SubSeq(Contents, n + 1, Len(Contents))
  <2> DEFINE e == SubSeq(Contents, n + 1, Len(Contents))
  <2>1. /\ Contents \in Seq(Bytes) /\ Len(Contents) = count
        /\ \A i \in 1..count :
              Contents[i] = IF start + i - 1 < maxsize THEN data[start + i - 1]
                            ELSE data[start + i - 1 - maxsize]
    BY ContentsCells DEF ContentsRead
  <2>2. /\ Contents' \in Seq(Bytes) /\ Len(Contents') = count'
        /\ \A i \in 1..count' :
              Contents'[i] = IF start' + i - 1 < maxsize THEN data'[start' + i - 1]
                             ELSE data'[start' + i - 1 - maxsize]
    <3>1. ContentsRead'
      BY <1>7, ContentsCells, PTL
    <3> QED BY <3>1 DEF ContentsRead
  <2>3. /\ e \in Seq(Bytes) /\ Len(e) = count - n
        /\ \A i \in 1..(count - n) : e[i] = Contents[n + i]
    <3>1. \A i \in (n + 1)..Len(Contents) : Contents[i] \in Bytes
      <4> TAKE i \in (n + 1)..Len(Contents)
      <4>1. i \in 1..Len(Contents)
        BY <1>0, <1>n, <2>1
      <4> QED BY <4>1, <2>1, ElementOfSeq
    <3>2. n + 1 \in Int /\ Len(Contents) \in Int
      BY <1>0, <1>n, <2>1
    <3>3. /\ e \in Seq(Bytes)
          /\ Len(e) = (IF n + 1 <= Len(Contents) THEN Len(Contents) - (n + 1) + 1 ELSE 0)
          /\ \A i \in 1..(Len(Contents) - (n + 1) + 1) : e[i] = Contents[n + 1 + i - 1]
      BY <3>1, <3>2, SubSeqProperties
    <3> HIDE DEF e
    <3>4. Len(e) = count - n
      <4>1. Len(e) = (IF n + 1 <= count THEN count - (n + 1) + 1 ELSE 0)
        BY <3>3, <2>1
      <4> QED BY <1>0, <1>n, <4>1
    <3>5. \A i \in 1..(count - n) : e[i] = Contents[n + i]
      <4> TAKE i \in 1..(count - n)
      <4>1. i \in 1..(Len(Contents) - (n + 1) + 1) /\ n + 1 + i - 1 = n + i
        BY <1>0, <1>n, <2>1
      <4> QED BY <3>3, <4>1
    <3> QED BY <3>3, <3>4, <3>5
  <2> HIDE DEF e
  <2>4. \A i \in 1..(count - n) : Contents'[i] = e[i]
    <3> TAKE i \in 1..(count - n)
    <3>1. PICK j \in 1..count : j = n + i
      <4>1. n + i \in 1..count
        BY <1>0, <1>n
      <4> QED BY <4>1
    <3>2. Contents[j] = IF start + j - 1 < maxsize THEN data[start + j - 1]
                        ELSE data[start + j - 1 - maxsize]
      BY <2>1
    <3>3. Contents'[i] = IF start' + i - 1 < maxsize THEN data[start' + i - 1]
                         ELSE data[start' + i - 1 - maxsize]
      BY <2>2, <1>a
    <3>4. PICK p \in Int : p = start' + i - 1
      <4>1. start' + i - 1 \in Int
        BY <1>0, <1>4
      <4> QED BY <4>1
    <3>5. \/ p = start + j - 1
          \/ p = start + j - 1 - maxsize /\ p < maxsize /\ ~(start + j - 1 < maxsize)
      BY <1>0, <1>n, <1>s, <1>a, <3>1, <3>4
    <3>6. Contents'[i] = Contents[j]
      <4>1. Contents'[i] = IF p < maxsize THEN data[p] ELSE data[p - maxsize]
        <5>1. CASE p < maxsize
          BY <1>0, <1>4, <3>3, <3>4, <5>1
        <5>2. CASE ~(p < maxsize)
          BY <1>0, <1>4, <3>3, <3>4, <5>2
        <5> QED BY <5>1, <5>2
      <4>2. CASE p = start + j - 1
        BY <1>0, <3>2, <4>1, <4>2
      <4>3. CASE p = start + j - 1 - maxsize /\ p < maxsize /\ ~(start + j - 1 < maxsize)
        BY <3>2, <4>1, <4>3
      <4> QED BY <3>5, <4>2, <4>3
    <3> QED BY <2>3, <3>1, <3>6
  <2>5. Len(Contents') = Len(e)
    BY <2>2, <2>3, <1>a
  <2> QED BY <2>2, <2>3, <2>4, <2>5, <1>a, SeqEqual DEF e
<1> QED BY <1>4, <1>5, <1>6, <1>7 DEF Seqs

-----------------------------------------------------------------------------
(* Every step preserves the invariant.                                     *)

\* Everything in the invariant but the indices depends on the calls.
LEMMA WriteLoopPreserves ==
    ASSUME BufferInv, NEW w \in Writers, NEW d \in Seq(Bytes),
           WriteLoop(w, d), UNCHANGED <<start, closed, seq_start, arg>>
    PROVE  BufferInv'
<1>0. /\ pc \in [Threads -> {"idle", "write", "try_write", "read", "peek_at"}]
      /\ todo \in [Writers -> Seq(Bytes)]
      /\ w \in Threads
  BY DEF BufferInv, BufferType, Threads
<1>1. CASE closed
  <2>1. /\ pc' = [pc EXCEPT ![w] = "idle"] /\ todo' = [todo EXCEPT ![w] = <<>>]
        /\ UNCHANGED <<data, start, end, count, closed, seq_start, seq_end, arg>>
    BY <1>1 DEF WriteLoop
  <2>2. BufferType'
    BY <1>0, <2>1, EmptySeq DEF BufferInv, BufferType
  <2>3. SpanMatches'
    BY <2>1 DEF BufferInv, SpanMatches
  <2>4. CallsMatch'
    BY <1>0, <2>1 DEF BufferInv, CallsMatch, Threads
  <2> QED BY <2>2, <2>3, <2>4 DEF BufferInv
<1>2. CASE ~closed
  <2> DEFINE k == Lesser(Len(d), maxsize - count)
  <2>0. Len(d) \in Nat /\ maxsize \in Nat /\ count \in 0..maxsize
    BY BufferAssumption, LenProperties DEF BufferInv, BufferType
  <2>1. k \in 0..Len(d) /\ k <= maxsize - count
    BY <2>0 DEF Lesser
  <2>2. /\ CopyIn(d, k)
        /\ todo' = [todo EXCEPT ![w] = SubSeq(d, k + 1, Len(d))]
        /\ pc' = [pc EXCEPT ![w] = IF k = Len(d) THEN "idle" ELSE "write"]
    BY <1>2 DEF WriteLoop
  <2> HIDE DEF k
  <2>3. /\ data' \in [Cells -> Bytes]
        /\ end' \in 0..maxsize /\ count' \in 0..maxsize /\ seq_end' \in Seqs
        /\ SpanMatches'
    BY <2>1, <2>2, CopyInAppends
  <2>4. SubSeq(d, k + 1, Len(d)) \in Seq(Bytes)
    <3>1. \A i \in (k + 1)..Len(d) : d[i] \in Bytes
      <4> TAKE i \in (k + 1)..Len(d)
      <4>1. i \in 1..Len(d)
        BY <2>0, <2>1
      <4> QED BY <4>1, ElementOfSeq
    <3>2. k + 1 \in Int /\ Len(d) \in Int
      BY <2>0, <2>1
    <3> QED BY <3>1, <3>2, SubSeqProperties
  <2>5. k = Len(d) => SubSeq(d, k + 1, Len(d)) = <<>>
    <3>1. k = Len(d) => k + 1 \in Int /\ Len(d) \in Int /\ k + 1 > Len(d)
      BY <2>0
    <3> QED BY <3>1, SubSeqEmpty
  <2>6. BufferType'
    BY <1>0, <2>2, <2>3, <2>4 DEF BufferInv, BufferType
  <2>7. CallsMatch'
    BY <1>0, <2>2, <2>5 DEF BufferInv, CallsMatch, Threads
  <2> QED BY <2>3, <2>6, <2>7 DEF BufferInv
<1> QED BY <1>1, <1>2

\* A read that does not peek starts at the first byte, and so takes bytes
\* from the front; a peek changes nothing but the calls.
LEMMA ReadLoopPreserves ==
    ASSUME BufferInv, NEW r \in Readers, NEW x \in Args,
           pc[r] \notin {"write", "try_write"},
           x.len >= 1, count = 0 => x.offset = 0, ~x.peeking => x.offset = 0,
           ReadLoop(r, x)
    PROVE  BufferInv'
<1>0. /\ pc \in [Threads -> {"idle", "write", "try_write", "read", "peek_at"}]
      /\ arg \in [Readers -> Args]
      /\ r \in Threads
  BY DEF BufferInv, BufferType, Threads
<1>t. /\ maxsize \in Nat \ {0} /\ SeqMod \in Nat \ {0} /\ SeqMod > maxsize
      /\ MaxLen \in Nat
      /\ start \in 0..maxsize /\ count \in 0..maxsize
      /\ x.len \in 0..MaxLen /\ x.offset \in 0..(SeqMod - 1) /\ x.peeking \in BOOLEAN
  BY BufferAssumption DEF BufferInv, BufferType, Args, Seqs
<1>1. UNCHANGED <<data, end, closed, seq_end, todo>>
  BY DEF ReadLoop
<1>2. ASSUME ReadReturns(r)
      PROVE  /\ pc' \in [Threads -> {"idle", "write", "try_write", "read", "peek_at"}]
             /\ arg' \in [Readers -> Args]
             /\ CallsMatch'
  <2>1. NoArg \in Args
    BY <1>t, BufferAssumption DEF NoArg, Args, Seqs
  <2>2. pc' = [pc EXCEPT ![r] = "idle"] /\ arg' = [arg EXCEPT ![r] = NoArg]
    BY <1>2 DEF ReadReturns
  <2> QED BY <1>0, <1>1, <2>1, <2>2 DEF BufferInv, CallsMatch, Threads
<1>3. CASE count = 0
  <2>1. UNCHANGED <<start, count, seq_start>>
    BY <1>3 DEF ReadLoop
  <2>2. SpanMatches'
    BY <1>1, <2>1 DEF BufferInv, SpanMatches
  <2>3. CASE closed
    <3>1. ReadReturns(r)
      BY <1>3, <2>3 DEF ReadLoop
    <3>2. BufferType' /\ CallsMatch'
      BY <1>1, <1>2, <2>1, <3>1 DEF BufferInv, BufferType
    <3> QED BY <2>2, <3>2 DEF BufferInv
  <2>4. CASE ~closed
    <3>1. pc' = [pc EXCEPT ![r] = "read"] /\ arg' = [arg EXCEPT ![r] = x]
      BY <1>3, <2>4 DEF ReadLoop, ReadSleeps
    <3>2. BufferType'
      BY <1>0, <1>1, <2>1, <3>1 DEF BufferInv, BufferType
    <3>3. CallsMatch'
      BY <1>0, <1>1, <1>3, <3>1 DEF BufferInv, CallsMatch, Threads
    <3> QED BY <2>2, <3>2, <3>3 DEF BufferInv
  <2> QED BY <2>3, <2>4
<1>4. CASE count # 0
  <2> DEFINE s == (start + x.offset) % maxsize
             toread == Lesser(x.len, (count - x.offset) % SeqMod)
  <2>1. Consume(s, toread, x.peeking) /\ ReadReturns(r)
    BY <1>4 DEF ReadLoop
  <2> HIDE DEF s, toread
  <2>a. /\ pc' \in [Threads -> {"idle", "write", "try_write", "read", "peek_at"}]
        /\ arg' \in [Readers -> Args]
        /\ CallsMatch'
    BY <1>2, <2>1
  <2>2. CASE x.peeking
    <3>1. UNCHANGED <<start, count, seq_start>>
      BY <2>1, <2>2 DEF Consume
    <3>2. BufferType'
      BY <1>1, <2>a, <3>1 DEF BufferInv, BufferType
    <3>3. SpanMatches'
      BY <1>1, <3>1 DEF BufferInv, SpanMatches
    <3> QED BY <2>a, <3>2, <3>3 DEF BufferInv
  <2>3. CASE ~x.peeking
    <3>1. x.offset = 0
      BY <2>3
    <3>2. s = start % maxsize
      <4>1. start + x.offset = start
        BY <1>t, <3>1
      <4> QED BY <4>1 DEF s
    <3>3. toread \in 1..count
      <4>1. count - x.offset = count
        BY <1>t, <3>1
      <4>2. count \in 0..(SeqMod - 1)
        BY <1>t
      <4>3. count % SeqMod = count
        BY <1>t, <4>2, FirstLap
      <4>4. toread = Lesser(x.len, count)
        BY <4>1, <4>3 DEF toread
      <4> QED BY <1>t, <1>4, <4>4 DEF Lesser
    <3>4. x.peeking = FALSE
      BY <1>t, <2>3
    <3>5. Consume(start % maxsize, toread, FALSE)
      BY <2>1, <3>2, <3>4
    <3>6. /\ start' \in 0..maxsize /\ count' \in 0..maxsize /\ seq_start' \in Seqs
          /\ SpanMatches'
      BY <1>1, <3>3, <3>5, ConsumeDrops
    <3>7. BufferType'
      BY <1>1, <2>a, <3>6 DEF BufferInv, BufferType
    <3> QED BY <2>a, <3>6, <3>7 DEF BufferInv
  <2> QED BY <2>2, <2>3
<1> QED BY <1>3, <1>4

\* The argument of a write that goes on or begins, cut to the capacity.
LEMMA WriteArgument ==
    ASSUME NEW d \in Seq(Bytes)
    PROVE  /\ SubSeq(d, 1, Lesser(Len(d), maxsize)) \in Seq(Bytes)
           /\ Len(SubSeq(d, 1, Lesser(Len(d), maxsize))) = Lesser(Len(d), maxsize)
           /\ Len(d) <= maxsize => SubSeq(d, 1, Lesser(Len(d), maxsize)) = d
<1>0. Len(d) \in Nat /\ maxsize \in Nat /\ Lesser(Len(d), maxsize) \in 0..Len(d)
  BY LenProperties, BufferAssumption DEF Lesser
<1> DEFINE k == Lesser(Len(d), maxsize)
<1>1. \A i \in 1..k : d[i] \in Bytes
  <2> TAKE i \in 1..k
  <2>1. i \in 1..Len(d)
    BY <1>0
  <2> QED BY <2>1, ElementOfSeq
<1>2. k \in Int /\ 1 \in Int /\ k \in Nat
  BY <1>0
<1>3. /\ SubSeq(d, 1, k) \in Seq(Bytes)
      /\ Len(SubSeq(d, 1, k)) = (IF 1 <= k THEN k - 1 + 1 ELSE 0)
  BY <1>1, <1>2, SubSeqProperties
<1>4. Len(d) <= maxsize => k = Len(d)
  BY <1>0 DEF Lesser
<1>5. SubSeq(d, 1, Len(d)) = d
  BY SubSeqFull
<1> HIDE DEF k
<1>6. Len(SubSeq(d, 1, k)) = k
  BY <1>2, <1>3
<1> QED BY <1>3, <1>4, <1>5, <1>6 DEF k

\* What circular_buffer_init makes satisfies the invariant.
LEMMA InitEstablishes == Init => BufferInv
<1> SUFFICES ASSUME Init
             PROVE  BufferInv
  OBVIOUS
<1>0. maxsize \in Nat \ {0} /\ MaxLen \in Nat /\ SeqMod \in Nat \ {0}
  BY BufferAssumption
<1>1. BufferType
  <2>1. NoArg \in Args
    BY <1>0 DEF NoArg, Args, Seqs
  <2>2. 0 \in 0..maxsize /\ 0 \in Seqs
    BY <1>0 DEF Seqs
  <2>3. pc \in [Threads -> {"idle", "write", "try_write", "read", "peek_at"}]
    BY DEF Init
  <2>4. todo \in [Writers -> Seq(Bytes)] /\ arg \in [Readers -> Args]
    BY <2>1, EmptySeq DEF Init
  <2> QED BY <2>2, <2>3, <2>4 DEF Init, BufferType
<1>2. SpanMatches
  BY <1>0 DEF Init, SpanMatches
<1>3. CallsMatch
  BY DEF Init, CallsMatch, Threads
<1> QED BY <1>1, <1>2, <1>3 DEF BufferInv

\* Each call, and each return from a sleep, preserves the invariant.
LEMMA StepPreserves == BufferInv /\ [Next]_vars => BufferInv'
<1> SUFFICES ASSUME BufferInv, [Next]_vars
             PROVE  BufferInv'
  OBVIOUS
<1>0. /\ maxsize \in Nat \ {0} /\ MaxLen \in Nat \ {0}
      /\ SeqMod \in Nat \ {0} /\ SeqMod > maxsize
      /\ InitialSeqs \subseteq Seqs
  BY BufferAssumption DEF Seqs
<1>t. /\ start \in 0..maxsize /\ end \in 0..maxsize /\ count \in 0..maxsize
      /\ seq_start \in Seqs /\ seq_end \in Seqs
      /\ pc \in [Threads -> {"idle", "write", "try_write", "read", "peek_at"}]
      /\ todo \in [Writers -> Seq(Bytes)]
      /\ arg \in [Readers -> Args]
  BY DEF BufferInv, BufferType
<1>1. ASSUME NEW x \in InitialSeqs, SetSeqInitial(x)
      PROVE  BufferInv'
  <2>1. /\ start = 0 /\ seq_start' = x /\ seq_end' = (x + end) % SeqMod
        /\ UNCHANGED <<data, start, end, count, closed, pc, todo, arg>>
    BY <1>1 DEF SetSeqInitial, indexVars
  <2>2. end = count
    BY <1>0, <1>t, <2>1 DEF BufferInv, SpanMatches
  <2>3. x \in 0..(SeqMod - 1)
    BY <1>0 DEF Seqs
  <2>a. seq_end' = (x + count) % SeqMod
    BY <2>1, <2>2
  <2>4. /\ seq_end' \in 0..(SeqMod - 1)
        /\ seq_end' = x + count \/ seq_end' = x + count - SeqMod
    <3>1. CASE x + count < SeqMod
      <4>1. x + count \in 0..(SeqMod - 1)
        BY <1>0, <1>t, <2>3, <3>1
      <4> QED BY <1>0, <2>a, <4>1, FirstLap
    <3>2. CASE ~(x + count < SeqMod)
      <4>1. x + count \in SeqMod..(2 * SeqMod - 1)
        BY <1>0, <1>t, <2>3, <3>2
      <4>2. \A y \in SeqMod..(2 * SeqMod - 1) : y % SeqMod = y - SeqMod
        BY <1>0, SecondLap
      <4>3. PICK y \in SeqMod..(2 * SeqMod - 1) : y = x + count
        BY <4>1
      <4>4. y % SeqMod = y - SeqMod
        BY <4>2
      <4>5. seq_end' = x + count - SeqMod
        BY <2>a, <4>3, <4>4, <1>0, <1>t, <2>3
      <4>6. x + count - SeqMod \in 0..(SeqMod - 1)
        BY <1>0, <1>t, <2>3, <4>1
      <4> QED BY <4>5, <4>6
    <3> QED BY <3>1, <3>2
  <2>5. BufferType'
    BY <2>1, <2>3, <2>4 DEF BufferInv, BufferType, Seqs
  <2>6. SpanMatches'
    BY <2>1, <2>4 DEF BufferInv, SpanMatches
  <2>7. CallsMatch'
    BY <2>1 DEF BufferInv, CallsMatch
  <2> QED BY <2>5, <2>6, <2>7 DEF BufferInv
<1>2. ASSUME NEW w \in Writers, NEW d \in Strings(MaxLen) \ {<<>>}, NEW blocking \in BOOLEAN,
             Write(w, d, blocking)
      PROVE  BufferInv'
  <2>1. /\ pc' = [pc EXCEPT ![w] = IF blocking THEN "write" ELSE "try_write"]
        /\ todo' = [todo EXCEPT ![w] = d]
        /\ UNCHANGED <<data, start, end, count, closed, seq_start, seq_end, arg>>
    BY <1>2 DEF Write, indexVars, seqVars
  <2>2. d \in Seq(Bytes)
    <3>1. PICK k \in 0..MaxLen : d \in [1..k -> Bytes]
      BY DEF Strings
    <3>2. k \in Nat
      BY <1>0, <3>1
    <3> QED BY <3>1, <3>2, SeqDef
  <2>3. BufferType'
    BY <1>t, <2>1, <2>2 DEF BufferInv, BufferType, Threads
  <2>4. SpanMatches'
    BY <2>1 DEF BufferInv, SpanMatches
  <2>5. CallsMatch'
    BY <1>t, <2>1 DEF BufferInv, CallsMatch, Threads
  <2> QED BY <2>3, <2>4, <2>5 DEF BufferInv
<1>3. ASSUME NEW r \in Readers, NEW len \in 1..MaxLen, NEW blocking \in BOOLEAN,
             NEW peek \in BOOLEAN, Read(r, len, blocking, peek)
      PROVE  BufferInv'
  <2> DEFINE x == [len |-> len, offset |-> 0, peeking |-> peek]
  <2>1. x \in Args /\ x.offset = 0 /\ x.len >= 1
    BY <1>0 DEF Args, Seqs
  <2>2. pc[r] = "idle" /\ ReadLoop(r, x)
    BY <1>3 DEF Read
  <2> HIDE DEF x
  <2>3. pc[r] \notin {"write", "try_write"}
    BY <2>2
  <2> QED BY <2>1, <2>2, <2>3, ReadLoopPreserves
<1>4. ASSUME NEW r \in Readers, NEW len \in 1..MaxLen, NEW at \in Seqs, PeekAt(r, at, len)
      PROVE  BufferInv'
  <2> DEFINE x == [len |-> len, offset |-> at - seq_start, peeking |-> TRUE]
  <2>1. /\ pc' = [pc EXCEPT ![r] = "peek_at"] /\ arg' = [arg EXCEPT ![r] = x]
        /\ UNCHANGED <<data, start, end, count, closed, seq_start, seq_end, todo>>
        /\ at >= seq_start
        /\ pc[r] = "idle"
    BY <1>4 DEF PeekAt, PeekAtValid, indexVars, seqVars
  <2>2. x \in Args /\ x.peeking /\ x.len >= 1
    BY <1>0, <1>t, <2>1 DEF Args, Seqs
  <2> HIDE DEF x
  <2>3. BufferType'
    BY <1>t, <2>1, <2>2 DEF BufferInv, BufferType, Threads
  <2>4. SpanMatches'
    BY <2>1 DEF BufferInv, SpanMatches
  <2>5. CallsMatch'
    BY <1>t, <2>1, <2>2 DEF BufferInv, CallsMatch, Threads
  <2> QED BY <2>3, <2>4, <2>5 DEF BufferInv
<1>5. CASE Close
  BY <1>5 DEF Close, indexVars, seqVars, BufferInv, BufferType, SpanMatches, CallsMatch
<1>6. ASSUME NEW w \in Writers, WriteWake(w)
      PROVE  BufferInv'
  <2>1. todo[w] \in Seq(Bytes)
    BY <1>t
  <2>2. SubSeq(todo[w], 1, Lesser(Len(todo[w]), maxsize)) \in Seq(Bytes)
    BY <2>1, WriteArgument
  <2> QED BY <1>6, <2>2, WriteLoopPreserves DEF WriteWake
<1>7. ASSUME NEW w \in Writers, TryWrite(w)
      PROVE  BufferInv'
  <2>1. todo[w] \in Seq(Bytes)
    BY <1>t
  <2>2. CASE count + Len(todo[w]) > maxsize
    <3>1. /\ pc' = [pc EXCEPT ![w] = "idle"] /\ todo' = [todo EXCEPT ![w] = <<>>]
          /\ UNCHANGED <<data, start, end, count, closed, seq_start, seq_end, arg>>
      BY <1>7, <2>2 DEF TryWrite
    <3>2. BufferType'
      BY <1>t, <3>1, EmptySeq DEF BufferInv, BufferType, Threads
    <3>3. SpanMatches'
      BY <3>1 DEF BufferInv, SpanMatches
    <3>4. CallsMatch'
      BY <1>t, <3>1 DEF BufferInv, CallsMatch, Threads
    <3> QED BY <3>2, <3>3, <3>4 DEF BufferInv
  <2>3. CASE ~(count + Len(todo[w]) > maxsize)
    BY <1>7, <2>1, <2>3, WriteLoopPreserves DEF TryWrite
  <2> QED BY <2>2, <2>3
<1>8. ASSUME NEW r \in Readers, ReadWake(r)
      PROVE  BufferInv'
  <2>1. arg[r] \in Args /\ pc[r] = "read" /\ ReadLoop(r, arg[r])
    BY <1>t, <1>8 DEF ReadWake
  <2>2. arg[r].offset = 0 /\ arg[r].len >= 1
    BY <2>1 DEF BufferInv, CallsMatch
  <2>3. pc[r] \notin {"write", "try_write"}
    BY <2>1
  <2> QED BY <2>1, <2>2, <2>3, ReadLoopPreserves
<1>9. ASSUME NEW r \in Readers, PeekAtRead(r)
      PROVE  BufferInv'
  <2>1. arg[r] \in Args /\ pc[r] = "peek_at"
    BY <1>t, <1>9 DEF PeekAtRead
  <2>2. arg[r].peeking /\ arg[r].len >= 1
    BY <2>1 DEF BufferInv, CallsMatch
  <2>3. CASE count = 0
    <3>1. /\ pc' = [pc EXCEPT ![r] = "idle"] /\ arg' = [arg EXCEPT ![r] = NoArg]
          /\ UNCHANGED <<data, start, end, count, closed, seq_start, seq_end, todo>>
      BY <1>9, <2>3 DEF PeekAtRead, ReadReturns, indexVars, seqVars
    <3>2. NoArg \in Args
      BY <1>0 DEF NoArg, Args, Seqs
    <3>3. BufferType'
      BY <1>t, <3>1, <3>2 DEF BufferInv, BufferType, Threads
    <3>4. SpanMatches'
      BY <3>1 DEF BufferInv, SpanMatches
    <3>5. CallsMatch'
      BY <1>t, <2>1, <3>1 DEF BufferInv, CallsMatch, Threads
    <3> QED BY <3>3, <3>4, <3>5 DEF BufferInv
  <2>4. CASE count # 0
    <3>1. ReadLoop(r, arg[r]) /\ count > 0
      BY <1>9, <1>t, <2>4 DEF PeekAtRead
    <3> QED BY <2>1, <2>2, <3>1, ReadLoopPreserves
  <2> QED BY <2>3, <2>4
<1>10. CASE UNCHANGED vars
  BY <1>10 DEF vars, indexVars, seqVars, BufferInv, BufferType, SpanMatches, CallsMatch
<1> QED
  BY <1>1, <1>2, <1>3, <1>4, <1>5, <1>6, <1>7, <1>8, <1>9, <1>10 DEF Next, Calls, Wake

\* The invariant of the circular buffer holds with any number of writers and
\* readers.
THEOREM BufferInvariant == Spec => []BufferInv
BY InitEstablishes, StepPreserves, PTL DEF Spec

\* circular_buffer_first and circular_buffer_next always span the bytes that
\* are in the buffer, and circular_buffer_peek_at accepts exactly the numbers
\* of bytes in the buffer unless only seq_end has wrapped around.
THEOREM SequenceNumbersSpan == Spec => []SeqSpansContents
<1>1. BufferInv => SeqSpansContents
  <2> SUFFICES ASSUME BufferInv
               PROVE  SeqSpansContents
    OBVIOUS
  <2>0. /\ maxsize \in Nat \ {0} /\ SeqMod \in Nat \ {0} /\ SeqMod > maxsize
        /\ count \in 0..maxsize
        /\ seq_start \in 0..(SeqMod - 1) /\ seq_end \in 0..(SeqMod - 1)
        /\ seq_end = seq_start + count \/ seq_end = seq_start + count - SeqMod
    BY BufferAssumption DEF BufferInv, BufferType, SpanMatches, Seqs
  <2>1. \A a \in 0..(SeqMod - 1) :
           (a - seq_start) % SeqMod = IF seq_start <= a THEN a - seq_start
                                      ELSE a - seq_start + SeqMod
    <3> TAKE a \in 0..(SeqMod - 1)
    <3>1. CASE seq_start <= a
      <4>1. a - seq_start \in 0..(SeqMod - 1)
        BY <2>0, <3>1
      <4> QED BY <2>0, <3>1, <4>1, FirstLap
    <3>2. CASE ~(seq_start <= a)
      <4>1. a - seq_start \in (-SeqMod)..(-1)
        BY <2>0, <3>2
      <4>2. \A y \in (-SeqMod)..(-1) : y % SeqMod = y + SeqMod
        BY <2>0, LapBefore
      <4>3. PICK y \in (-SeqMod)..(-1) : y = a - seq_start
        BY <4>1
      <4>4. y % SeqMod = y + SeqMod
        BY <4>2
      <4> QED BY <2>0, <3>2, <4>3, <4>4
    <3> QED BY <3>1, <3>2
  <2>2. (seq_end - seq_start) % SeqMod = count
    <3>1. (seq_end - seq_start) % SeqMod =
            IF seq_start <= seq_end THEN seq_end - seq_start
            ELSE seq_end - seq_start + SeqMod
      BY <2>0, <2>1
    <3> QED BY <2>0, <3>1
  <2>3. ASSUME NEW at \in Seqs
        PROVE  PeekAtValid(at) <=> (at - seq_start) % SeqMod < count /\ seq_start <= seq_end
    <3>0. at \in 0..(SeqMod - 1)
      BY DEF Seqs
    <3>1. (at - seq_start) % SeqMod = IF seq_start <= at THEN at - seq_start
                                      ELSE at - seq_start + SeqMod
      BY <2>1, <3>0
    <3> QED BY <2>0, <3>0, <3>1 DEF PeekAtValid
  <2> QED BY <2>2, <2>3 DEF SeqSpansContents
<1> QED BY <1>1, BufferInvariant, PTL

-----------------------------------------------------------------------------
(* With one reader, the buffer implements a stream of bytes.               *)

\* Init is the empty stream.
LEMMA InitImplements == Init => Stream!StreamInit
<1> SUFFICES ASSUME Init
             PROVE  Stream!StreamInit
  OBVIOUS
<1>1. /\ todo = [w \in Writers |-> <<>>] /\ dst = <<>> /\ closed = FALSE /\ count = 0
  BY DEF Init
<1>2. Contents = <<>>
  <2>1. ContentsRead
    BY InitEstablishes, ContentsCells
  <2>2. Contents \in Seq(Bytes) /\ Len(Contents) = 0
    BY <1>1, <2>1 DEF ContentsRead
  <2> QED BY <2>2, EmptySeq
<1> QED BY <1>1, <1>2 DEF Stream!StreamInit

\* The loop of a write moves bytes from the front of what the writer offers
\* to the end of the stream, or withdraws the offer if the buffer is closed.
LEMMA WriteLoopImplements ==
    ASSUME BufferInv, BufferInv', NEW w \in Writers,
           WriteLoop(w, SubSeq(todo[w], 1, Lesser(Len(todo[w]), maxsize))),
           UNCHANGED <<start, closed, seq_start, dst>>
    PROVE  Stream!StreamNext
<1>0. /\ maxsize \in Nat /\ count \in 0..maxsize /\ todo[w] \in Seq(Bytes)
      /\ Len(Contents) = count
  BY BufferAssumption, ContentsCells DEF BufferInv, BufferType, ContentsRead
<1>1. CASE closed
  <2>1. /\ todo' = [todo EXCEPT ![w] = <<>>]
        /\ UNCHANGED <<data, count, start, closed, dst>>
    BY <1>1 DEF WriteLoop
  <2>2. Contents' = Contents
    BY <2>1 DEF Contents
  <2>3. Stream!Withdraw(w)
    BY <1>1, <2>1, <2>2 DEF Stream!Withdraw
  <2> QED BY <2>3 DEF Stream!StreamNext
<1>2. CASE ~closed
  <2>1. PICK d \in Seq(Bytes) : d = SubSeq(todo[w], 1, Lesser(Len(todo[w]), maxsize))
    BY <1>0, WriteArgument
  <2>2. PICK k \in 0..maxsize : k = Lesser(Len(d), maxsize - count)
    <3>1. Len(d) \in Nat
      BY LenProperties
    <3>2. Lesser(Len(d), maxsize - count) \in 0..maxsize
      BY <1>0, <3>1 DEF Lesser
    <3> QED BY <3>2
  <2>3. Len(d) \in Nat /\ k \in 0..Len(d) /\ k <= maxsize - count
    <3>1. Len(d) \in Nat
      BY LenProperties
    <3> QED BY <1>0, <2>2, <3>1 DEF Lesser
  <2>4. CopyIn(d, k) /\ todo' = [todo EXCEPT ![w] = SubSeq(d, k + 1, Len(d))]
    BY <1>2, <2>1, <2>2 DEF WriteLoop
  <2>5. Contents' = Contents \o SubSeq(d, 1, k)
    BY <2>3, <2>4, CopyInAppends
  <2>6. d = SubSeq(todo[w], 1, IF Len(todo[w]) > maxsize THEN maxsize ELSE Len(todo[w]))
    <3>1. Len(todo[w]) \in Nat
      BY <1>0, LenProperties
    <3>2. Lesser(Len(todo[w]), maxsize)
            = IF Len(todo[w]) > maxsize THEN maxsize ELSE Len(todo[w])
      BY <1>0, <3>1 DEF Lesser
    <3> QED BY <2>1, <3>2
  <2>7. k <= Len(d) /\ Len(Contents) + k <= maxsize
    BY <1>0, <2>3
  <2>8. Stream!Put(w, k)
    BY <1>2, <2>4, <2>5, <2>6, <2>7 DEF Stream!Put
  <2> QED BY <2>8 DEF Stream!StreamNext
<1> QED BY <1>1, <1>2

\* A read takes from the front of the stream, a peek looks into it.
LEMMA ReadLoopImplements ==
    ASSUME BufferInv, BufferInv', NEW r \in Readers, NEW x \in Args,
           x.len >= 1, count > 0 => x.offset < count, ~x.peeking => x.offset = 0,
           ReadLoop(r, x)
    PROVE  Stream!StreamNext \/ UNCHANGED Stream!streamVars
<1>t. /\ maxsize \in Nat \ {0} /\ SeqMod \in Nat \ {0} /\ SeqMod > maxsize
      /\ MaxLen \in Nat
      /\ start \in 0..maxsize /\ count \in 0..maxsize
      /\ x.len \in 0..MaxLen /\ x.offset \in 0..(SeqMod - 1) /\ x.peeking \in BOOLEAN
      /\ Len(Contents) = count
  <2>1. /\ maxsize \in Nat \ {0} /\ SeqMod \in Nat \ {0} /\ SeqMod > maxsize
        /\ MaxLen \in Nat
    BY BufferAssumption
  <2>2. start \in 0..maxsize /\ count \in 0..maxsize
    BY DEF BufferInv, BufferType
  <2>3. x.len \in 0..MaxLen /\ x.offset \in 0..(SeqMod - 1) /\ x.peeking \in BOOLEAN
    BY DEF Args, Seqs
  <2>4. Len(Contents) = count
    BY ContentsCells DEF ContentsRead
  <2> QED BY <2>1, <2>2, <2>3, <2>4
<1>1. UNCHANGED <<data, end, closed, seq_end, todo>>
  BY DEF ReadLoop
<1>2. CASE count = 0
  <2>1. UNCHANGED <<start, count, dst>>
    BY <1>2 DEF ReadLoop
  <2>2. Contents' = Contents
    BY <1>1, <2>1 DEF Contents
  <2> QED BY <1>1, <2>1, <2>2 DEF Stream!streamVars
<1>3. CASE count # 0
  <2>1. PICK off \in 0..(count - 1) : off = x.offset
    <3>1. x.offset \in 0..(count - 1)
      BY <1>t, <1>3
    <3> QED BY <3>1
  <2>2. PICK n \in 1..(count - off) : n = Lesser(x.len, (count - x.offset) % SeqMod)
    <3>1. count - off \in 0..(SeqMod - 1)
      BY <1>t
    <3>2. (count - off) % SeqMod = count - off
      BY <1>t, <3>1, FirstLap
    <3>3. Lesser(x.len, count - off) \in 1..(count - off)
      BY <1>t DEF Lesser
    <3> QED BY <2>1, <3>2, <3>3
  <2>3. /\ dst' = CopyOut((start + off) % maxsize, n)
        /\ Consume((start + off) % maxsize, n, x.peeking)
    BY <1>3, <2>1, <2>2 DEF ReadLoop
  <2>4. dst' = SubSeq(Contents, off + 1, off + n)
    BY <2>3, CopyOutShows
  <2>5. CASE x.peeking
    <3>1. UNCHANGED <<start, count>>
      BY <2>3, <2>5 DEF Consume
    <3>2. Contents' = Contents
      BY <1>1, <3>1 DEF Contents
    <3>3. PICK from \in 1..Len(Contents) : from = off + 1
      <4>1. off + 1 \in 1..Len(Contents)
        BY <1>t
      <4> QED BY <4>1
    <3>4. n \in 1..(Len(Contents) - from + 1) /\ off + n = from + n - 1
      BY <1>t, <3>3
    <3>5. dst' = SubSeq(Contents, from, from + n - 1)
      BY <2>4, <3>3, <3>4
    <3>6. Stream!Look(from, n)
      BY <1>1, <3>2, <3>5 DEF Stream!Look
    <3> QED BY <3>4, <3>6 DEF Stream!StreamNext
  <2>6. CASE ~x.peeking
    <3>1. off = 0 /\ x.peeking = FALSE
      BY <1>t, <2>1, <2>6
    <3>2. start + off = start /\ off + 1 = 1 /\ off + n = n /\ n \in 1..Len(Contents)
          /\ n \in 1..count
      BY <1>t, <3>1
    <3>3. Consume(start % maxsize, n, FALSE) /\ dst' = SubSeq(Contents, 1, n)
      BY <2>3, <2>4, <3>1, <3>2
    <3>4. Contents' = SubSeq(Contents, n + 1, Len(Contents))
      BY <1>1, <3>2, <3>3, ConsumeDrops
    <3>5. Stream!Take(n)
      BY <1>1, <3>3, <3>4 DEF Stream!Take
    <3> QED BY <3>2, <3>5 DEF Stream!StreamNext
  <2> QED BY <2>5, <2>6
<1> QED BY <1>2, <1>3

\* With one reader, nothing is taken from the buffer between the test of
\* circular_buffer_peek_at and its read.
LEMMA PeekPreserved ==
    ASSUME OneReader
    PROVE  BufferInv /\ BufferInv' /\ PeekInside /\ [Next]_vars => PeekInside'
<1> SUFFICES ASSUME BufferInv, BufferInv', PeekInside, [Next]_vars,
                    NEW q \in Readers, pc'[q] = "peek_at"
             PROVE  arg'[q].offset < count'
  BY DEF PeekInside
<1>t. /\ maxsize \in Nat \ {0} /\ SeqMod \in Nat \ {0} /\ SeqMod > maxsize
      /\ count \in 0..maxsize
      /\ seq_start \in 0..(SeqMod - 1) /\ seq_end \in 0..(SeqMod - 1)
      /\ pc \in [Threads -> {"idle", "write", "try_write", "read", "peek_at"}]
      /\ arg \in [Readers -> Args]
      /\ todo \in [Writers -> Seq(Bytes)]
      /\ seq_end = seq_start + count \/ seq_end = seq_start + count - SeqMod
  <2>1. maxsize \in Nat \ {0} /\ SeqMod \in Nat \ {0} /\ SeqMod > maxsize
    BY BufferAssumption
  <2>2. /\ count \in 0..maxsize
        /\ pc \in [Threads -> {"idle", "write", "try_write", "read", "peek_at"}]
        /\ arg \in [Readers -> Args]
        /\ todo \in [Writers -> Seq(Bytes)]
    BY DEF BufferInv, BufferType
  <2>3. /\ seq_start \in 0..(SeqMod - 1) /\ seq_end \in 0..(SeqMod - 1)
        /\ seq_end = seq_start + count \/ seq_end = seq_start + count - SeqMod
    BY DEF BufferInv, BufferType, SpanMatches, Seqs
  <2> QED BY <2>1, <2>2, <2>3
<1>q. q \in Threads /\ arg[q].offset \in 0..(SeqMod - 1) /\ \A r \in Readers : r = q
  BY <1>t DEF Threads, Args, Seqs, OneReader
<1>1. ASSUME UNCHANGED <<pc, arg, count>>
      PROVE  arg'[q].offset < count'
  BY <1>1 DEF PeekInside
<1>2. ASSUME NEW x \in InitialSeqs, SetSeqInitial(x)
      PROVE  arg'[q].offset < count'
  BY <1>1, <1>2 DEF SetSeqInitial, indexVars
<1>3. ASSUME NEW w \in Writers, NEW d, NEW blocking \in BOOLEAN, Write(w, d, blocking)
      PROVE  arg'[q].offset < count'
  <2>1. /\ pc' = [pc EXCEPT ![w] = IF blocking THEN "write" ELSE "try_write"]
        /\ UNCHANGED <<arg, count>>
    BY <1>3 DEF Write, indexVars
  <2>2. pc[q] = "peek_at"
    BY <1>t, <1>q, <2>1
  <2> QED BY <2>1, <2>2 DEF PeekInside
<1>4. ASSUME NEW r \in Readers, pc'[r] # "peek_at"
      PROVE  FALSE
  BY <1>4, <1>q
<1>5. ASSUME NEW r \in Readers, NEW x, ReadLoop(r, x)
      PROVE  FALSE
  <2>1. pc' = [pc EXCEPT ![r] = "idle"] \/ pc' = [pc EXCEPT ![r] = "read"]
    BY <1>5 DEF ReadLoop, ReadReturns, ReadSleeps
  <2>2. r \in Threads
    BY DEF Threads
  <2>3. pc'[r] # "peek_at"
    BY <1>t, <2>1, <2>2
  <2> QED BY <1>4, <2>3
<1>6. ASSUME NEW r \in Readers, NEW at \in Seqs, NEW len, PeekAt(r, at, len)
      PROVE  arg'[q].offset < count'
  <2>1. /\ arg' = [arg EXCEPT ![r] = [len |-> len, offset |-> at - seq_start, peeking |-> TRUE]]
        /\ count' = count
        /\ at >= seq_start /\ at < seq_end
    BY <1>6 DEF PeekAt, PeekAtValid, indexVars
  <2>2. r = q
    BY <1>q
  <2>3. arg'[q].offset = at - seq_start
    BY <1>t, <2>1, <2>2
  <2>4. at \in 0..(SeqMod - 1)
    BY DEF Seqs
  <2> QED BY <1>t, <2>1, <2>3, <2>4
<1>7. CASE Close
  BY <1>1, <1>7 DEF Close, indexVars
<1>8. ASSUME NEW w \in Writers, NEW d \in Seq(Bytes), WriteLoop(w, d), UNCHANGED arg
      PROVE  arg'[q].offset < count'
  <2>1. pc' = [pc EXCEPT ![w] = "idle"] \/ pc' = [pc EXCEPT ![w] = "write"]
    BY <1>8 DEF WriteLoop
  <2>2. pc[q] = "peek_at"
    BY <1>t, <1>q, <2>1
  <2>3. arg[q].offset < count
    BY <2>2 DEF PeekInside
  <2>4. CASE closed
    BY <1>8, <2>3, <2>4 DEF WriteLoop
  <2>5. CASE ~closed
    <3>1. Len(d) \in Nat
      BY LenProperties
    <3>2. PICK k \in Nat : k = Lesser(Len(d), maxsize - count)
      <4>1. Lesser(Len(d), maxsize - count) \in Nat
        BY <1>t, <3>1 DEF Lesser
      <4> QED BY <4>1
    <3>3. count' = count + k
      BY <1>8, <2>5, <3>2 DEF WriteLoop, CopyIn
    <3> QED BY <1>t, <1>q, <1>8, <2>3, <3>2, <3>3
  <2> QED BY <2>4, <2>5
<1>9. ASSUME NEW w \in Writers, WriteWake(w)
      PROVE  arg'[q].offset < count'
  <2>1. todo[w] \in Seq(Bytes)
    BY <1>t
  <2>2. SubSeq(todo[w], 1, Lesser(Len(todo[w]), maxsize)) \in Seq(Bytes)
    BY <2>1, WriteArgument
  <2> QED BY <1>8, <1>9, <2>2 DEF WriteWake
<1>10. ASSUME NEW w \in Writers, TryWrite(w)
       PROVE  arg'[q].offset < count'
  <2>1. todo[w] \in Seq(Bytes)
    BY <1>t
  <2>2. CASE count + Len(todo[w]) > maxsize
    <3>1. pc' = [pc EXCEPT ![w] = "idle"] /\ UNCHANGED <<arg, count>>
      BY <1>10, <2>2 DEF TryWrite
    <3>2. pc[q] = "peek_at"
      BY <1>t, <1>q, <3>1
    <3> QED BY <3>1, <3>2 DEF PeekInside
  <2>3. CASE ~(count + Len(todo[w]) > maxsize)
    BY <1>8, <1>10, <2>1, <2>3 DEF TryWrite
  <2> QED BY <2>2, <2>3
<1>11. ASSUME NEW r \in Readers, PeekAtRead(r)
       PROVE  FALSE
  <2>1. CASE count = 0
    <3>1. pc' = [pc EXCEPT ![r] = "idle"] /\ r \in Threads
      BY <1>11, <2>1 DEF PeekAtRead, ReadReturns, Threads
    <3>2. pc'[r] # "peek_at"
      BY <1>t, <3>1
    <3> QED BY <1>4, <3>2
  <2>2. CASE count # 0
    BY <1>5, <1>11, <2>2 DEF PeekAtRead
  <2> QED BY <2>1, <2>2
<1>12. ASSUME NEW r \in Readers, ReadWake(r)
       PROVE  FALSE
  BY <1>5, <1>12 DEF ReadWake
<1>13. ASSUME NEW r \in Readers, NEW len, NEW blocking, NEW peek, Read(r, len, blocking, peek)
       PROVE  FALSE
  BY <1>5, <1>13 DEF Read
<1>14. CASE UNCHANGED vars
  BY <1>1, <1>14 DEF vars, indexVars
<1> QED
  BY <1>2, <1>3, <1>6, <1>7, <1>9, <1>10, <1>11, <1>12, <1>13, <1>14 DEF Next, Calls, Wake

\* Every step of the buffer is a step of the stream, or leaves it alone.
LEMMA StepImplements ==
    BufferInv /\ BufferInv' /\ PeekInside /\ [Next]_vars
        => [Stream!StreamNext]_(Stream!streamVars)
<1> SUFFICES ASSUME BufferInv, BufferInv', PeekInside, [Next]_vars
             PROVE  Stream!StreamNext \/ UNCHANGED Stream!streamVars
  OBVIOUS
<1>t. /\ maxsize \in Nat \ {0} /\ SeqMod \in Nat \ {0} /\ MaxLen \in Nat
      /\ count \in 0..maxsize
      /\ todo \in [Writers -> Seq(Bytes)]
      /\ arg \in [Readers -> Args]
      /\ Len(Contents) = count
  BY BufferAssumption, ContentsCells DEF BufferInv, BufferType, ContentsRead
<1>1. ASSUME UNCHANGED <<data, start, count, todo, dst, closed>>
      PROVE  UNCHANGED Stream!streamVars
  <2>1. Contents' = Contents
    BY <1>1 DEF Contents
  <2> QED BY <1>1, <2>1 DEF Stream!streamVars
<1>2. ASSUME NEW x \in InitialSeqs, SetSeqInitial(x)
      PROVE  UNCHANGED Stream!streamVars
  BY <1>1, <1>2 DEF SetSeqInitial, indexVars
<1>3. ASSUME NEW w \in Writers, NEW d \in Strings(MaxLen) \ {<<>>}, NEW blocking \in BOOLEAN,
             Write(w, d, blocking)
      PROVE  Stream!StreamNext
  <2>1. PICK n \in 0..MaxLen : d \in [1..n -> Bytes]
    BY DEF Strings
  <2>2. n \in 1..MaxLen
    <3>1. n # 0
      <4> SUFFICES ASSUME n = 0
                   PROVE  FALSE
        OBVIOUS
      <4>1. d \in Seq(Bytes)
        BY <1>t, <2>1, SeqDef
      <4>2. DOMAIN d = 1..0 /\ DOMAIN d = 1..Len(d) /\ Len(d) \in Nat
        BY <2>1, <4>1, LenProperties
      <4>3. Len(d) = 0
        BY <4>2, SameInterval
      <4> QED BY <4>1, <4>3, EmptySeq
    <3> QED BY <1>t, <3>1
  <2>3. /\ pc[w] = "idle" /\ todo' = [todo EXCEPT ![w] = d]
        /\ UNCHANGED <<data, start, count, closed, dst>>
    BY <1>3 DEF Write, indexVars
  <2>4. todo[w] = <<>>
    BY <2>3 DEF BufferInv, CallsMatch
  <2>5. Contents' = Contents
    BY <2>3 DEF Contents
  <2>6. Stream!Offer(w, d)
    BY <2>3, <2>4, <2>5 DEF Stream!Offer
  <2> QED BY <2>1, <2>2, <2>6 DEF Stream!StreamNext
<1>4. ASSUME NEW r \in Readers, NEW len \in 1..MaxLen, NEW blocking \in BOOLEAN,
             NEW peek \in BOOLEAN, Read(r, len, blocking, peek)
      PROVE  Stream!StreamNext \/ UNCHANGED Stream!streamVars
  <2> DEFINE x == [len |-> len, offset |-> 0, peeking |-> peek]
  <2>1. x \in Args /\ x.offset = 0 /\ x.len >= 1
    BY <1>t DEF Args, Seqs
  <2>2. ReadLoop(r, x)
    BY <1>4 DEF Read
  <2> HIDE DEF x
  <2>3. count > 0 => x.offset < count
    BY <2>1
  <2> QED BY <2>1, <2>2, <2>3, ReadLoopImplements
<1>5. ASSUME NEW r \in Readers, NEW at \in Seqs, NEW len, PeekAt(r, at, len)
      PROVE  UNCHANGED Stream!streamVars
  BY <1>1, <1>5 DEF PeekAt, indexVars
<1>6. CASE Close
  <2>1. closed' = TRUE /\ UNCHANGED <<data, start, count, todo, dst>>
    BY <1>6 DEF Close, indexVars
  <2>2. Contents' = Contents
    BY <2>1 DEF Contents
  <2>3. Stream!Close
    BY <2>1, <2>2 DEF Stream!Close
  <2> QED BY <2>3 DEF Stream!StreamNext
<1>7. ASSUME NEW w \in Writers, WriteWake(w)
      PROVE  Stream!StreamNext
  BY <1>7, WriteLoopImplements DEF WriteWake
<1>8. ASSUME NEW w \in Writers, TryWrite(w)
      PROVE  Stream!StreamNext
  <2>1. todo[w] \in Seq(Bytes) /\ Len(todo[w]) \in Nat
    BY <1>t, LenProperties
  <2>2. CASE count + Len(todo[w]) > maxsize
    <3>1. todo' = [todo EXCEPT ![w] = <<>>] /\ UNCHANGED <<data, start, count, closed, dst>>
      BY <1>8, <2>2 DEF TryWrite
    <3>2. Contents' = Contents
      BY <3>1 DEF Contents
    <3>3. Stream!Withdraw(w)
      BY <1>t, <2>2, <3>1, <3>2 DEF Stream!Withdraw
    <3> QED BY <3>3 DEF Stream!StreamNext
  <2>3. CASE ~(count + Len(todo[w]) > maxsize)
    <3>1. Len(todo[w]) <= maxsize
      BY <1>t, <2>1, <2>3
    <3>2. SubSeq(todo[w], 1, Lesser(Len(todo[w]), maxsize)) = todo[w]
      BY <2>1, <3>1, WriteArgument
    <3>3. WriteLoop(w, todo[w]) /\ UNCHANGED <<start, closed, seq_start, dst>>
      BY <1>8, <2>3 DEF TryWrite
    <3> QED BY <3>2, <3>3, WriteLoopImplements
  <2> QED BY <2>2, <2>3
<1>9. ASSUME NEW r \in Readers, ReadWake(r)
      PROVE  Stream!StreamNext \/ UNCHANGED Stream!streamVars
  <2>1. arg[r] \in Args /\ pc[r] = "read" /\ ReadLoop(r, arg[r])
    BY <1>t, <1>9 DEF ReadWake
  <2>2. arg[r].offset = 0 /\ arg[r].len >= 1
    BY <2>1 DEF BufferInv, CallsMatch
  <2>3. count > 0 => arg[r].offset < count
    BY <2>2
  <2> QED BY <2>1, <2>2, <2>3, ReadLoopImplements
<1>10. ASSUME NEW r \in Readers, PeekAtRead(r)
       PROVE  Stream!StreamNext \/ UNCHANGED Stream!streamVars
  <2>1. arg[r] \in Args /\ pc[r] = "peek_at"
    BY <1>t, <1>10 DEF PeekAtRead
  <2>2. arg[r].peeking /\ arg[r].len >= 1 /\ arg[r].offset < count
    BY <2>1 DEF BufferInv, CallsMatch, PeekInside
  <2>3. CASE count = 0
    BY <1>1, <1>10, <2>3 DEF PeekAtRead, indexVars
  <2>4. CASE count # 0
    <3>1. ReadLoop(r, arg[r])
      BY <1>10, <2>4 DEF PeekAtRead
    <3> QED BY <2>1, <2>2, <3>1, ReadLoopImplements
  <2> QED BY <2>3, <2>4
<1>11. CASE UNCHANGED vars
  BY <1>1, <1>11 DEF vars, indexVars
<1> QED
  BY <1>2, <1>3, <1>4, <1>5, <1>6, <1>7, <1>8, <1>9, <1>10, <1>11 DEF Next, Calls, Wake

\* Whatever the capacity, the bytes and the number of writers, a circular
\* buffer that one thread reads is a bounded stream of bytes: each read
\* returns the oldest bytes, each peek bytes that are in the buffer, and each
\* write appends a prefix of what its caller has yet to write.
THEOREM BufferIsStream ==
    ASSUME OneReader
    PROVE  Spec => ImplementsStream
<1>1. Init => PeekInside
  BY DEF Init, PeekInside, Threads
<1>2. Spec => []PeekInside
  BY <1>1, BufferInvariant, PeekPreserved, PTL DEF Spec
<1> QED
  BY <1>2, BufferInvariant, InitImplements, StepImplements, PTL
  DEF Spec, ImplementsStream, Stream!StreamSpec

=============================================================================
