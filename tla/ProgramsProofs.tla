-------------------------- MODULE ProgramsProofs ---------------------------
(***************************************************************************)
(* Proofs about the programs of MCPrograms.                                *)
(*                                                                         *)
(* Buffer, for any sizes, any set of bytes and any chunks: the indices     *)
(* stay in order and the buffer is a FIFO of bytes.  Each operation has a  *)
(* lemma that says what it does to the readable content; the theorems only *)
(* compose them.                                                           *)
(*                                                                         *)
(* Rpc, for any providers, callers, restarts and failures of zookeeper: a  *)
(* provider finds its node in zookeeper from the moment it made it, since  *)
(* nobody else makes one while there is one, and only the end of the       *)
(* session that made it removes it.  A caller that waits has a request     *)
(* under way, one that was executed, or one that arrived in parts.         *)
(*                                                                         *)
(* Gobang, for boards of any size and any play of the person: checkWin,    *)
(* which looks through the last stone only, sees every five, since a five  *)
(* that was not there before goes through the stone just placed.  And for  *)
(* the program's moves: calculateScore gives at least 30000 to a five of   *)
(* its own that it counts, and a point where it has none at most 20380, or *)
(* 5380 where the person has none either, and 10000 for each open three.   *)
(*                                                                         *)
(* Bubble, for any pages, clicks and lost calls: a row in the table was    *)
(* added and not removed since, but for rows a PUT was writing.  A PUT     *)
(* that found no row is told so, unless another used err in between.  And  *)
(* a page that is not to blame has, at any moment, the rows and statuses   *)
(* of the table but for what the answers still on their way to it tell;    *)
(* with no answer out its list is the table.                               *)
(***************************************************************************)
EXTENDS MCPrograms, SequenceTheorems, FiniteSetTheorems, TLAPS

-----------------------------------------------------------------------------
(* Buffer: its operations.                                                 *)

\* A buffer whose indices are in order.
Sound(b) ==
  /\ b \in [mem : Seq(Bytes), reader : Nat, writer : Nat]
  /\ kCheapPrepend <= b.reader
  /\ b.reader <= b.writer
  /\ b.writer <= Len(b.mem)

\* The readable content is a sequence of bytes.
LEMMA ContentIsSeq ==
  ASSUME NEW b, Sound(b)
  PROVE  /\ Content(b) \in Seq(Bytes)
         /\ Len(Content(b)) = b.writer - b.reader
         /\ \A i \in 1..(b.writer - b.reader) : Content(b)[i] = b.mem[b.reader + i]
<1>1. b.writer - b.reader \in Nat /\ Readable(b) = b.writer - b.reader
  BY DEF Sound, Readable
<1>2. \A i \in 1..Readable(b) : b.mem[b.reader + i] \in Bytes
  BY <1>1, ElementOfSeq DEF Sound
<1>3. Content(b) \in [1..Readable(b) -> Bytes]
  BY <1>2 DEF Content
<1> QED
  BY <1>1, <1>3 DEF Content

\* A new buffer is sound and empty.
LEMMA EmptyIsSound == Sound(Empty) /\ Content(Empty) = <<>>
<1>1. Empty.mem \in [1..(kCheapPrepend + kInitialSize) -> Bytes]
  BY BytesAssumption DEF Empty
<1>2. Empty.mem \in Seq(Bytes) /\ Len(Empty.mem) = kCheapPrepend + kInitialSize
  BY <1>1, SizesAssumption
<1>3. Sound(Empty)
  BY <1>2, SizesAssumption DEF Sound, Empty
<1>4. Len(Content(Empty)) = 0
  BY <1>3, ContentIsSeq, SizesAssumption DEF Empty
<1> QED
  BY <1>3, <1>4, ContentIsSeq, EmptySeq

\* Growing the vector keeps what it holds.
LEMMA ResizeKeepsContent ==
  ASSUME NEW b, Sound(b), NEW size \in Nat, b.writer <= size
  PROVE  /\ Sound(Resize(b, size))
         /\ Len(Resize(b, size).mem) = size
         /\ Resize(b, size).writer = b.writer
         /\ Content(Resize(b, size)) = Content(b)
<1> DEFINE r == Resize(b, size)
<1>1. r.mem \in [1..size -> Bytes]
  BY BytesAssumption, ElementOfSeq DEF Resize, Sound
<1>2. r.mem \in Seq(Bytes) /\ Len(r.mem) = size
  BY <1>1
<1>3. r.reader = b.reader /\ r.writer = b.writer
  BY DEF Resize, Sound
<1>4. Sound(r)
  <2>1. r \in [mem : Seq(Bytes), reader : Nat, writer : Nat]
    BY <1>2 DEF Resize, Sound
  <2> QED
    BY <1>2, <1>3, <2>1 DEF Sound
<1>5. \A i \in 1..(b.writer - b.reader) : r.mem[b.reader + i] = b.mem[b.reader + i]
  <2> TAKE i \in 1..(b.writer - b.reader)
  <2>1. b.reader + i \in 1..size /\ b.reader + i <= Len(b.mem)
    BY DEF Sound
  <2> QED
    BY <2>1 DEF Resize, Sound
<1>6. Content(r) = Content(b)
  BY <1>3, <1>4, <1>5, ContentIsSeq, SeqEqual
<1> QED
  BY <1>2, <1>3, <1>4, <1>6

\* Compaction keeps the content and moves it to the front.
LEMMA MoveKeepsContent ==
  ASSUME NEW b, Sound(b)
  PROVE  /\ Sound(MoveToFront(b))
         /\ Len(MoveToFront(b).mem) = Len(b.mem)
         /\ MoveToFront(b).writer = kCheapPrepend + (b.writer - b.reader)
         /\ Content(MoveToFront(b)) = Content(b)
<1> DEFINE r == MoveToFront(b)
           n == b.writer - b.reader
<1>1. n \in Nat /\ Readable(b) = n /\ kCheapPrepend \in Nat /\ kCheapPrepend + n <= Len(b.mem)
  BY SizesAssumption DEF Sound, Readable
<1>2. r.mem \in [1..Len(b.mem) -> Bytes]
  <2>1. \A i \in 1..Len(b.mem) : i - kCheapPrepend \in 1..n =>
            b.reader + (i - kCheapPrepend) \in 1..Len(b.mem)
    BY <1>1 DEF Sound
  <2> QED
    BY <1>1, <2>1, ElementOfSeq DEF MoveToFront, Sound
<1>3. r.mem \in Seq(Bytes) /\ Len(r.mem) = Len(b.mem)
  <2>1. Len(b.mem) \in Nat
    BY DEF Sound
  <2> QED
    BY <1>2, <2>1
<1>4. r.reader = kCheapPrepend /\ r.writer = kCheapPrepend + n
  BY <1>1 DEF MoveToFront
<1>5. Sound(r)
  <2>1. r \in [mem : Seq(Bytes), reader : Nat, writer : Nat]
    BY <1>1, <1>3 DEF MoveToFront
  <2> QED
    BY <1>1, <1>3, <1>4, <2>1 DEF Sound
<1>6. \A i \in 1..n : r.mem[kCheapPrepend + i] = b.mem[b.reader + i]
  <2> TAKE i \in 1..n
  <2>1. kCheapPrepend + i \in 1..Len(b.mem) /\ (kCheapPrepend + i) - kCheapPrepend = i
    BY <1>1 DEF Sound
  <2> QED
    BY <1>1, <2>1 DEF MoveToFront
<1>7. Content(r) = Content(b)
  <2>1. r.writer - r.reader = n
    BY <1>1, <1>4
  <2> QED
    BY <1>4, <1>5, <1>6, <2>1, ContentIsSeq, SeqEqual
<1> QED
  BY <1>3, <1>4, <1>5, <1>7

\* ensureWriteableBytes makes room without touching the content.
LEMMA EnsureMakesRoom ==
  ASSUME NEW b, Sound(b), NEW len \in Nat
  PROVE  /\ Sound(EnsureWriteableBytes(b, len))
         /\ Content(EnsureWriteableBytes(b, len)) = Content(b)
         /\ len <= Writable(EnsureWriteableBytes(b, len))
<1>1. CASE ~(Writable(b) < len)
  BY <1>1 DEF EnsureWriteableBytes, Sound, Writable
<1>2. CASE Writable(b) < len
  <2>1. EnsureWriteableBytes(b, len) = MakeSpace(b, len)
    BY <1>2 DEF EnsureWriteableBytes
  <2>2. CASE Writable(b) + Prependable(b) < len + kCheapPrepend
    <3>1. MakeSpace(b, len) = Resize(b, b.writer + len)
      BY <2>2 DEF MakeSpace
    <3>2. b.writer + len \in Nat /\ b.writer <= b.writer + len
      BY DEF Sound
    <3>3. Writable(Resize(b, b.writer + len)) = len
      BY <3>2, ResizeKeepsContent DEF Writable, Sound
    <3> QED
      BY <2>1, <3>1, <3>2, <3>3, ResizeKeepsContent
  <2>3. CASE ~(Writable(b) + Prependable(b) < len + kCheapPrepend)
    <3>1. MakeSpace(b, len) = MoveToFront(b)
      BY <2>3 DEF MakeSpace
    <3>2. len <= Writable(MoveToFront(b))
      BY <2>3, MoveKeepsContent, SizesAssumption DEF Writable, Prependable, Sound
    <3> QED
      BY <2>1, <3>1, <3>2, MoveKeepsContent
  <2> QED
    BY <2>2, <2>3
<1> QED
  BY <1>1, <1>2

\* A copy that fits appends to the content.
LEMMA CopyAppends ==
  ASSUME NEW b, Sound(b), NEW d \in Seq(Bytes), Len(d) <= Writable(b)
  PROVE  /\ Sound(CopyIn(b, d))
         /\ Content(CopyIn(b, d)) = Content(b) \o d
<1> DEFINE r == CopyIn(b, d)
           n == b.writer - b.reader
<1>1. n \in Nat /\ Len(d) \in Nat /\ Len(b.mem) \in Nat /\ b.writer + Len(d) <= Len(b.mem)
  BY DEF Sound, Writable
<1>2. r.mem \in [1..Len(b.mem) -> Bytes]
  BY <1>1, ElementOfSeq DEF CopyIn, Sound
<1>3. r.mem \in Seq(Bytes) /\ Len(r.mem) = Len(b.mem)
  BY <1>1, <1>2
<1>4. r.reader = b.reader /\ r.writer = b.writer + Len(d)
  BY DEF CopyIn, Sound
<1>5. Sound(r)
  <2>1. b.writer + Len(d) \in Nat
    BY <1>1 DEF Sound
  <2>2. r \in [mem : Seq(Bytes), reader : Nat, writer : Nat]
    BY <1>3, <2>1 DEF CopyIn, Sound
  <2> QED
    BY <1>1, <1>3, <1>4, <2>2 DEF Sound
<1>6. \A i \in 1..n : r.mem[b.reader + i] = b.mem[b.reader + i]
  <2> TAKE i \in 1..n
  <2>1. b.reader + i \in 1..Len(b.mem) /\ (b.reader + i) - b.writer \notin 1..Len(d)
    BY <1>1 DEF Sound
  <2> QED
    BY <2>1 DEF CopyIn, Sound
<1>7. \A i \in (n + 1)..(n + Len(d)) : r.mem[b.reader + i] = d[i - n]
  <2> TAKE i \in (n + 1)..(n + Len(d))
  <2>1. /\ b.reader + i \in 1..Len(b.mem)
        /\ (b.reader + i) - b.writer = i - n
        /\ i - n \in 1..Len(d)
    BY <1>1 DEF Sound
  <2> QED
    BY <2>1 DEF CopyIn, Sound
<1>8. Content(r) = Content(b) \o d
  <2>1. Len(Content(r)) = n + Len(d) /\ Content(r) \in Seq(Bytes)
    BY <1>1, <1>4, <1>5, ContentIsSeq DEF Sound
  <2>2. /\ Content(b) \o d \in Seq(Bytes)
        /\ Len(Content(b) \o d) = n + Len(d)
        /\ \A i \in 1..(n + Len(d)) :
             (Content(b) \o d)[i] = IF i <= n THEN Content(b)[i] ELSE d[i - n]
    <3>1. Content(b) \in Seq(Bytes) /\ Len(Content(b)) = n
      BY ContentIsSeq
    <3> HIDE DEF n
    <3> QED
      BY <3>1, ConcatProperties
  <2>3. \A i \in 1..(n + Len(d)) : Content(r)[i] = (Content(b) \o d)[i]
    <3> TAKE i \in 1..(n + Len(d))
    <3>1. Content(r)[i] = r.mem[b.reader + i]
      <4>1. r.writer - r.reader = n + Len(d)
        BY <1>1, <1>4 DEF Sound
      <4> HIDE DEF r
      <4> QED
        BY <1>4, <1>5, <4>1, ContentIsSeq
    <3>2. CASE i <= n
      BY <1>1, <1>6, <2>2, <3>1, <3>2, ContentIsSeq
    <3>3. CASE ~(i <= n)
      BY <1>1, <1>7, <2>2, <3>1, <3>3
    <3> QED
      BY <3>2, <3>3
  <2> QED
    BY <2>1, <2>2, <2>3, SeqEqual
<1> QED
  BY <1>5, <1>8

\* append() appends, whatever room there was.
LEMMA AppendAppends ==
  ASSUME NEW b, Sound(b), NEW d \in Seq(Bytes)
  PROVE  /\ Sound(AppendTo(b, d))
         /\ Content(AppendTo(b, d)) = Content(b) \o d
<1>1. Len(d) \in Nat
  OBVIOUS
<1> QED
  BY <1>1, EnsureMakesRoom, CopyAppends DEF AppendTo

\* readFd appends what it read, with or without a spill into extrabuf.
LEMMA ReadAppends ==
  ASSUME NEW b, Sound(b), NEW d \in Seq(Bytes)
  PROVE  /\ Sound(ReadIn(b, d))
         /\ Content(ReadIn(b, d)) = Content(b) \o d
<1>1. CASE Len(d) <= Writable(b)
  BY <1>1, CopyAppends DEF ReadIn
<1>2. CASE ~(Len(d) <= Writable(b))
  <2> DEFINE n == Writable(b)
             d1 == SubSeq(d, 1, n)
             d2 == SubSeq(d, n + 1, Len(d))
  <2>1. n \in Nat /\ n < Len(d) /\ Len(d) \in Nat
    BY <1>2 DEF Sound, Writable
  <2>2. d1 \in Seq(Bytes) /\ Len(d1) = n /\ d2 \in Seq(Bytes)
    BY <2>1, SubSeqProperties, ElementOfSeq
  <2>3. d1 \o d2 = d
    <3>1. d1 \o d2 = SubSeq(d, 1, Len(d))
      BY <2>1, ConcatAdjacentSubSeq
    <3> QED
      BY <3>1, SubSeqFull
  <2>4. ReadIn(b, d) = AppendTo(CopyIn(b, d1), d2)
    BY <1>2 DEF ReadIn
  <2>5. Sound(CopyIn(b, d1)) /\ Content(CopyIn(b, d1)) = Content(b) \o d1
    <3>1. Len(d1) <= Writable(b)
      BY <2>1, <2>2
    <3> HIDE DEF d1
    <3> QED
      BY <2>2, <3>1, CopyAppends
  <2>6. /\ Sound(AppendTo(CopyIn(b, d1), d2))
        /\ Content(AppendTo(CopyIn(b, d1), d2)) = (Content(b) \o d1) \o d2
    BY <2>2, <2>5, AppendAppends
  <2>7. (Content(b) \o d1) \o d2 = Content(b) \o d
    <3>1. Content(b) \in Seq(Bytes)
      BY ContentIsSeq
    <3> HIDE DEF d1, d2
    <3>2. (Content(b) \o d1) \o d2 = Content(b) \o (d1 \o d2)
      BY <2>2, <3>1, ConcatAssociative
    <3> QED
      BY <2>3, <3>2
  <2> QED
    BY <2>4, <2>6, <2>7
<1> QED
  BY <1>1, <1>2

\* retrieve(n) takes exactly the first n readable bytes.
LEMMA RetrieveTakesFront ==
  ASSUME NEW b, Sound(b), NEW n \in 0..Readable(b)
  PROVE  /\ Sound(Retrieve(b, n))
         /\ SubSeq(Content(b), 1, n) \in Seq(Bytes)
         /\ SubSeq(Content(b), 1, n) \o Content(Retrieve(b, n)) = Content(b)
<1> DEFINE c == Content(b)
           m == Readable(b)
           r == Retrieve(b, n)
<1>1. /\ m = b.writer - b.reader /\ m \in Nat /\ n \in Nat /\ n <= m
      /\ c \in Seq(Bytes) /\ Len(c) = m
  BY ContentIsSeq DEF Sound, Readable
<1>2. SubSeq(c, 1, n) \in Seq(Bytes)
  BY <1>1, SubSeqProperties, ElementOfSeq
<1>3. CASE n < m
  <2>1. r.reader = b.reader + n /\ r.writer = b.writer /\ r.mem = b.mem
    BY <1>1, <1>3 DEF Retrieve, Sound
  <2>2. Sound(r)
    <3>1. r \in [mem : Seq(Bytes), reader : Nat, writer : Nat]
      BY <1>1, <1>3 DEF Retrieve, Sound
    <3> QED
      BY <1>1, <1>3, <2>1, <3>1, SizesAssumption DEF Sound
  <2>3. Content(r) = SubSeq(c, n + 1, m)
    <3>1. /\ SubSeq(c, n + 1, m) \in Seq(Bytes)
          /\ Len(SubSeq(c, n + 1, m)) = m - n
          /\ \A i \in 1..(m - n) : SubSeq(c, n + 1, m)[i] = c[n + i]
      BY <1>1, <1>3, SubSeqProperties, ElementOfSeq
    <3>2. /\ Content(r) \in Seq(Bytes)
          /\ Len(Content(r)) = m - n
          /\ \A i \in 1..(m - n) : Content(r)[i] = b.mem[(b.reader + n) + i]
      <4>1. r.writer - r.reader = m - n
        BY <1>1, <2>1 DEF Sound
      <4> HIDE DEF r, m
      <4> QED
        BY <2>1, <2>2, <4>1, ContentIsSeq
    <3>3. \A i \in 1..(m - n) : c[n + i] = b.mem[b.reader + (n + i)]
      BY <1>1, ContentIsSeq
    <3>4. \A i \in 1..(m - n) : b.reader + (n + i) = (b.reader + n) + i
      BY <1>1 DEF Sound
    <3>5. \A i \in 1..(m - n) : Content(r)[i] = SubSeq(c, n + 1, m)[i]
      BY <3>1, <3>2, <3>3, <3>4
    <3> QED
      BY <3>1, <3>2, <3>5, SeqEqual
  <2>4. SubSeq(c, 1, n) \o SubSeq(c, n + 1, m) = SubSeq(c, 1, m)
    BY <1>1, ConcatAdjacentSubSeq
  <2> QED
    BY <1>1, <1>2, <2>2, <2>3, <2>4, SubSeqFull
<1>4. CASE ~(n < m)
  <2>1. n = m
    BY <1>1, <1>4
  <2>2. r = RetrieveAll(b)
    BY <1>4 DEF Retrieve
  <2>3. r.reader = kCheapPrepend /\ r.writer = kCheapPrepend /\ r.mem = b.mem
    BY <2>2 DEF RetrieveAll, Sound
  <2>4. Sound(r)
    <3>1. r \in [mem : Seq(Bytes), reader : Nat, writer : Nat]
      BY <2>2, SizesAssumption DEF RetrieveAll, Sound
    <3> QED
      BY <2>3, <3>1, SizesAssumption DEF Sound
  <2>5. Content(r) = <<>>
    BY <2>3, <2>4, ContentIsSeq, EmptySeq, SizesAssumption
  <2>6. SubSeq(c, 1, n) = c
    BY <1>1, <2>1, SubSeqFull
  <2> QED
    BY <1>1, <1>2, <2>4, <2>5, <2>6, ConcatEmptySeq
<1> QED
  BY <1>3, <1>4

-----------------------------------------------------------------------------
(* Buffer: the specification.                                              *)

\* The inductive invariant.
BufferInv == Sound(buf) /\ TypeOK /\ FifoOfBytes

LEMMA InitBuffer == Init => BufferInv
<1>1. <<>> \in Seq(Bytes) /\ <<>> \o <<>> = <<>>
  BY EmptySeq, ConcatEmptySeq
<1> QED
  BY <1>1, EmptyIsSound DEF Init, BufferInv, TypeOK, FifoOfBytes, Sound

\* Bytes that enter at the back of the content keep it a FIFO.
LEMMA BytesEnter ==
  ASSUME BufferInv, NEW d \in Chunks,
         Sound(buf'), Content(buf') = Content(buf) \o d,
         received' = received \o d, taken' = taken
  PROVE  BufferInv'
<1>1. d \in Seq(Bytes) /\ Content(buf) \in Seq(Bytes)
  BY BytesAssumption, ContentIsSeq DEF BufferInv
<1>2. received' \in Seq(Bytes)
  BY <1>1, ConcatProperties DEF BufferInv, TypeOK
<1>3. taken \o (Content(buf) \o d) = (taken \o Content(buf)) \o d
  <2>1. taken \in Seq(Bytes)
    BY DEF BufferInv, TypeOK
  <2> QED
    BY <1>1, <2>1, ConcatAssociative
<1>4. FifoOfBytes'
  BY <1>3 DEF BufferInv, FifoOfBytes
<1> QED
  BY <1>2, <1>4 DEF BufferInv, TypeOK, Sound

LEMMA NextBuffer == BufferInv /\ [Next]_vars => BufferInv'
<1> SUFFICES ASSUME BufferInv, [Next]_vars PROVE BufferInv'
  OBVIOUS
<1>1. CASE DoAppend
  <2>1. PICK d \in Chunks : /\ buf' = AppendTo(buf, d)
                            /\ received' = received \o d /\ taken' = taken
    BY <1>1 DEF DoAppend
  <2>2. Sound(buf') /\ Content(buf') = Content(buf) \o d
    BY <2>1, AppendAppends, BytesAssumption DEF BufferInv
  <2> QED
    BY <2>1, <2>2, BytesEnter
<1>2. CASE ReadFd
  <2>1. PICK d \in Chunks : /\ buf' = ReadIn(buf, d)
                            /\ received' = received \o d /\ taken' = taken
    BY <1>2 DEF ReadFd
  <2>2. Sound(buf') /\ Content(buf') = Content(buf) \o d
    BY <2>1, ReadAppends, BytesAssumption DEF BufferInv
  <2> QED
    BY <2>1, <2>2, BytesEnter
<1>3. CASE DoRetrieve
  <2>1. PICK n \in 0..Readable(buf) : /\ taken' = taken \o SubSeq(Content(buf), 1, n)
                                      /\ buf' = Retrieve(buf, n) /\ received' = received
    BY <1>3 DEF DoRetrieve
  <2> DEFINE front == SubSeq(Content(buf), 1, n)
             rest == Content(Retrieve(buf, n))
  <2>2. /\ Sound(buf') /\ front \in Seq(Bytes)
        /\ front \o rest = Content(buf)
    BY <2>1, RetrieveTakesFront DEF BufferInv
  <2>3. Content(buf') = rest /\ rest \in Seq(Bytes)
    BY <2>1, <2>2, ContentIsSeq
  <2>4. taken' \in Seq(Bytes)
    BY <2>1, <2>2, ConcatProperties DEF BufferInv, TypeOK
  <2>5. (taken \o front) \o rest = taken \o (front \o rest)
    <3>1. taken \in Seq(Bytes)
      BY DEF BufferInv, TypeOK
    <3>2. front \in Seq(Bytes) /\ rest \in Seq(Bytes)
      BY <2>2, <2>3
    <3> HIDE DEF front, rest
    <3> QED
      BY <3>1, <3>2, ConcatAssociative
  <2>6. FifoOfBytes'
    BY <2>1, <2>2, <2>3, <2>5 DEF BufferInv, FifoOfBytes
  <2> QED
    BY <2>1, <2>2, <2>4, <2>6 DEF BufferInv, TypeOK, Sound
<1>4. CASE UNCHANGED vars
  BY <1>4 DEF vars, BufferInv, TypeOK, Sound, FifoOfBytes, Content, Readable
<1> QED
  BY <1>1, <1>2, <1>3, <1>4 DEF Next

LEMMA BufferInvariance == Spec => []BufferInv
BY InitBuffer, NextBuffer, PTL DEF Spec

\* The reader index, the writer index and the end of the vector stay in
\* order in every reachable state, for every size of the buffer (Buffer.h,
\* makeSpace and retrieve).
THEOREM BufferIndices == Spec => []IndicesInOrder
<1>1. BufferInv => IndicesInOrder
  BY DEF BufferInv, Sound, IndicesInOrder
<1> QED
  BY <1>1, BufferInvariance, PTL

\* Every byte that entered the buffer is retrieved or readable, once and in
\* order (Buffer.h, append and retrieve; Buffer.cpp, readFd).
THEOREM BufferIsFifo == Spec => []FifoOfBytes
<1>1. BufferInv => FifoOfBytes
  BY DEF BufferInv
<1> QED
  BY <1>1, BufferInvariance, PTL

-----------------------------------------------------------------------------
(* Rpc: nodes of zookeeper.                                                *)

Places == {"down", "service?", "service!", "method?", "method!", "listen", "serving"}

RpcTypeOK ==
  /\ provider \in [Providers -> [pc : Places, session : Nat]]
  /\ owner \in Seq(Providers)
  /\ method \in Nat
  /\ skipped \in [Providers -> BOOLEAN]
  /\ expired \in [Providers -> BOOLEAN]

\* A process that runs has a session of its own.
OwnSession ==
  \A p \in Providers :
    provider[p].pc # "down" => Session(p) \in 1..Len(owner) /\ owner[Session(p)] = p

\* From the making of the node on.
Registered ==
  \A p \in Providers :
    provider[p].pc \in {"listen", "serving"} /\ ~skipped[p] /\ ~expired[p]
      => method = Session(p)

RpcInv == RpcTypeOK /\ OwnSession /\ Registered

\* No action of a caller touches zookeeper; those that bring a provider down are
\* in OnFirstPart and OnRest.
CallerSteps(c) ==
  \/ Lookup(c) \/ Connect(c) \/ SendRequest(c) \/ OnMessage(c)
  \/ OnFirstPart(c) \/ OnRest(c) \/ SendRpcResponse(c) \/ Recv(c)

LEMMA InitHolds == RpcInit => RpcInv
BY DEF RpcInit, RpcInv, RpcTypeOK, OwnSession, Registered, Places

\* A provider that goes down, and nothing else.
LEMMA DownPreserves ==
  ASSUME RpcInv, NEW p, To(p, "down"), UNCHANGED registry
  PROVE  RpcInv'
<1>1. UNCHANGED <<owner, method, skipped, expired>>
  BY DEF registry
<1>2. RpcTypeOK'
  BY <1>1 DEF RpcInv, RpcTypeOK, To, Places
<1>3. \A q \in Providers : /\ Session(q)' = Session(q)
                           /\ provider'[q].pc \in {provider[q].pc, "down"}
  BY DEF RpcInv, RpcTypeOK, To, Session
<1>4. OwnSession' /\ Registered'
  BY <1>1, <1>3 DEF RpcInv, OwnSession, Registered
<1> QED
  BY <1>2, <1>4 DEF RpcInv

LEMMA StutterPreserves ==
  ASSUME RpcInv, UNCHANGED <<provider, registry>>
  PROVE  RpcInv'
BY DEF RpcInv, RpcTypeOK, OwnSession, Registered, registry, Session

LEMMA StartPreserves ==
  ASSUME RpcInv, NEW p \in Providers, Start(p)
  PROVE  RpcInv'
<1> USE DEF RpcInv
<1>1. owner' = Append(owner, p) /\ method' = method
  BY DEF Start
<1>2. provider' = [provider EXCEPT ![p] = [pc |-> "service?", session |-> Len(owner) + 1]]
  BY DEF Start
<1>3. owner \in Seq(Providers) /\ Len(owner) \in Nat
  BY DEF RpcTypeOK
<1>4. RpcTypeOK'
  BY <1>1, <1>2, <1>3 DEF RpcTypeOK, Start, Places
<1>5. OwnSession'
  <2> SUFFICES ASSUME NEW q \in Providers, provider'[q].pc # "down"
               PROVE  Session(q)' \in 1..Len(owner') /\ owner'[Session(q)'] = q
    BY DEF OwnSession
  <2>1. CASE q = p
    BY <1>1, <1>2, <1>3, <2>1 DEF Session, RpcTypeOK
  <2>2. CASE q # p
    <3>1. Session(q)' = Session(q) /\ provider[q].pc # "down"
      BY <1>2, <2>2 DEF Session, RpcTypeOK
    <3>2. Session(q) \in 1..Len(owner) /\ owner[Session(q)] = q
      BY <3>1 DEF OwnSession
    <3> QED
      BY <1>1, <1>3, <3>1, <3>2
  <2> QED
    BY <2>1, <2>2
<1>6. Registered'
  BY <1>1, <1>2 DEF Registered, Session, Start, RpcTypeOK
<1> QED
  BY <1>4, <1>5, <1>6

\* Create of the service: the registry's method node stays.
LEMMA ServicePreserves ==
  ASSUME RpcInv, NEW p \in Providers, AskService(p) \/ MakeService(p)
  PROVE  RpcInv'
<1>1. \E pc \in {"down", "service!", "method?"} : To(p, pc)
  BY DEF AskService, MakeService, Unanswered
<1>2. UNCHANGED <<owner, method, skipped, expired>> /\ provider[p].pc # "down"
  BY DEF AskService, MakeService
<1> QED
  BY <1>1, <1>2 DEF RpcInv, RpcTypeOK, OwnSession, Registered, To, Session, Places

LEMMA AskMethodPreserves ==
  ASSUME RpcInv, NEW p \in Providers, AskMethod(p)
  PROVE  RpcInv'
<1>1. \/ To(p, "method!") /\ skipped' = skipped
      \/ To(p, "listen") /\ skipped' = [skipped EXCEPT ![p] = TRUE]
  BY DEF AskMethod
<1>2. UNCHANGED <<owner, method, expired>> /\ provider[p].pc # "down"
  BY DEF AskMethod
<1>3. CASE To(p, "method!") /\ skipped' = skipped
  BY <1>2, <1>3 DEF RpcInv, RpcTypeOK, OwnSession, Registered, To, Session, Places
<1>4. CASE To(p, "listen") /\ skipped' = [skipped EXCEPT ![p] = TRUE]
  <2>1. RpcTypeOK'
    BY <1>2, <1>4 DEF RpcInv, RpcTypeOK, To, Places
  <2>2. \A q \in Providers : /\ provider'[q].session = provider[q].session
                             /\ q # p => provider'[q].pc = provider[q].pc
                             /\ q # p => skipped'[q] = skipped[q]
    BY <1>4 DEF RpcInv, RpcTypeOK, To
  <2>3. skipped'[p]
    BY <1>4 DEF RpcInv, RpcTypeOK
  <2>4. OwnSession'
    BY <1>2, <2>2 DEF RpcInv, OwnSession, Session
  <2>5. Registered'
    <3> SUFFICES ASSUME NEW q \in Providers, provider'[q].pc \in {"listen", "serving"},
                        ~skipped'[q], ~expired'[q]
                 PROVE  method' = Session(q)'
      BY DEF Registered
    <3>1. q # p
      BY <2>3
    <3> QED
      BY <1>2, <2>2, <3>1 DEF RpcInv, Registered, Session
  <2> QED
    BY <2>1, <2>4, <2>5 DEF RpcInv
<1> QED
  BY <1>1, <1>3, <1>4

\* The node is made only if there is none, so that no other provider is
\* registered with one.
LEMMA MakeMethodPreserves ==
  ASSUME RpcInv, NEW p \in Providers, MakeMethod(p)
  PROVE  RpcInv'
<1>1. UNCHANGED <<owner, skipped, expired>> /\ provider[p].pc = "method!"
  BY DEF MakeMethod
<1>2. CASE To(p, "down") /\ UNCHANGED method
  BY <1>1, <1>2 DEF RpcInv, RpcTypeOK, OwnSession, Registered, To, Session, Places
<1>3. CASE method = 0 /\ To(p, "listen") /\ method' = Session(p)
  <2>1. RpcTypeOK' /\ OwnSession'
    BY <1>1, <1>3 DEF RpcInv, RpcTypeOK, OwnSession, To, Session, Places
  <2>2. \A q \in Providers : provider[q].pc # "down" => Session(q) # 0
    BY DEF RpcInv, OwnSession
  <2>3. Registered'
    BY <1>1, <1>3, <2>2 DEF RpcInv, Registered, RpcTypeOK, To, Session
  <2> QED
    BY <2>1, <2>3 DEF RpcInv
<1> QED
  BY <1>2, <1>3 DEF MakeMethod

LEMMA ListenPreserves ==
  ASSUME RpcInv, NEW p \in Providers, Listen(p)
  PROVE  RpcInv'
BY DEF Listen, RpcInv, RpcTypeOK, OwnSession, Registered, To, registry, Session, Places

\* The end of a session that lives marks its provider.
LEMMA EndSessionPreserves ==
  ASSUME RpcInv, NEW s \in 1..Len(owner), EndSession(s)
  PROVE  RpcInv'
<1>1. UNCHANGED <<provider, owner, skipped>> /\ owner[s] \in Providers
  BY DEF EndSession, RpcInv, RpcTypeOK
<1>2. method' = (IF method = s THEN 0 ELSE method)
  BY DEF EndSession
<1>3. \/ Live(s) /\ expired' = [expired EXCEPT ![owner[s]] = TRUE]
      \/ ~Live(s) /\ expired' = expired
  BY DEF EndSession
<1>4. RpcTypeOK' /\ OwnSession'
  BY <1>1, <1>2, <1>3 DEF RpcInv, RpcTypeOK, OwnSession, Session
<1>5. Registered'
  <2> SUFFICES ASSUME NEW q \in Providers, provider[q].pc \in {"listen", "serving"},
                      ~skipped[q], ~expired'[q]
               PROVE  method' = Session(q)
    BY <1>1 DEF Registered, Session
  <2>1. method = Session(q) /\ owner[Session(q)] = q
    BY <1>3 DEF RpcInv, Registered, OwnSession, RpcTypeOK
  <2>2. Session(q) # s
    BY <1>1, <1>3, <2>1 DEF Live, RpcInv, RpcTypeOK
  <2> QED
    BY <1>2, <2>1, <2>2
<1> QED
  BY <1>4, <1>5 DEF RpcInv

LEMMA CallerPreserves ==
  ASSUME RpcInv, NEW c \in Callers, CallerSteps(c)
  PROVE  RpcInv'
<1>1. UNCHANGED registry
  BY DEF CallerSteps, Lookup, Connect, SendRequest, OnMessage, OnFirstPart, OnRest,
         SendRpcResponse, Recv
<1>2. UNCHANGED provider \/ To(owner[call[c].to], "down")
  BY DEF CallerSteps, Lookup, Connect, SendRequest, OnMessage, OnFirstPart, OnRest,
         SendRpcResponse, Recv
<1> QED
  BY <1>1, <1>2, DownPreserves, StutterPreserves

\* The inductive invariant of the registration: types, sessions and nodes
\* (Run, ZkClient::Create).
THEOREM RpcInvariant == RpcSpec => []RpcInv
<1>1. RpcInv /\ [RpcNext]_rpcVars => RpcInv'
  <2> SUFFICES ASSUME RpcInv, [RpcNext]_rpcVars PROVE RpcInv'
    OBVIOUS
  <2>1. CASE UNCHANGED rpcVars
    BY <2>1, StutterPreserves DEF rpcVars, registry
  <2>2. CASE \E p \in Providers : \/ Start(p) \/ AskService(p) \/ MakeService(p)
                                  \/ AskMethod(p) \/ MakeMethod(p) \/ Listen(p) \/ Crash(p)
    BY <2>2, StartPreserves, ServicePreserves, AskMethodPreserves, MakeMethodPreserves,
       ListenPreserves, DownPreserves DEF Crash
  <2>3. CASE \E s \in 1..Len(owner) : EndSession(s)
    BY <2>3, EndSessionPreserves
  <2>4. CASE \E c \in Callers : CallerSteps(c)
    BY <2>4, CallerPreserves
  <2> QED
    BY <2>1, <2>2, <2>3, <2>4 DEF RpcNext, CallerSteps
<1> QED
  BY <1>1, InitHolds, PTL DEF RpcSpec

\* Every provider that serves is found, with the exceptions Discoverable names,
\* for any number of them (Run, ZkClient::Create).
THEOREM ServingIsFound == RpcSpec => []Discoverable
<1>1. RpcInv => Discoverable
  BY DEF RpcInv, Registered, Discoverable
<1> QED
  BY <1>1, RpcInvariant, PTL

-----------------------------------------------------------------------------
(* Rpc: calls.                                                             *)

Calls ==
  [pc : {"lookup", "connect", "send", "recv", "returned", "crashed"}, at : Nat, to : Nat,
   coming : {"none", "whole", "rest"}, cut : BOOLEAN, executed : BOOLEAN, answer : BOOLEAN,
   result : {"none", "answer", "part"}]

\* What a blocked caller waits for, even while it is connected; only a request
\* that arrived in parts has a rest.  A caller connects to who made the node.
Awaits(x) ==
  /\ x.pc = "recv" => x.coming # "none" \/ x.executed \/ x.answer \/ x.cut
  /\ x.coming = "rest" => x.cut
  /\ x.pc = "connect" => x.at \in 1..Len(owner)

CallInv ==
  /\ method \in 0..Len(owner)
  /\ call \in [Callers -> {x \in Calls : Awaits(x)}]

LEMMA CallerCalls ==
  ASSUME RpcInv, CallInv, NEW c \in Callers, CallerSteps(c)
  PROVE  CallInv'
<1> DEFINE r == call[c]
<1>0. /\ r \in Calls /\ Awaits(r)
      /\ UNCHANGED <<owner, method>> /\ Len(owner) \in Nat
      /\ \A x : Awaits(x)' <=> Awaits(x)
  BY DEF CallInv, CallerSteps, Lookup, Connect, SendRequest, OnMessage, OnFirstPart, OnRest,
     SendRpcResponse, Recv, registry, RpcInv, RpcTypeOK, Awaits
<1>1. ASSUME NEW x \in Calls, Awaits(x), call' = [call EXCEPT ![c] = x] PROVE CallInv'
  BY <1>0, <1>1 DEF CallInv
<1> HIDE DEF r
<1>2. CASE Lookup(c)
  <2>1. call' = [call EXCEPT ![c] = [r EXCEPT !.pc = IF method = 0 THEN "returned" ELSE "connect",
                                              !.at = method]]
    BY <1>2 DEF Lookup, r
  <2>2. method \in 0..Len(owner)
    BY DEF CallInv
  <2>3. Len(owner) \in Nat
    BY DEF RpcInv, RpcTypeOK
  <2>4. CASE method = 0
    <3>1. call' = [call EXCEPT ![c] = [r EXCEPT !.pc = "returned", !.at = 0]]
      BY <2>1, <2>4
    <3> QED
      BY <1>0, <1>1, <3>1 DEF Awaits, Calls
  <2>5. CASE method # 0
    <3>1. call' = [call EXCEPT ![c] = [r EXCEPT !.pc = "connect", !.at = method]]
      BY <2>1, <2>5
    <3>2. method \in 1..Len(owner) /\ method \in Nat
      BY <2>2, <2>3, <2>5
    <3> QED
      BY <1>0, <1>1, <3>1, <3>2 DEF Awaits, Calls
  <2> QED
    BY <2>4, <2>5
<1>3. CASE Connect(c)
  <2>1. \/ call' = [call EXCEPT ![c] = [r EXCEPT !.pc = "send", !.to = Session(owner[r.at])]]
        \/ call' = [call EXCEPT ![c] = [r EXCEPT !.pc = "returned"]]
    BY <1>3 DEF Connect, r
  <2>2. owner[r.at] \in Providers
    BY <1>0, <1>3 DEF Connect, Awaits, RpcInv, RpcTypeOK, r
  <2>3. Session(owner[r.at]) \in Nat
    BY <2>2 DEF Session, RpcInv, RpcTypeOK
  <2> QED
    BY <1>0, <1>1, <2>1, <2>3 DEF Awaits, Calls
<1>4. CASE SendRequest(c)
  <2>1. \/ call' = [call EXCEPT ![c] = [r EXCEPT !.pc = "recv", !.coming = "whole"]]
        \/ call' = [call EXCEPT ![c] = [r EXCEPT !.pc = "crashed"]]
    BY <1>4 DEF SendRequest, r
  <2> QED
    BY <1>0, <1>1, <2>1 DEF Awaits, Calls
<1>5. CASE OnMessage(c)
  <2>1. call' = [call EXCEPT ![c] = [r EXCEPT !.coming = "none", !.executed = TRUE]]
    BY <1>5 DEF OnMessage, r
  <2> QED
    BY <1>0, <1>1, <2>1 DEF Awaits, Calls
<1>6. CASE OnFirstPart(c)
  <2>1. \/ call' = [call EXCEPT ![c] = [r EXCEPT !.coming = "rest", !.cut = TRUE]]
        \/ \E parsed \in BOOLEAN :
             call' = [call EXCEPT ![c] = [r EXCEPT !.coming = "rest", !.cut = TRUE,
                                                   !.executed = parsed]]
    BY <1>6 DEF OnFirstPart, r
  <2>2. ASSUME NEW parsed \in BOOLEAN
        PROVE  LET x == [r EXCEPT !.coming = "rest", !.cut = TRUE, !.executed = parsed]
               IN  x \in Calls /\ Awaits(x)
    BY <1>0 DEF Awaits, Calls
  <2>3. LET x == [r EXCEPT !.coming = "rest", !.cut = TRUE]
        IN  x \in Calls /\ Awaits(x)
    BY <1>0 DEF Awaits, Calls
  <2> QED
    BY <1>1, <2>1, <2>2, <2>3
<1>7. CASE OnRest(c)
  <2>1. call' = [call EXCEPT ![c] = [r EXCEPT !.coming = "none"]] /\ r.coming = "rest"
    BY <1>7 DEF OnRest, r
  <2> QED
    BY <1>0, <1>1, <2>1 DEF Awaits, Calls
<1>8. CASE SendRpcResponse(c)
  <2>1. call' = [call EXCEPT ![c] = [r EXCEPT !.answer = TRUE]]
    BY <1>8 DEF SendRpcResponse, r
  <2> QED
    BY <1>0, <1>1, <2>1 DEF Awaits, Calls
<1>9. CASE Recv(c)
  <2>1. \/ \E a \in {"answer", "part", "none"} :
             call' = [call EXCEPT ![c] = [r EXCEPT !.pc = "returned", !.result = a]]
        \/ call' = [call EXCEPT ![c] = [r EXCEPT !.pc = "returned"]]
    BY <1>9 DEF Recv, r
  <2> QED
    BY <1>0, <1>1, <2>1 DEF Awaits, Calls
<1> QED
  BY <1>2, <1>3, <1>4, <1>5, <1>6, <1>7, <1>8, <1>9 DEF CallerSteps

\* Providers and zookeeper touch no call; a node's session is one of those there are.
LEMMA ProviderCalls ==
  ASSUME RpcInv, CallInv, UNCHANGED call,
         owner' = owner \/ \E p \in Providers : owner' = Append(owner, p),
         method' \in {0, method} \/ \E p \in Providers : method' = Session(p) /\ provider[p].pc # "down"
  PROVE  CallInv'
<1>1. Len(owner) \in Nat /\ Len(owner') \in Nat /\ Len(owner) <= Len(owner')
  BY DEF RpcInv, RpcTypeOK
<1>2. method' \in 0..Len(owner')
  BY <1>1 DEF CallInv, RpcInv, OwnSession
<1>3. \A x : Awaits(x) => Awaits(x)'
  BY <1>1 DEF Awaits
<1> QED
  BY <1>2, <1>3 DEF CallInv

\* A caller that blocks waits for something, and goes on doing so until it
\* returns (QlrpcChannel::CallMethod's recv;
\* RpcProvider::OnMessage and SendRpcResponse).
THEOREM BlockedWaits == RpcSpec => []WaitsForSomething
<1>1. RpcInit => CallInv
  BY DEF RpcInit, CallInv, Calls, Awaits, Idle
<1>2. RpcInv /\ CallInv /\ [RpcNext]_rpcVars => CallInv'
  <2> SUFFICES ASSUME RpcInv, CallInv, [RpcNext]_rpcVars PROVE CallInv'
    OBVIOUS
  <2>1. CASE UNCHANGED rpcVars
    BY <2>1, ProviderCalls DEF rpcVars
  <2>2. ASSUME NEW p \in Providers, \/ Start(p) \/ AskService(p) \/ MakeService(p)
                                    \/ AskMethod(p) \/ MakeMethod(p) \/ Listen(p) \/ Crash(p)
        PROVE  CallInv'
    <3>1. /\ UNCHANGED call
          /\ owner' = owner \/ owner' = Append(owner, p)
          /\ \/ method' = method
             \/ method' = Session(p) /\ provider[p].pc # "down"
      <4>1. CASE Start(p)
        BY <4>1 DEF Start
      <4>2. CASE AskService(p) \/ MakeService(p) \/ AskMethod(p) \/ Listen(p) \/ Crash(p)
        BY <4>2 DEF AskService, MakeService, AskMethod, Listen, Crash, registry
      <4>3. CASE MakeMethod(p)
        BY <4>3 DEF MakeMethod
      <4> QED
        BY <2>2, <4>1, <4>2, <4>3
    <3> QED
      BY <3>1, ProviderCalls
  <2>3. CASE \E s \in 1..Len(owner) : EndSession(s)
    <3>1. UNCHANGED <<call, owner>> /\ method' \in {0, method}
      BY <2>3 DEF EndSession
    <3> QED
      BY <3>1, ProviderCalls
  <2>4. CASE \E c \in Callers : CallerSteps(c)
    BY <2>4, CallerCalls
  <2> QED
    BY <2>1, <2>2, <2>3, <2>4 DEF RpcNext, CallerSteps
<1>3. CallInv => WaitsForSomething
  BY DEF CallInv, Awaits, WaitsForSomething
<1> QED
  BY <1>1, <1>2, <1>3, RpcInvariant, PTL DEF RpcSpec

-----------------------------------------------------------------------------
(* Gobang.                                                                 *)

\* A line of five stones of one kind.
FiveAt(pos, d, kind) == \A k \in 0..4 : Game!Stone(Game!From(pos, k, d), kind)

Turns == {"man", "man down", "ai", "ai down", "crashed"}
Down == at \in {"man down", "ai down"}

\* A five on the board goes through the stone just placed, which is of the kind
\* of the one who is not to move.
GameInv ==
  /\ grateSize \in Nat
  /\ chessMap \in [Game!Cells -> {Game!Empty, Game!Black, Game!White}]
  /\ at \in Turns /\ playerFlag \in BOOLEAN
  /\ Down => /\ lastPos \in Game!Cells
             /\ chessMap[lastPos] = IF playerFlag THEN Game!White ELSE Game!Black
  /\ \A kind \in {Game!Black, Game!White}, pos \in Game!Cells, d \in Game!Directions :
       FiveAt(pos, d, kind) => Down /\ \E k \in 0..4 : Game!From(pos, k, d) = lastPos

LEMMA UnitSteps ==
  ASSUME NEW d \in Game!Directions
  PROVE  d[1] \in {-1, 0, 1} /\ d[2] \in {-1, 0, 1}
BY DEF Game!Directions

LEMMA BackAndForth ==
  ASSUME NEW pos \in Int \X Int, NEW d \in Game!Directions, NEW k \in 0..4
  PROVE  /\ Game!From(pos, k, d) \in Int \X Int /\ Game!From(pos, -k, d) \in Int \X Int
         /\ Game!From(Game!From(pos, k, d), -k, d) = pos
         /\ Game!From(Game!From(pos, -k, d), k, d) = pos
<1>1. PICK x, y \in Int : pos = <<x, y>>
  OBVIOUS
<1>2. PICK a, b \in {-1, 0, 1} : d = <<a, b>>
  BY DEF Game!Directions
<1> QED
  BY <1>1, <1>2 DEF Game!From

\* What lies between two points of the board is on the board.
LEMMA Convex ==
  ASSUME grateSize \in Nat, NEW pos \in Game!Cells, NEW d \in Game!Directions,
         Game!From(pos, 4, d) \in Game!Cells, NEW k \in 0..4
  PROVE  Game!From(pos, k, d) \in Game!Cells
<1>1. PICK x, y \in 0..(grateSize - 1) : pos = <<x, y>>
  BY DEF Game!Cells, Game!Board
<1>2. PICK a, b \in {-1, 0, 1} : d = <<a, b>>
  BY DEF Game!Directions
<1>3. x + 4 * a \in 0..(grateSize - 1) /\ y + 4 * b \in 0..(grateSize - 1)
  BY <1>1, <1>2 DEF Game!From, Game!Cells, Game!Board
<1>4. ASSUME NEW n \in Int, NEW u \in 0..n, NEW c \in {-1, 0, 1}, u + 4 * c \in 0..n
      PROVE  u + k * c \in 0..n
  <2>1. CASE c = -1
    BY <1>4, <2>1
  <2>2. CASE c = 0
    BY <1>4, <2>2
  <2>3. CASE c = 1
    BY <1>4, <2>3
  <2> QED
    BY <2>1, <2>2, <2>3
<1>5. x + k * a \in 0..(grateSize - 1) /\ y + k * b \in 0..(grateSize - 1)
  <2>1. grateSize - 1 \in Int
    OBVIOUS
  <2> QED
    BY <1>3, <1>4, <2>1
<1> QED
  BY <1>1, <1>2, <1>5 DEF Game!From, Game!Cells, Game!Board

LEMMA CellsAreInts == Game!Cells \subseteq Int \X Int
BY DEF Game!Cells, Game!Board

\* A five through lastPos is what checkWin looks for, and nothing else.
LEMMA CheckWinFinds ==
  ASSUME GameInv, Down
  PROVE  /\ Game!CheckWin => Game!Five(IF playerFlag THEN Game!White ELSE Game!Black)
         /\ \A kind \in {Game!Black, Game!White} : Game!Five(kind) => Game!CheckWin
<1>1. ASSUME Game!CheckWin PROVE Game!Five(IF playerFlag THEN Game!White ELSE Game!Black)
  <2> DEFINE kind == IF playerFlag THEN Game!White ELSE Game!Black
  <2>1. lastPos \in Game!Cells /\ lastPos \in Int \X Int /\ chessMap[lastPos] = kind
    BY CellsAreInts DEF GameInv
  <2>2. PICK d \in Game!Directions, i \in 0..4 :
          LET start == Game!From(lastPos, -i, d)
          IN  /\ start \in Game!Cells /\ Game!From(start, 4, d) \in Game!Cells
              /\ \A k \in 1..4 : chessMap[Game!From(start, k, d)] = chessMap[start]
    BY <1>1 DEF Game!CheckWin
  <2> DEFINE start == Game!From(lastPos, -i, d)
  <2>3. /\ start \in Game!Cells /\ Game!From(start, 4, d) \in Game!Cells
        /\ \A k \in 1..4 : chessMap[Game!From(start, k, d)] = chessMap[start]
    BY <2>2
  <2>4. Game!From(start, i, d) = lastPos
    BY <2>1, BackAndForth
  <2> HIDE DEF start, kind
  <2>5. Game!From(start, 0, d) = start
    <3>1. PICK x, y \in Int : start = <<x, y>>
      BY <2>3, CellsAreInts
    <3>2. PICK a, b \in {-1, 0, 1} : d = <<a, b>>
      BY DEF Game!Directions
    <3> QED
      BY <3>1, <3>2 DEF Game!From
  <2>6. \A k \in 0..4 : chessMap[Game!From(start, k, d)] = chessMap[start]
    BY <2>3, <2>5
  <2>7. chessMap[start] = kind
    BY <2>1, <2>4, <2>6
  <2>8. \A k \in 0..4 : Game!Stone(Game!From(start, k, d), kind)
    BY <2>3, <2>6, <2>7, Convex DEF Game!Stone, GameInv
  <2> QED
    BY <2>3, <2>8 DEF Game!Five, kind
<1>2. ASSUME NEW kind \in {Game!Black, Game!White}, Game!Five(kind) PROVE Game!CheckWin
  <2>1. PICK pos \in Game!Cells, d \in Game!Directions : \A k \in 0..4 : Game!Stone(Game!From(pos, k, d), kind)
    BY <1>2 DEF Game!Five
  <2>2. PICK i \in 0..4 : Game!From(pos, i, d) = lastPos
    BY <2>1 DEF GameInv, FiveAt
  <2>3. Game!From(lastPos, -i, d) = pos
    BY <2>2, BackAndForth, CellsAreInts
  <2>4. /\ Game!From(pos, 4, d) \in Game!Cells
        /\ \A k \in 0..4 : chessMap[Game!From(pos, k, d)] = kind
    BY <2>1 DEF Game!Stone
  <2>5. Game!From(pos, 0, d) = pos
    <3>1. PICK x, y \in Int : pos = <<x, y>>
      BY CellsAreInts
    <3>2. PICK a, b \in {-1, 0, 1} : d = <<a, b>>
      BY DEF Game!Directions
    <3> QED
      BY <3>1, <3>2 DEF Game!From
  <2>6. \A k \in 1..4 : chessMap[Game!From(pos, k, d)] = chessMap[pos]
    BY <2>4, <2>5
  <2> QED
    BY <2>3, <2>4, <2>6 DEF Game!CheckWin
<1> QED
  BY <1>1, <1>2

\* A stone placed where there was none makes fives only through itself.
LEMMA ChessDownKeeps ==
  ASSUME GameInv, ~Down, NEW pos \in Game!Vacant, Game!ChessDown(pos), at' \in {"man down", "ai down"}
  PROVE  GameInv'
<1> DEFINE kind == IF playerFlag THEN Game!Black ELSE Game!White
<1>1. /\ chessMap' = [chessMap EXCEPT ![pos] = kind] /\ lastPos' = pos
      /\ playerFlag' = ~playerFlag /\ grateSize' = grateSize
      /\ pos \in Game!Cells /\ chessMap[pos] = Game!Empty
  BY DEF Game!ChessDown, Game!Vacant
<1>2. Game!Cells' = Game!Cells
  BY <1>1 DEF Game!Cells
<1>3. kind \in {Game!Black, Game!White}
  OBVIOUS
<1>4. /\ chessMap' \in [Game!Cells -> {Game!Empty, Game!Black, Game!White}] /\ chessMap'[pos] = kind
      /\ \A q \in Game!Cells : q # pos => chessMap'[q] = chessMap[q]
  BY <1>1, <1>3 DEF GameInv
<1>5. playerFlag' \in BOOLEAN /\ kind = IF playerFlag' THEN Game!White ELSE Game!Black
  BY <1>1 DEF GameInv
<1>6. ASSUME NEW c \in {Game!Black, Game!White}, NEW p \in Game!Cells, NEW d \in Game!Directions, FiveAt(p, d, c)'
      PROVE  \E k \in 0..4 : Game!From(p, k, d) = pos
  <2>1. \A k \in 0..4 : Game!From(p, k, d) \in Game!Cells /\ chessMap'[Game!From(p, k, d)] = c
    BY <1>2, <1>6 DEF FiveAt, Game!Stone
  <2>2. ~FiveAt(p, d, c)
    BY DEF GameInv
  <2>3. PICK k \in 0..4 : chessMap[Game!From(p, k, d)] # c
    BY <2>1, <2>2 DEF FiveAt, Game!Stone
  <2> QED
    BY <1>4, <2>1, <2>3
<1> QED
  BY <1>1, <1>2, <1>4, <1>5, <1>6 DEF GameInv, Down, Turns

LEMMA NewGameKeeps ==
  ASSUME GameInv, Game!NewGame, at' = "man"
  PROVE  GameInv'
<1>1. Game!Cells' = Game!Cells
  BY DEF Game!NewGame, Game!Cells
<1>2. chessMap' = [pos \in Game!Cells |-> Game!Empty] /\ playerFlag' /\ grateSize' = grateSize
  BY <1>1 DEF Game!NewGame
<1>3. \A kind \in {Game!Black, Game!White}, pos \in Game!Cells, d \in Game!Directions : ~FiveAt(pos, d, kind)'
  <2> SUFFICES ASSUME NEW kind \in {Game!Black, Game!White}, NEW pos \in Game!Cells, NEW d \in Game!Directions,
                      FiveAt(pos, d, kind)'
               PROVE  FALSE
    OBVIOUS
  <2>1. Game!From(pos, 0, d) \in Game!Cells /\ chessMap'[Game!From(pos, 0, d)] = kind
    BY <1>1 DEF FiveAt, Game!Stone
  <2> QED
    BY <1>2, <2>1 DEF Game!Empty, Game!Black, Game!White
<1> QED
  BY <1>1, <1>2, <1>3 DEF GameInv, Turns, Down, Game!Empty

LEMMA GameSteps == GameInv /\ [Game!Next]_gameVars => GameInv'
<1> SUFFICES ASSUME GameInv, [Game!Next]_gameVars PROVE GameInv'
  OBVIOUS
<1>1. CASE Game!ManGo
  <2>1. PICK pos \in Game!Vacant : Game!ChessDown(pos)
    BY <1>1 DEF Game!ManGo
  <2> QED
    BY <1>1, <2>1, ChessDownKeeps DEF Game!ManGo, Down
<1>2. CASE Game!AiGo
  <2>1. PICK pos \in Game!Vacant : Game!ChessDown(pos)
    BY <1>2 DEF Game!AiGo, Game!MaxPoints
  <2> QED
    BY <1>2, <2>1, ChessDownKeeps DEF Game!AiGo, Down
<1>3. CASE Game!CheckOver /\ Game!CheckWin
  BY <1>3, NewGameKeeps DEF Game!CheckOver
<1>4. CASE Game!CheckOver /\ ~Game!CheckWin
  <2>1. Down /\ UNCHANGED <<grateSize, chessMap, playerFlag, lastPos>> /\ at' \in {"ai", "man"}
    BY <1>4 DEF Game!CheckOver, Down
  <2>2. \A kind \in {Game!Black, Game!White} : ~Game!Five(kind)
    BY <1>4, <2>1, CheckWinFinds
  <2>3. /\ Game!Cells' = Game!Cells /\ ~Down'
        /\ \A kind, pos, d : FiveAt(pos, d, kind)' <=> FiveAt(pos, d, kind)
    BY <2>1 DEF Game!Cells, Down, FiveAt, Game!Stone
  <2>4. \A kind \in {Game!Black, Game!White}, pos \in Game!Cells, d \in Game!Directions : ~FiveAt(pos, d, kind)
    BY <2>2 DEF Game!Five, FiveAt
  <2>5. \A kind \in {Game!Black, Game!White}, pos \in Game!Cells', d \in Game!Directions : ~FiveAt(pos, d, kind)'
    BY <2>3, <2>4
  <2> QED
    BY <2>1, <2>3, <2>5 DEF GameInv, Turns
<1>5. CASE Game!ClickOutside \/ Game!AiNowhere \/ UNCHANGED gameVars
  <2>1. /\ UNCHANGED <<grateSize, chessMap, playerFlag, lastPos>>
        /\ at' = at \/ (at \in {"man", "ai"} /\ at' = "crashed")
    BY <1>5 DEF Game!ClickOutside, Game!AiNowhere, gameVars
  <2>2. /\ Game!Cells' = Game!Cells /\ (Down' <=> Down)
        /\ \A kind, pos, d : FiveAt(pos, d, kind)' <=> FiveAt(pos, d, kind)
    BY <2>1 DEF Game!Cells, Down, FiveAt, Game!Stone
  <2> QED
    BY <2>1, <2>2 DEF GameInv, Turns
<1> QED
  BY <1>1, <1>2, <1>3, <1>4, <1>5 DEF Game!Next

LEMMA GameInvariance == AllSpec => []GameInv
<1>1. AllInit => GameInv
  <2> SUFFICES ASSUME Game!Init PROVE GameInv
    BY DEF AllInit
  <2>1. \A kind \in {Game!Black, Game!White}, pos \in Game!Cells, d \in Game!Directions :
          ~FiveAt(pos, d, kind)
    <3> SUFFICES ASSUME NEW kind \in {Game!Black, Game!White}, NEW pos \in Game!Cells,
                        NEW d \in Game!Directions, FiveAt(pos, d, kind)
                 PROVE  FALSE
      OBVIOUS
    <3>1. Game!From(pos, 0, d) \in Game!Cells /\ chessMap[Game!From(pos, 0, d)] = kind
      BY DEF FiveAt, Game!Stone
    <3> QED
      BY <3>1 DEF Game!Init, Game!Empty, Game!Black, Game!White
  <2> QED
    BY <2>1, BoardsAssumption DEF Game!Init, GameInv, Turns, Down
<1>2. [AllNext]_allVars => [Game!Next]_gameVars
  BY DEF AllNext, allVars
<1> QED
  BY <1>1, <1>2, GameSteps, PTL DEF AllSpec

\* On boards of every size and for every play of the person: a game ends when
\* there is a five and not before, and its owner is told of his win
\* (Chess::checkWin, checkOver and updateGameMap, ChessGame::play).
THEOREM FivesAreSeen == AllSpec => []WinIsSeen
<1>1. ASSUME GameInv PROVE Game!WinIsSeen
  <2>1. CASE Down
    BY <1>1, <2>1, CheckWinFinds DEF Game!WinIsSeen, Down
  <2>2. CASE ~Down
    BY <1>1, <2>2 DEF Game!WinIsSeen, Down, GameInv, Game!Five, FiveAt
  <2> QED
    BY <2>1, <2>2
<1>2. GameInv => WinIsSeen
  BY <1>1 DEF WinIsSeen
<1> QED
  BY <1>2, GameInvariance, PTL

-----------------------------------------------------------------------------
(* Gobang: what the program plays.                                         *)

LEMMA ScoredAre ==
  /\ Game!ScoredDirections[1] = <<-1, -1>> /\ Game!ScoredDirections[2] = <<-1, 0>>
  /\ Game!ScoredDirections[3] = <<-1, 1>> /\ Game!ScoredDirections[4] = <<0, 1>>
BY DEF Game!ScoredDirections

\* The numbers calculateScore counts along a line.
LEMMA StonesCounted ==
  ASSUME NEW pos, NEW d, NEW kind
  PROVE  LET n == Game!Stones(pos, d, kind)
         IN  /\ n \in 0..4
             /\ \A i \in 1..n : Game!Stone(Game!From(pos, i, d), kind)
             /\ n = 4 \/ ~Game!Stone(Game!From(pos, n + 1, d), kind)
<1> DEFINE S(i) == Game!Stone(Game!From(pos, i, d), kind)
           Is(n) == /\ \A i \in 1..n : S(i)
                    /\ n = 4 \/ ~S(n + 1)
<1> HIDE DEF S
<1>1. \E n \in 0..4 : Is(n)
  <2>1. CASE ~S(1)
    BY <2>1, Is(0)
  <2>2. CASE S(1) /\ ~S(2)
    BY <2>2, Is(1)
  <2>3. CASE S(1) /\ S(2) /\ ~S(3)
    BY <2>3, Is(2)
  <2>4. CASE S(1) /\ S(2) /\ S(3) /\ ~S(4)
    BY <2>4, Is(3)
  <2>5. CASE S(1) /\ S(2) /\ S(3) /\ S(4)
    BY <2>5, Is(4)
  <2> QED
    BY <2>1, <2>2, <2>3, <2>4, <2>5
<1>2. Game!Stones(pos, d, kind) = CHOOSE n \in 0..4 : Is(n)
  BY DEF Game!Stones, S
<1> HIDE DEF Is
<1> QED
  <2>1. Is(Game!Stones(pos, d, kind)) /\ Game!Stones(pos, d, kind) \in 0..4
    BY <1>1, <1>2
  <2> QED
    BY <2>1 DEF Is, S

LEMMA LinesCounted ==
  ASSUME NEW pos, NEW d, NEW kind
  PROVE  Game!Num(pos, d, kind) \in Nat /\ Game!EmptyNum(pos, d, kind) \in Nat
<1>1. /\ Game!Stones(pos, d, kind) \in 0..4 /\ Game!Stones(pos, Game!Back(d), kind) \in 0..4
      /\ Game!Open(pos, d, kind) \in 0..1 /\ Game!Open(pos, Game!Back(d), kind) \in 0..1
  BY StonesCounted DEF Game!Open
<1> QED
  BY <1>1 DEF Game!Num, Game!EmptyNum

\* A line is counted the same from both of its ends.
LEMMA SameLine ==
  ASSUME NEW pos, NEW kind, NEW d, NEW e, Game!Back(d) = e, Game!Back(e) = d
  PROVE  Game!Num(pos, d, kind) = Game!Num(pos, e, kind)
<1>1. Game!Stones(pos, d, kind) \in 0..4 /\ Game!Stones(pos, e, kind) \in 0..4
  BY StonesCounted
<1> QED
  BY <1>1 DEF Game!Num

\* calculateScore looks along every line that checkWin looks along.
LEMMA FivesAreScored ==
  ASSUME NEW pos, NEW kind
  PROVE  Game!Completes(pos, kind) <=>
           \E i \in 1..4 : Game!Num(pos, Game!ScoredDirections[i], kind) >= 4
<1>1. /\ Game!Num(pos, <<-1, -1>>, kind) = Game!Num(pos, <<1, 1>>, kind)
      /\ Game!Num(pos, <<-1, 0>>, kind) = Game!Num(pos, <<1, 0>>, kind)
  <2>1. ASSUME NEW a \in Int, NEW b \in Int, NEW u \in Int, NEW v \in Int, a + u = 0, b + v = 0
        PROVE  Game!Back(<<a, b>>) = <<u, v>> /\ Game!Back(<<u, v>>) = <<a, b>>
    BY <2>1 DEF Game!Back
  <2>2. Game!Back(<<-1, -1>>) = <<1, 1>> /\ Game!Back(<<1, 1>>) = <<-1, -1>>
    BY <2>1
  <2>3. Game!Back(<<-1, 0>>) = <<1, 0>> /\ Game!Back(<<1, 0>>) = <<-1, 0>>
    BY <2>1
  <2> QED
    BY <2>2, <2>3, SameLine
<1> QED
  BY <1>1, ScoredAre DEF Game!Completes, Game!Directions

\* What one direction makes of a score, first for the person's stones along it,
\* then for the program's.
LEMMA AlongIs ==
  ASSUME NEW pos, NEW d, NEW score \in Nat
  PROVE  \E person \in Nat :
           /\ Game!Along(pos, score, d) \in Nat
           /\ LET num == Game!Num(pos, d, Game!Black)
               IN  /\ num = 4 => person = 20000
                   /\ num # 4 => person <= score + 40 \/ person <= 5000
                   /\ num # 4 /\ (num = 3 => Game!EmptyNum(pos, d, Game!Black) = 0) => person >= score
           /\ LET own == Game!Num(pos, d, Game!White)
                  gain == Game!Along(pos, score, d) - person
               IN  /\ gain >= 0 /\ (own >= 4 => gain = 30000)
                   /\ own < 4 => gain <= 55 + 10000 * Game!OpenThree(pos, d)
<1> DEFINE num == Game!Num(pos, d, Game!Black)
           emptyNum == Game!EmptyNum(pos, d, Game!Black)
           own == Game!Num(pos, d, Game!White)
           ownEmpty == Game!EmptyNum(pos, d, Game!White)
           person == Game!PersonScore(score, num, emptyNum)
           after == Game!AiScore(person, own, ownEmpty)
<1>1. num \in Nat /\ emptyNum \in Nat /\ own \in Nat /\ ownEmpty \in Nat
  BY LinesCounted
<1>2. Game!Along(pos, score, d) = after
  BY DEF Game!Along
<1> HIDE DEF num, emptyNum, own, ownEmpty
<1>3. /\ person \in Nat /\ (num = 4 => person = 20000)
      /\ num # 4 /\ (num = 3 => emptyNum = 0) => person >= score
  BY <1>1 DEF Game!PersonScore
<1>4. num # 4 => person <= score + 40 \/ person <= 5000
  BY <1>1 DEF Game!PersonScore
<1> HIDE DEF person
<1>5. after \in Nat /\ after >= person /\ (own >= 4 => after = person + 30000)
  BY <1>1, <1>3 DEF Game!AiScore
<1>6. own < 4 => after <= person + 55 + 10000 * Game!OpenThree(pos, d)
  <2>1. CASE own = 3 /\ ownEmpty = 2
    <3>1. after = person + 10000
      BY <1>1, <1>3, <2>1 DEF Game!AiScore
    <3>2. Game!OpenThree(pos, d) = 1
      BY <2>1 DEF Game!OpenThree, own, ownEmpty
    <3> QED
      BY <1>3, <3>1, <3>2
  <2>2. CASE ~(own = 3 /\ ownEmpty = 2)
    <3>1. own < 4 => after <= person + 55
      BY <1>1, <1>3, <2>2 DEF Game!AiScore
    <3>2. Game!OpenThree(pos, d) = 0
      BY <2>2 DEF Game!OpenThree, own, ownEmpty
    <3> QED
      BY <1>3, <1>5, <3>1, <3>2
  <2> QED
    BY <2>1, <2>2
<1> HIDE DEF after
<1>7. after - person >= 0 /\ (own >= 4 => after - person = 30000)
  BY <1>3, <1>5
<1>8. own < 4 => after - person <= 55 + 10000 * Game!OpenThree(pos, d)
  <2>1. Game!OpenThree(pos, d) \in {0, 1}
    BY DEF Game!OpenThree
  <2> QED
    BY <1>3, <1>5, <1>6, <2>1
<1> QED
  BY <1>2, <1>3, <1>4, <1>5, <1>7, <1>8 DEF num, emptyNum, own

\* The person's stones along d make calculateScore forget what it scored before.
Overwrites(pos, d) ==
  LET num == Game!Num(pos, d, Game!Black)
  IN  ~(num # 4 /\ (num = 3 => Game!EmptyNum(pos, d, Game!Black) = 0))

LEMMA AlongAtLeast ==
  ASSUME NEW pos, NEW d, NEW score \in Nat
  PROVE  /\ Game!Along(pos, score, d) \in Nat
         /\ ~Overwrites(pos, d) => Game!Along(pos, score, d) >= score
         /\ Game!Num(pos, d, Game!White) >= 4 => Game!Along(pos, score, d) >= 30000
         /\ Game!Num(pos, d, Game!Black) = 4 => Game!Along(pos, score, d) >= 20000
<1> DEFINE after == Game!Along(pos, score, d)
           num == Game!Num(pos, d, Game!Black)
           own == Game!Num(pos, d, Game!White)
<1>1. PICK person \in Nat :
        /\ after \in Nat /\ (num = 4 => person = 20000) /\ (~Overwrites(pos, d) => person >= score)
        /\ after - person >= 0 /\ (own >= 4 => after - person = 30000)
  BY AlongIs DEF Overwrites
<1> HIDE DEF after, num, own
<1>2. /\ after \in Nat /\ (~Overwrites(pos, d) => after >= score)
      /\ (own >= 4 => after >= 30000) /\ (num = 4 => after >= 20000)
  BY <1>1
<1> QED
  BY <1>2 DEF after, num, own

LEMMA AlongAtMost ==
  ASSUME NEW pos, NEW d, NEW score \in Nat, NEW bound \in Nat, score <= bound,
         Game!Num(pos, d, Game!White) < 4, 5000 <= bound,
         Game!Num(pos, d, Game!Black) = 4 => 20000 <= bound
  PROVE  Game!Along(pos, score, d) <= bound + 95 + 10000 * Game!OpenThree(pos, d)
<1> DEFINE after == Game!Along(pos, score, d)
           num == Game!Num(pos, d, Game!Black)
           open == Game!OpenThree(pos, d)
<1>1. PICK person \in Nat :
        /\ after \in Nat /\ (num = 4 => person = 20000)
        /\ num # 4 => person <= score + 40 \/ person <= 5000
        /\ after - person <= 55 + 10000 * open
  BY AlongIs
<1>2. open \in Nat /\ (num = 4 => 20000 <= bound)
  BY DEF Game!OpenThree
<1> HIDE DEF after, num, open
<1>3. after <= bound + 95 + 10000 * open
  BY <1>1, <1>2
<1> QED
  BY <1>3 DEF after, open

\* A point that calculateScore gives the score of a five keeps it.
LEMMA ScoreAtLeast ==
  ASSUME NEW pos
  PROVE  /\ Game!Score(pos) \in Nat
         /\ Game!Counted(pos, Game!White) => Game!Score(pos) >= 30000
         /\ Game!Counted(pos, Game!Black) => Game!Score(pos) >= 20000
<1> DEFINE D(i) == Game!ScoredDirections[i]
           s1 == Game!Along(pos, 0, D(1))
           s2 == Game!Along(pos, s1, D(2))
           s3 == Game!Along(pos, s2, D(3))
           s4 == Game!Along(pos, s3, D(4))
           Scores(i, s) == /\ Game!Num(pos, D(i), Game!White) >= 4 => s >= 30000
                           /\ Game!Num(pos, D(i), Game!Black) = 4 => s >= 20000
<1>1. s1 \in Nat /\ Scores(1, s1)
  BY AlongAtLeast
<1>2. s2 \in Nat /\ Scores(2, s2) /\ (~Overwrites(pos, D(2)) => s2 >= s1)
  <2> HIDE DEF s1
  <2> QED
    BY <1>1, AlongAtLeast
<1>3. s3 \in Nat /\ Scores(3, s3) /\ (~Overwrites(pos, D(3)) => s3 >= s2)
  <2> HIDE DEF s2
  <2> QED
    BY <1>2, AlongAtLeast
<1>4. s4 \in Nat /\ Scores(4, s4) /\ (~Overwrites(pos, D(4)) => s4 >= s3)
  <2> HIDE DEF s3
  <2> QED
    BY <1>3, AlongAtLeast
<1>5. Game!Score(pos) = s4
  BY DEF Game!Score
<1> HIDE DEF s1, s2, s3, s4, D
<1>6. ASSUME NEW kind \in {Game!Black, Game!White}, Game!Counted(pos, kind),
             NEW five \in Nat,
             \A i \in 1..4, s \in Nat : /\ Scores(i, s) /\ Game!Num(pos, D(i), kind) >= 4
                                       /\ (kind = Game!Black => Game!Num(pos, D(i), kind) = 4)
                                       => s >= five
      PROVE  s4 >= five
  <2>1. PICK i \in 1..4 :
          /\ Game!Num(pos, D(i), kind) >= 4
          /\ kind = Game!Black => Game!Num(pos, D(i), kind) = 4
          /\ \A j \in (i + 1)..4 : ~Overwrites(pos, D(j))
    BY <1>6 DEF Game!Counted, Overwrites, D
  <2>2. CASE i = 1
    <3>1. ~Overwrites(pos, D(2)) /\ ~Overwrites(pos, D(3)) /\ ~Overwrites(pos, D(4))
      BY <2>1, <2>2
    <3>2. s1 >= five
      BY <1>1, <1>6, <2>1, <2>2
    <3> QED
      BY <1>1, <1>2, <1>3, <1>4, <3>1, <3>2
  <2>3. CASE i = 2
    <3>1. ~Overwrites(pos, D(3)) /\ ~Overwrites(pos, D(4))
      BY <2>1, <2>3
    <3>2. s2 >= five
      BY <1>2, <1>6, <2>1, <2>3
    <3> QED
      BY <1>2, <1>3, <1>4, <3>1, <3>2
  <2>4. CASE i = 3
    <3>1. ~Overwrites(pos, D(4))
      BY <2>1, <2>4
    <3>2. s3 >= five
      BY <1>3, <1>6, <2>1, <2>4
    <3> QED
      BY <1>3, <1>4, <3>1, <3>2
  <2>5. CASE i = 4
    BY <1>4, <1>6, <2>1, <2>5
  <2> QED
    BY <2>1, <2>2, <2>3, <2>4, <2>5
<1>7. Game!Counted(pos, Game!White) => s4 >= 30000
  BY <1>6
<1>8. Game!Counted(pos, Game!Black) => s4 >= 20000
  BY <1>6
<1> QED
  BY <1>4, <1>5, <1>7, <1>8

\* A point where the program makes no five has what a black four or three
\* scores, 95 for each direction and 10000 for each open three of its own.
LEMMA ScoreAtMost ==
  ASSUME NEW pos, ~Game!Completes(pos, Game!White)
  PROVE  Game!Score(pos) <= (IF Game!Completes(pos, Game!Black) THEN 20000 ELSE 5000)
                             + 380 + 10000 * Game!OpenThrees(pos)
<1> DEFINE D(i) == Game!ScoredDirections[i]
           O(i) == Game!OpenThree(pos, D(i))
           s1 == Game!Along(pos, 0, D(1))
           s2 == Game!Along(pos, s1, D(2))
           s3 == Game!Along(pos, s2, D(3))
           s4 == Game!Along(pos, s3, D(4))
           base == IF Game!Completes(pos, Game!Black) THEN 20000 ELSE 5000
           b1 == base + 95 + 10000 * O(1)
           b2 == b1 + 95 + 10000 * O(2)
           b3 == b2 + 95 + 10000 * O(3)
           b4 == b3 + 95 + 10000 * O(4)
<1>1. base \in Nat /\ base >= 5000
  OBVIOUS
<1>2. \A i \in 1..4 : /\ Game!Num(pos, D(i), Game!White) < 4
                      /\ Game!Num(pos, D(i), Game!Black) = 4 => base = 20000
  <2> SUFFICES ASSUME NEW i \in 1..4
               PROVE  /\ Game!Num(pos, D(i), Game!White) < 4
                      /\ Game!Num(pos, D(i), Game!Black) = 4 => base = 20000
    OBVIOUS
  <2>1. Game!Num(pos, D(i), Game!White) \in Nat /\ ~(Game!Num(pos, D(i), Game!White) >= 4)
    BY FivesAreScored, LinesCounted
  <2>2. Game!Num(pos, D(i), Game!Black) = 4 => Game!Completes(pos, Game!Black)
    BY FivesAreScored
  <2> QED
    BY <2>1, <2>2
<1>3. O(1) \in Nat /\ O(2) \in Nat /\ O(3) \in Nat /\ O(4) \in Nat
  BY DEF Game!OpenThree
<1>4. s1 \in Nat /\ s2 \in Nat /\ s3 \in Nat
  <2>1. s1 \in Nat
    BY AlongAtLeast
  <2>2. s2 \in Nat
    <3> HIDE DEF s1
    <3> QED
      BY <2>1, AlongAtLeast
  <2>3. s3 \in Nat
    <3> HIDE DEF s2
    <3> QED
      BY <2>2, AlongAtLeast
  <2> QED
    BY <2>1, <2>2, <2>3
<1> HIDE DEF base
<1>5. b1 \in Nat /\ b2 \in Nat /\ b3 \in Nat /\ b1 >= base /\ b2 >= base /\ b3 >= base
  <2> HIDE DEF O
  <2> QED
    BY <1>1, <1>3
<1>6. \A i \in 1..4, s \in Nat, b \in Nat : s <= b /\ b >= base =>
         Game!Along(pos, s, D(i)) <= b + 95 + 10000 * O(i)
  <2> SUFFICES ASSUME NEW i \in 1..4, NEW s \in Nat, NEW b \in Nat, s <= b, b >= base
               PROVE  Game!Along(pos, s, D(i)) <= b + 95 + 10000 * O(i)
    OBVIOUS
  <2>1. b >= 5000 /\ (Game!Num(pos, D(i), Game!Black) = 4 => b >= 20000)
    BY <1>1, <1>2
  <2> QED
    BY <1>2, <2>1, AlongAtMost
<1> HIDE DEF O, D
<1>7. s1 <= b1
  BY <1>1, <1>6
<1> HIDE DEF b1, s1
<1>8. s2 <= b2
  BY <1>4, <1>5, <1>6, <1>7
<1> HIDE DEF b2, s2
<1>9. s3 <= b3
  BY <1>4, <1>5, <1>6, <1>8
<1> HIDE DEF b3, s3
<1>10. s4 <= b4
  BY <1>4, <1>5, <1>6, <1>9
<1>11. Game!Score(pos) = s4 /\ Game!OpenThrees(pos) = O(1) + O(2) + O(3) + O(4)
  BY DEF Game!Score, Game!OpenThrees, O, s1, s2, s3, D
<1> HIDE DEF s4
<1>12. b4 = base + 380 + 10000 * (O(1) + O(2) + O(3) + O(4))
  BY <1>1, <1>3 DEF b1, b2, b3
<1> QED
  BY <1>10, <1>11, <1>12 DEF base

\* No empty point scores more than the points the program draws lots among.
LEMMA MaxPointsAreBest ==
  ASSUME NEW pos \in Game!MaxPoints, NEW other \in Game!Vacant
  PROVE  pos \in Game!Vacant /\ Game!Score(other) <= Game!Score(pos)
BY DEF Game!MaxPoints

LEMMA OpenThreesAre ==
  ASSUME NEW pos
  PROVE  Game!OpenThrees(pos) \in Nat
<1>1. \A d : Game!OpenThree(pos, d) \in Nat
  BY DEF Game!OpenThree
<1> QED
  BY <1>1 DEF Game!OpenThrees

\* At most 20380 without an open three, and 5380 where neither makes a five, is
\* less than the 30000 of a five and the 20000 of the person's.
LEMMA FoursAnswered == Game!AnswersFours
<1> DEFINE Fives(kind) == {pos \in Game!Vacant : Game!Completes(pos, kind)}
<1>1. ASSUME NEW win \in Fives(Game!White), Game!Counted(win, Game!White),
             NEW pos \in Game!MaxPoints, pos \notin Fives(Game!White)
      PROVE  Game!OpenThrees(pos) >= IF pos \in Fives(Game!Black) THEN 1 ELSE 3
  <2>1. pos \in Game!Vacant /\ Game!Score(win) <= Game!Score(pos)
    BY <1>1, MaxPointsAreBest
  <2>2. ~Game!Completes(pos, Game!White) /\ (pos \in Fives(Game!Black) <=> Game!Completes(pos, Game!Black))
    BY <1>1, <2>1
  <2>3. Game!Score(win) \in Nat /\ Game!Score(win) >= 30000
    BY <1>1, ScoreAtLeast
  <2>4. Game!Score(pos) \in Nat /\ Game!OpenThrees(pos) \in Nat
    BY ScoreAtLeast, OpenThreesAre
  <2>5. Game!Score(pos) <= (IF Game!Completes(pos, Game!Black) THEN 20000 ELSE 5000)
                             + 380 + 10000 * Game!OpenThrees(pos)
    BY <2>2, ScoreAtMost
  <2> HIDE DEF Fives
  <2> QED
    BY <2>1, <2>2, <2>3, <2>4, <2>5
<1>2. ASSUME NEW need \in Fives(Game!Black), Game!Counted(need, Game!Black), Fives(Game!White) = {},
             NEW pos \in Game!MaxPoints, pos \notin Fives(Game!Black)
      PROVE  Game!OpenThrees(pos) >= 2
  <2>1. pos \in Game!Vacant /\ Game!Score(need) <= Game!Score(pos)
    BY <1>2, MaxPointsAreBest
  <2>2. ~Game!Completes(pos, Game!White) /\ ~Game!Completes(pos, Game!Black)
    BY <1>2, <2>1
  <2>3. Game!Score(need) \in Nat /\ Game!Score(need) >= 20000
    BY <1>2, ScoreAtLeast
  <2>4. Game!Score(pos) \in Nat /\ Game!OpenThrees(pos) \in Nat
    BY ScoreAtLeast, OpenThreesAre
  <2>5. Game!Score(pos) <= 5000 + 380 + 10000 * Game!OpenThrees(pos)
    BY <2>2, ScoreAtMost
  <2> QED
    BY <2>1, <2>3, <2>4, <2>5
<1> QED
  BY <1>1, <1>2 DEF Game!AnswersFours

\* A finite set has a point that no other scores more than: the one above which
\* there are the fewest others.
LEMMA SomePointIsBest ==
  ASSUME grateSize \in Nat, Game!Vacant # {}
  PROVE  Game!MaxPoints # {}
<1> DEFINE V == Game!Vacant
           Above(pos) == {q \in V : Game!Score(q) > Game!Score(pos)}
           Family == {Above(pos) : pos \in V}
<1>1. IsFiniteSet(V)
  <2>1. grateSize - 1 \in Int
    OBVIOUS
  <2>2. IsFiniteSet(0..(grateSize - 1))
    BY <2>1, FS_Interval
  <2>3. IsFiniteSet(Game!Cells)
    BY <2>2, FS_Product DEF Game!Cells, Game!Board
  <2>4. V \in SUBSET Game!Cells
    BY DEF Game!Vacant
  <2> QED
    BY <2>3, <2>4, FS_Subset
<1>2. Family \subseteq SUBSET V /\ Family # {}
  OBVIOUS
<1>3. \A pos \in V : Game!Score(pos) \in Nat
  BY ScoreAtLeast
<1> HIDE DEF V
<1>4. IsWellFoundedOn(StrictSubsetOrdering(V), SUBSET V)
  BY <1>1, FS_StrictSubsetOrderingWellFounded, FS_FiniteSubsetsOfFinite
<1>5. PICK least \in Family : \A other \in Family : ~(<<other, least>> \in StrictSubsetOrdering(V))
  <2> HIDE DEF Family
  <2> QED
    BY <1>2, <1>4, WFMin
<1>6. PICK pos \in V : least = Above(pos)
  BY <1>5
<1>7. Above(pos) = {}
  <2> SUFFICES ASSUME NEW q \in Above(pos) PROVE FALSE
    OBVIOUS
  <2>1. q \in V /\ Game!Score(q) > Game!Score(pos)
    OBVIOUS
  <2>2. Above(q) \subseteq Above(pos)
    <3> SUFFICES ASSUME NEW r \in V, Game!Score(r) > Game!Score(q)
                 PROVE  Game!Score(r) > Game!Score(pos)
      OBVIOUS
    <3>1. Game!Score(r) \in Nat /\ Game!Score(q) \in Nat /\ Game!Score(pos) \in Nat
      BY <1>3, <2>1
    <3> QED
      BY <2>1, <3>1
  <2>3. q \notin Above(q) /\ Above(q) # Above(pos)
    <3>1. Game!Score(q) \in Nat
      BY <1>3, <2>1
    <3> QED
      BY <3>1
  <2>4. Above(q) \in Family /\ Above(q) \in SUBSET V /\ Above(pos) \in SUBSET V
    BY <2>1
  <2>5. <<Above(q), Above(pos)>> \in StrictSubsetOrdering(V)
    <3> HIDE DEF Above
    <3> QED
      BY <2>2, <2>3, <2>4 DEF StrictSubsetOrdering
  <2> QED
    BY <1>5, <1>6, <2>4, <2>5
<1>8. \A q \in V : Game!Score(q) <= Game!Score(pos)
  <2> SUFFICES ASSUME NEW q \in V PROVE Game!Score(q) <= Game!Score(pos)
    OBVIOUS
  <2>1. ~(Game!Score(q) > Game!Score(pos))
    BY <1>7
  <2> QED
    BY <1>3, <2>1
<1>9. pos \in Game!MaxPoints
  BY <1>8 DEF Game!MaxPoints, V
<1> QED
  BY <1>9

\* Two steps along a line are one, and a step back is one from the other end.
LEMMA PlayedBack ==
  ASSUME NEW pos \in Int \X Int, NEW d \in Game!Directions, NEW i \in Int, NEW k \in Int
  PROVE  /\ Game!From(pos, k, Game!Back(d)) = Game!From(pos, -k, d)
         /\ Game!From(Game!From(pos, i, d), k, d) = Game!From(pos, i + k, d)
         /\ Game!From(pos, 0, d) = pos
<1>1. PICK x \in Int, y \in Int : pos = <<x, y>>
  OBVIOUS
<1>2. PICK a \in {-1, 0, 1}, b \in {-1, 0, 1} : d = <<a, b>>
  BY DEF Game!Directions
<1>3. Game!From(pos, k, d) = <<x + k * a, y + k * b>> /\ Game!From(pos, -k, d) = <<x + (-k) * a, y + (-k) * b>>
  BY <1>1, <1>2 DEF Game!From
<1>4. ASSUME NEW u \in Int, NEW c \in {-1, 0, 1}
      PROVE  /\ u + k * (-c) = u + (-k) * c
             /\ (u + i * c) + k * c = u + (i + k) * c /\ u + 0 * c = u
  <2>1. CASE c = -1
    BY <2>1
  <2>2. CASE c = 0
    BY <2>2
  <2>3. CASE c = 1
    BY <2>3
  <2> QED
    BY <1>4, <2>1, <2>2, <2>3
<1> QED
  BY <1>1, <1>2, <1>4 DEF Game!From, Game!Back

\* Completes is a five: on a board without one, a stone of kind at an empty
\* point makes one just if the point completes it.
Played(pos, kind) ==
  chessMap' = [chessMap EXCEPT ![pos] = kind] /\ grateSize' = grateSize

LEMMA PlayedStones ==
  ASSUME GameInv, NEW pos \in Game!Vacant, NEW kind \in {Game!Black, Game!White}, Played(pos, kind)
  PROVE  /\ pos \in Game!Cells /\ pos \in Int \X Int /\ Game!Cells' = Game!Cells
         /\ \A q, c : Game!Stone(q, c)' <=> IF q = pos THEN c = kind ELSE Game!Stone(q, c)
         /\ \A c \in {Game!Black, Game!White} : ~Game!Stone(pos, c)
<1>1. pos \in Game!Cells /\ pos \in Int \X Int /\ Game!Cells' = Game!Cells
  BY CellsAreInts DEF Game!Vacant, Played, Game!Cells
<1>2. /\ chessMap' \in [Game!Cells -> {Game!Empty, Game!Black, Game!White}] /\ chessMap'[pos] = kind
      /\ \A q \in Game!Cells : q # pos => chessMap'[q] = chessMap[q]
  BY <1>1 DEF GameInv, Played
<1>3. chessMap[pos] = Game!Empty
  BY DEF Game!Vacant
<1> QED
  BY <1>1, <1>2, <1>3 DEF Game!Stone, Game!Empty, Game!Black, Game!White

LEMMA CompletedFive ==
  ASSUME GameInv, NEW pos \in Game!Vacant, NEW kind \in {Game!Black, Game!White}, Played(pos, kind),
         Game!Completes(pos, kind)
  PROVE  Game!Five(kind)'
<1>1. PICK d \in Game!Directions : Game!Num(pos, d, kind) >= 4
  BY DEF Game!Completes
<1>2. PICK a \in 0..4 : /\ a = Game!Stones(pos, d, kind)
                       /\ \A i \in 1..a : Game!Stone(Game!From(pos, i, d), kind)
  BY StonesCounted
<1>3. PICK b \in 0..4 : /\ b = Game!Stones(pos, Game!Back(d), kind)
                       /\ \A i \in 1..b : Game!Stone(Game!From(pos, i, Game!Back(d)), kind)
  BY StonesCounted
<1>4. a + b >= 4
  BY <1>1, <1>2, <1>3 DEF Game!Num
<1>5. \A k \in 0..4 : Game!Stone(Game!From(pos, k - b, d), kind)'
  <2> SUFFICES ASSUME NEW k \in 0..4 PROVE Game!Stone(Game!From(pos, k - b, d), kind)'
    OBVIOUS
  <2>1. CASE k = b
    <3>1. k - b = 0 /\ pos \in Int \X Int /\ 0 \in Int
      BY <2>1, PlayedStones
    <3>2. Game!From(pos, 0, d) = pos
      BY <3>1, PlayedBack
    <3> QED
      BY <3>1, <3>2, PlayedStones
  <2>2. CASE k > b
    <3>1. k - b \in 1..a
      BY <1>2, <1>3, <1>4, <2>2
    <3>2. Game!Stone(Game!From(pos, k - b, d), kind)
      BY <1>2, <3>1
    <3> QED
      BY <3>2, PlayedStones
  <2>3. CASE k < b
    <3>1. b - k \in 1..b /\ b - k \in Int /\ -(b - k) = k - b
      BY <1>3, <2>3
    <3>2. Game!Stone(Game!From(pos, b - k, Game!Back(d)), kind)
      BY <1>3, <3>1
    <3>3. Game!From(pos, b - k, Game!Back(d)) = Game!From(pos, -(b - k), d)
      <4>1. pos \in Int \X Int
        BY PlayedStones
      <4> QED
        BY <3>1, <4>1, PlayedBack
    <3> QED
      BY <3>1, <3>2, <3>3, PlayedStones
  <2> QED
    BY <1>3, <2>1, <2>2, <2>3
<1> DEFINE start == Game!From(pos, -b, d)
<1>6. \A k \in 0..4 : Game!From(start, k, d) = Game!From(pos, k - b, d)
  <2> SUFFICES ASSUME NEW k \in 0..4 PROVE Game!From(start, k, d) = Game!From(pos, k - b, d)
    OBVIOUS
  <2>1. k \in Int /\ -b \in Int /\ -b + k = k - b
    BY <1>3
  <2> QED
    BY <2>1, PlayedStones, PlayedBack
<1>7. start \in Game!Cells
  <2>1. 0 \in 0..4 /\ 0 - b = -b
    BY <1>3
  <2>2. Game!Stone(start, kind)'
    BY <1>5, <2>1
  <2> QED
    BY <2>2, PlayedStones DEF Game!Stone
<1> HIDE DEF start
<1>8. \A k \in 0..4 : Game!Stone(Game!From(start, k, d), kind)'
  BY <1>5, <1>6
<1> QED
  BY <1>7, <1>8, PlayedStones DEF Game!Five

LEMMA FiveCompleted ==
  ASSUME GameInv, NEW pos \in Game!Vacant, NEW kind \in {Game!Black, Game!White}, Played(pos, kind),
         ~Game!Five(kind), Game!Five(kind)'
  PROVE  Game!Completes(pos, kind)
<1>1. PICK p \in Game!Cells, d \in Game!Directions : \A k \in 0..4 : Game!Stone(Game!From(p, k, d), kind)'
  BY PlayedStones DEF Game!Five
<1>2. PICK i \in 0..4 : ~Game!Stone(Game!From(p, i, d), kind)
  BY <1>1 DEF Game!Five
<1>3. Game!From(p, i, d) = pos
  BY <1>1, <1>2, PlayedStones
<1>4. p \in Int \X Int /\ p = Game!From(pos, -i, d) /\ pos \in Int \X Int
  BY <1>3, BackAndForth, CellsAreInts, PlayedStones
<1>5. \A j \in (-i)..(4 - i) : j # 0 => Game!Stone(Game!From(pos, j, d), kind)
  <2> SUFFICES ASSUME NEW j \in (-i)..(4 - i), j # 0 PROVE Game!Stone(Game!From(pos, j, d), kind)
    OBVIOUS
  <2>1. i + j \in 0..4 /\ i + j \in Int /\ -i \in Int /\ -i + (i + j) = j /\ j \in Int
    OBVIOUS
  <2>2. Game!From(p, i + j, d) = Game!From(pos, j, d)
    BY <1>4, <2>1, PlayedBack
  <2>3. Game!From(pos, j, d) # pos
    <3>1. PICK x \in Int, y \in Int : pos = <<x, y>>
      BY <1>4
    <3>2. PICK a \in {-1, 0, 1}, b \in {-1, 0, 1} : d = <<a, b>> /\ ~(a = 0 /\ b = 0)
      BY DEF Game!Directions
    <3>3. ASSUME NEW u \in Int, NEW c \in {-1, 1} PROVE u + j * c # u
      BY <2>1, <3>3
    <3>4. Game!From(pos, j, d) = <<x + j * a, y + j * b>>
      BY <3>1, <3>2 DEF Game!From
    <3> QED
      BY <3>1, <3>2, <3>3, <3>4
  <2> QED
    BY <1>1, <2>1, <2>2, <2>3, PlayedStones
<1> DEFINE a == Game!Stones(pos, d, kind)
           b == Game!Stones(pos, Game!Back(d), kind)
<1>6. a \in 0..4 /\ (a = 4 \/ ~Game!Stone(Game!From(pos, a + 1, d), kind))
  BY StonesCounted
<1>7. b \in 0..4 /\ (b = 4 \/ ~Game!Stone(Game!From(pos, b + 1, Game!Back(d)), kind))
  BY StonesCounted
<1> HIDE DEF a, b
<1>8. a >= 4 - i
  <2> SUFFICES ASSUME a < 4 - i PROVE FALSE
    BY <1>6
  <2>1. a + 1 \in (-i)..(4 - i) /\ a + 1 # 0 /\ a # 4
    BY <1>6
  <2> QED
    BY <1>5, <1>6, <2>1
<1>9. b >= i
  <2> SUFFICES ASSUME b < i PROVE FALSE
    BY <1>7
  <2>1. -(b + 1) \in (-i)..(4 - i) /\ -(b + 1) # 0 /\ b # 4 /\ b + 1 \in Int
    BY <1>7
  <2>2. Game!From(pos, b + 1, Game!Back(d)) = Game!From(pos, -(b + 1), d)
    BY <1>4, <2>1, PlayedBack
  <2> QED
    BY <1>5, <1>7, <2>1, <2>2
<1>10. Game!Num(pos, d, kind) >= 4
  BY <1>6, <1>7, <1>8, <1>9 DEF Game!Num, a, b
<1> QED
  BY <1>10 DEF Game!Completes

\* White stones complete no black five.
CountsStones ==
  \A pos, d, kind :
    /\ Game!Stones(pos, d, kind) \in 0..4
    /\ \A i \in 1..Game!Stones(pos, d, kind) : Game!Stone(Game!From(pos, i, d), kind)
    /\ \/ Game!Stones(pos, d, kind) = 4
       \/ ~Game!Stone(Game!From(pos, Game!Stones(pos, d, kind) + 1, d), kind)

LEMMA CountsStonesAlways == []CountsStones
<1>1. CountsStones
  BY StonesCounted DEF CountsStones
<1> QED
  BY <1>1, PTL

LEMMA OnlyTaken ==
  ASSUME GameInv, NEW pos \in Game!Vacant, Played(pos, Game!White), NEW q, Game!Completes(q, Game!Black)'
  PROVE  Game!Completes(q, Game!Black)
<1>1. \A p : Game!Stone(p, Game!Black)' => Game!Stone(p, Game!Black)
  BY PlayedStones DEF Game!White, Game!Black
<1>2. CountsStones'
  BY CountsStonesAlways, PTL
<1>3. ASSUME NEW d PROVE Game!Stones(q, d, Game!Black)' <= Game!Stones(q, d, Game!Black)
  <2>1. PICK after \in 0..4 : /\ after = Game!Stones(q, d, Game!Black)'
                             /\ \A i \in 1..after : Game!Stone(Game!From(q, i, d), Game!Black)'
    BY <1>2 DEF CountsStones, Game!Black
  <2>2. PICK n \in 0..4 : n = Game!Stones(q, d, Game!Black)
    BY StonesCounted
  <2>3. n = 4 \/ ~Game!Stone(Game!From(q, n + 1, d), Game!Black)
    BY <2>2, StonesCounted
  <2>4. after <= n
    <3> SUFFICES ASSUME after > n PROVE FALSE
      OBVIOUS
    <3>1. n + 1 \in 1..after /\ n # 4
      OBVIOUS
    <3>2. Game!Stone(Game!From(q, n + 1, d), Game!Black)'
      BY <2>1, <3>1
    <3> QED
      BY <1>1, <2>3, <3>1, <3>2
  <2>5. after = Game!Stones(q, d, Game!Black)'
    BY <2>1, Zenon
  <2> QED
    BY <2>2, <2>4, <2>5
<1>4. PICK d \in Game!Directions : Game!Num(q, d, Game!Black)' >= 4
  BY DEF Game!Completes
<1>5. /\ Game!Stones(q, d, Game!Black)' \in 0..4
      /\ Game!Stones(q, Game!Back(d), Game!Black)' \in 0..4
  BY <1>2 DEF CountsStones, Game!Black
<1>6. Game!Stones(q, d, Game!Black) \in 0..4 /\ Game!Stones(q, Game!Back(d), Game!Black) \in 0..4
  BY StonesCounted
<1>7. Game!Num(q, d, Game!Black) >= 4
  BY <1>3, <1>4, <1>5, <1>6 DEF Game!Num
<1> QED
  BY <1>4, <1>7 DEF Game!Completes

\* Whoever is to place a stone has playerFlag's colour.
TurnInv == /\ at \in {"man", "ai down"} => playerFlag
           /\ at \in {"ai", "man down"} => ~playerFlag

LEMMA TurnInvariance == AllSpec => []TurnInv
<1>1. AllInit => TurnInv
  BY DEF AllInit, Game!Init, TurnInv
<1>2. GameInv /\ TurnInv /\ [Game!Next]_gameVars => TurnInv'
  <2> SUFFICES ASSUME GameInv, TurnInv, [Game!Next]_gameVars PROVE TurnInv'
    OBVIOUS
  <2>1. CASE Game!ManGo \/ Game!AiGo
    <3>1. /\ (at = "man" /\ at' = "man down") \/ (at = "ai" /\ at' = "ai down")
          /\ playerFlag' <=> ~playerFlag
      BY <2>1 DEF Game!ManGo, Game!AiGo, Game!ChessDown
    <3> QED
      BY <3>1 DEF TurnInv
  <2>2. CASE Game!CheckOver
    <3>1. \/ at' = "man" /\ playerFlag'
          \/ /\ (at = "man down" /\ at' = "ai") \/ (at = "ai down" /\ at' = "man")
             /\ playerFlag' <=> playerFlag
      BY <2>2 DEF Game!CheckOver, Game!NewGame
    <3> QED
      BY <3>1 DEF TurnInv
  <2>3. CASE Game!AiNowhere \/ Game!ClickOutside \/ UNCHANGED gameVars
    <3>1. (playerFlag' <=> playerFlag) /\ (at' = at \/ at' = "crashed")
      BY <2>3 DEF Game!AiNowhere, Game!ClickOutside, gameVars
    <3> QED
      BY <3>1 DEF TurnInv
  <2> QED
    BY <2>1, <2>2, <2>3 DEF Game!Next
<1>3. [AllNext]_allVars => [Game!Next]_gameVars
  BY DEF AllNext, allVars
<1> QED
  BY <1>1, <1>2, <1>3, GameInvariance, PTL DEF AllSpec

\* On boards of every size and in every position: the program takes a five it
\* can make, and otherwise plays where the person would make one, but for the
\* scores that calculateScore overwrote and the open threes that outweigh them
\* (AI::calculateScore, AI::think).
THEOREM FoursAreAnswered == AllSpec => []AnswersFours
<1>1. AnswersFours
  BY FoursAnswered DEF AnswersFours
<1> QED
  BY <1>1, PTL

\* As long as a point is empty there are points to draw lots among: the modulus
\* in AI::think is zero on a full board only.
THEOREM ProgramFindsAPoint == AllSpec => [](at = "ai" /\ Game!Vacant # {} => Game!MaxPoints # {})
<1>1. GameInv => (at = "ai" /\ Game!Vacant # {} => Game!MaxPoints # {})
  BY SomePointIsBest DEF GameInv
<1> QED
  BY <1>1, GameInvariance, PTL

\* A move of the program where no open three is to be made: it ends the game if
\* it scored a five of its own, and leaves the person no five to make if it
\* scored the only one.
TakesOrBlocks ==
  LET Fives(kind) == {pos \in Game!Vacant : Game!Completes(pos, kind)}
  IN  Game!AiGo /\ (\A pos \in Game!Vacant : Game!OpenThrees(pos) = 0) =>
        /\ (\E pos \in Fives(Game!White) : Game!Counted(pos, Game!White)) => Game!Five(Game!White)'
        /\ \A need : /\ Fives(Game!White) = {} /\ Fives(Game!Black) = {need}
                     /\ Game!Counted(need, Game!Black)
                     => \A pos \in Game!Vacant' : ~Game!Completes(pos, Game!Black)'

\* checkWin and calculateScore agree on what a five is: whoever places a stone
\* makes one just where calculateScore counts four or more of his stones along
\* a line (Chess::checkWin, AI::calculateScore, ChessGame::play).
FivesAreCompletedBy ==
  Game!ManGo \/ Game!AiGo =>
    \E pos \in Game!Vacant :
      /\ lastPos' = pos
      /\ \A kind \in {Game!Black, Game!White} :
           (kind = IF playerFlag THEN Game!Black ELSE Game!White) =>
             (Game!Five(kind)' <=> Game!Completes(pos, kind))

THEOREM FivesAreCompleted == AllSpec => [][FivesAreCompletedBy]_gameVars
<1>1. ASSUME GameInv, Game!ManGo \/ Game!AiGo
      PROVE  \E pos \in Game!Vacant :
               /\ lastPos' = pos
               /\ \A kind \in {Game!Black, Game!White} :
                    (kind = IF playerFlag THEN Game!Black ELSE Game!White) =>
                      (Game!Five(kind)' <=> Game!Completes(pos, kind))
  <2>1. PICK pos \in Game!Vacant : Game!ChessDown(pos)
    <3>1. \A q \in Game!MaxPoints : q \in Game!Vacant
      BY DEF Game!MaxPoints
    <3>2. CASE Game!ManGo
      BY <3>2 DEF Game!ManGo
    <3>3. CASE Game!AiGo
      BY <3>1, <3>3 DEF Game!AiGo
    <3> QED
      BY <1>1, <3>2, <3>3
  <2>2. ASSUME NEW kind \in {Game!Black, Game!White},
               kind = IF playerFlag THEN Game!Black ELSE Game!White
        PROVE  Game!Five(kind)' <=> Game!Completes(pos, kind)
    <3>1. Played(pos, kind)
      BY <2>1, <2>2 DEF Game!ChessDown, Played
    <3>2. ~Game!Five(kind)
      <4>1. ~Down
        BY <1>1 DEF Game!ManGo, Game!AiGo, Down
      <4>2. \A p \in Game!Cells, d \in Game!Directions : ~FiveAt(p, d, kind)
        BY <1>1, <4>1 DEF GameInv
      <4> QED
        BY <4>2 DEF Game!Five, FiveAt
    <3> QED
      BY <1>1, <3>1, <3>2, CompletedFive, FiveCompleted
  <2>3. lastPos' = pos
    BY <2>1 DEF Game!ChessDown
  <2> QED
    BY <2>2, <2>3
<1>2. GameInv => [FivesAreCompletedBy]_gameVars
  BY <1>1 DEF FivesAreCompletedBy
<1> QED
  BY <1>2, GameInvariance, PTL

\* What the scores come to on the board (AI::think, Chess::chessDown): the five
\* the program chose is made, and the five the person had is gone.
THEOREM ProgramTakesOrBlocks == AllSpec => [][TakesOrBlocks]_gameVars
<1> DEFINE Fives(kind) == {pos \in Game!Vacant : Game!Completes(pos, kind)}
<1>1. ASSUME GameInv, TurnInv, Game!AiGo, \A pos \in Game!Vacant : Game!OpenThrees(pos) = 0
      PROVE  /\ (\E pos \in Fives(Game!White) : Game!Counted(pos, Game!White)) => Game!Five(Game!White)'
             /\ \A need : /\ Fives(Game!White) = {} /\ Fives(Game!Black) = {need}
                          /\ Game!Counted(need, Game!Black)
                          => \A pos \in Game!Vacant' : ~Game!Completes(pos, Game!Black)'
  <2>1. PICK pos \in Game!MaxPoints : Game!ChessDown(pos)
    BY <1>1 DEF Game!AiGo
  <2>2. at = "ai" /\ ~playerFlag
    BY <1>1 DEF Game!AiGo, TurnInv
  <2>3. Played(pos, Game!White) /\ pos \in Game!Vacant /\ Game!OpenThrees(pos) = 0
    <3>1. pos \in Game!Vacant
      BY DEF Game!MaxPoints
    <3>2. Played(pos, Game!White)
      BY <2>1, <2>2 DEF Game!ChessDown, Played
    <3> QED
      BY <1>1, <3>1, <3>2
  <2>4. ASSUME \E win \in Fives(Game!White) : Game!Counted(win, Game!White)
        PROVE  Game!Five(Game!White)'
    <3>1. pos \in Fives(Game!White) \/ 0 >= IF pos \in Fives(Game!Black) THEN 1 ELSE 3
      BY <2>2, <2>3, <2>4, FoursAnswered DEF Game!AnswersFours
    <3>2. Game!Completes(pos, Game!White)
      BY <3>1
    <3> QED
      BY <1>1, <2>3, <3>2, CompletedFive
  <2>5. ASSUME NEW need, Fives(Game!White) = {}, Fives(Game!Black) = {need}, Game!Counted(need, Game!Black),
               NEW q \in Game!Vacant', Game!Completes(q, Game!Black)'
        PROVE  FALSE
    <3>1. pos \in Fives(Game!Black) \/ 0 >= 2
      <4>1. need \in Fives(Game!Black)
        BY <2>5
      <4> QED
        BY <2>2, <2>3, <2>5, <4>1, FoursAnswered DEF Game!AnswersFours
    <3>2. pos = need
      BY <2>5, <3>1
    <3>3. Game!Completes(q, Game!Black)
      BY <1>1, <2>3, <2>5, OnlyTaken
    <3>4. q \in Game!Vacant /\ q # pos
      <4>1. q \in Game!Cells' /\ chessMap'[q] = Game!Empty
        BY <2>5 DEF Game!Vacant
      <4>2. Game!Stone(q, Game!Empty)'
        BY <4>1 DEF Game!Stone
      <4>3. q # pos /\ Game!Stone(q, Game!Empty)
        BY <1>1, <2>3, <4>2, PlayedStones DEF Game!Empty, Game!White
      <4> QED
        BY <4>3 DEF Game!Stone, Game!Vacant
    <3> QED
      BY <2>5, <3>2, <3>3, <3>4
  <2> QED
    BY <2>4, <2>5
<1>2. GameInv /\ TurnInv => [TakesOrBlocks]_gameVars
  BY <1>1 DEF TakesOrBlocks
<1> QED
  BY <1>2, GameInvariance, TurnInvariance, PTL

-----------------------------------------------------------------------------
(* Bubble.                                                                 *)

\* Every call has these fields.
Fields == {"no", "by", "verb", "at", "row", "id", "want", "pc", "todo", "list", "fresh"}

Edits(c) == c.verb = "edit" /\ c.pc \notin {"arrived", "ok", "error"}
Writes(c) == Edits(c) /\ c.pc \notin {"refuse", "saved"}

\* What RowsAreAdded says of a row that is in the table.
Covered(i) == (i \in gone => i \in mayReturn) /\ (i \in added \/ masked)

TableInv ==
  /\ nextId \in Nat \ {0}
  /\ DOMAIN db \subseteq 1..(nextId - 1) /\ gone \subseteq 1..(nextId - 1)
  /\ \A i \in DOMAIN db : Covered(i)

\* A PUT may write the row it found.
CallOK(c) ==
  /\ DOMAIN c = Fields
  /\ Writes(c) => /\ DOMAIN c.todo = {"id", "status"}
                  /\ c.todo.id \in 0..(nextId - 1)
                  /\ c.todo.id = 0 \/ Covered(c.todo.id)
                  /\ c.pc \in {"find", "insert"} => c.todo.id # 0

\* A PUT that found no row is told so, unless another PUT used err meanwhile.
Told(c) == c.pc = "refuse" \/ (c.pc = "first" /\ err)
ErrInv == masked \/ (\A c \in Todo!Editing : c.todo.id # 0) \/ (\A c \in Todo!Editing : Told(c))

RowInv == TableInv /\ (\A c \in calls : CallOK(c)) /\ ErrInv

Like(c, d) == DOMAIN c = Fields /\ c.verb = d.verb /\ c.pc = d.pc /\ c.todo = d.todo

LEMMA WithPc ==
  ASSUME NEW c, DOMAIN c = Fields, NEW v
  PROVE  LET d == [c EXCEPT !.pc = v]
         IN  DOMAIN d = Fields /\ d.pc = v /\ d.todo = c.todo /\ d.verb = c.verb
BY DEF Fields

LEMMA StaleIsLike ==
  ASSUME NEW c, DOMAIN c = Fields
  PROVE  Like([c EXCEPT !.fresh = FALSE], c)
BY DEF Fields, Like

LEMMA NewCalls ==
  ASSUME NEW p, NEW verb
  PROVE  LET c == Todo!NewCall(p, verb)
         IN  DOMAIN c = Fields /\ c.pc = "arrived" /\ c.verb = verb
BY DEF Todo!NewCall, Fields

LEMMA EditingIs == Todo!Editing = {c \in calls : Edits(c)} /\ Todo!Writing = {c \in calls : Writes(c)}
BY DEF Todo!Editing, Todo!Writing, Edits, Writes

\* The calls that stay as they are.
LEMMA OthersStay ==
  ASSUME RowInv, NEW d,
         \A x \in calls' : x = d \/ \E y \in calls : Like(x, y),
         CallOK(d)',
         nextId' \in Nat, nextId <= nextId',
         \A y \in Todo!Writing : Covered(y.todo.id) => Covered(y.todo.id)'
  PROVE  \A x \in calls' : CallOK(x)'
<1> TAKE x \in calls'
<1>1. CASE x = d
  BY <1>1
<1>2. ASSUME NEW y \in calls, Like(x, y) PROVE CallOK(x)'
  <2>1. CallOK(y) /\ (Writes(x) <=> Writes(y)) /\ x.todo = y.todo /\ x.pc = y.pc
        /\ DOMAIN x = Fields
    BY <1>2 DEF RowInv, Like, Writes, Edits
  <2>2. CASE Writes(x)
    <3>1. y \in Todo!Writing /\ y.todo.id \in 0..(nextId - 1)
      BY <2>1, <2>2, EditingIs DEF CallOK
    <3>2. y.todo.id \in 0..(nextId' - 1)
      BY <3>1 DEF RowInv, TableInv
    <3>3. y.todo.id = 0 \/ Covered(y.todo.id)'
      BY <2>1, <2>2, <3>1 DEF CallOK
    <3> QED
      BY <2>1, <2>2, <3>2, <3>3 DEF CallOK, Writes, Edits
  <2>3. CASE ~Writes(x)
    BY <2>1, <2>3 DEF CallOK, Writes, Edits
  <2> QED
    BY <2>2, <2>3
<1> QED
  BY <1>1, <1>2

\* Nothing of the table changes.
LEMMA TableStays ==
  ASSUME RowInv, UNCHANGED <<db, nextId, added, gone, mayReturn>>, masked => masked'
  PROVE  TableInv' /\ \A i : Covered(i) => Covered(i)'
BY DEF RowInv, TableInv, Covered

\* A step of no PUT does not touch err.
LEMMA ErrStays ==
  ASSUME RowInv, NEW d, ~Edits(d), UNCHANGED <<err, masked>>,
         \A x \in calls' : x = d \/ \E y \in calls : Like(x, y)
  PROVE  ErrInv'
<1>1. \A x \in Todo!Editing' : \E y \in Todo!Editing : x.pc = y.pc /\ x.todo = y.todo
  BY DEF Todo!Editing, Like, Edits
<1> QED
  BY <1>1 DEF RowInv, ErrInv, Told

\* A step of a PUT that found its row, or goes on to tell it did not.
LEMMA ErrOfPut ==
  ASSUME RowInv, NEW c \in Todo!Editing, NEW d, UNCHANGED masked, d.todo.id = c.todo.id,
         \A x \in calls' : x = d \/ \E y \in calls : Like(x, y),
         Told(c) => err' = err /\ (Edits(d) => Told(d))
  PROVE  ErrInv'
<1>1. \A x \in Todo!Editing' : (x = d /\ Edits(d)) \/ \E y \in Todo!Editing : x.pc = y.pc /\ x.todo = y.todo
  BY DEF Todo!Editing, Like, Edits
<1>2. CASE masked
  BY <1>2 DEF ErrInv
<1>3. CASE \A y \in Todo!Editing : y.todo.id # 0
  BY <1>1, <1>3 DEF ErrInv
<1>4. CASE \A y \in Todo!Editing : Told(y)
  BY <1>1, <1>4 DEF ErrInv, Told
<1> QED
  BY <1>2, <1>3, <1>4 DEF RowInv, ErrInv

\* How the calls change.
LEMMA Changes ==
  ASSUME RowInv, NEW c \in calls, NEW d, NEW newDb,
         Todo!Become(c, d) \/ Todo!Write(c, d, newDb) \/ calls' = calls \ {c} \/ calls' = calls \/ calls' = calls \cup {d}
  PROVE  \A x \in calls' : x = d \/ \E y \in calls : Like(x, y)
<1>1. \A y \in calls : DOMAIN y = Fields
  BY DEF RowInv, CallOK
<1>2. \A y \in calls : Like(y, y) /\ Like([y EXCEPT !.fresh = FALSE], y)
  BY <1>1, StaleIsLike DEF Like
<1>3. \A x \in Todo!Outdated(calls \ {c}) : \E y \in calls : x = [y EXCEPT !.fresh = FALSE]
  BY DEF Todo!Outdated
<1>4. \/ calls' \subseteq calls \cup {d}
      \/ calls' = Todo!Outdated(calls \ {c}) \cup {d}
  BY DEF Todo!Become, Todo!Write
<1> SUFFICES ASSUME NEW x \in calls', x # d PROVE \E y \in calls : Like(x, y)
  OBVIOUS
<1>5. x \in calls \/ \E y \in calls : x = [y EXCEPT !.fresh = FALSE]
  BY <1>3, <1>4
<1> QED
  BY <1>2, <1>5

\* A step that neither writes the table nor is a PUT's.
LEMMA Aside ==
  ASSUME RowInv, UNCHANGED <<db, nextId, err, Todo!history>>,
         \/ calls' \subseteq calls
         \/ \E c \in calls : \E d : Todo!Become(c, d) /\ DOMAIN d = Fields /\ ~Edits(d)
         \/ \E d : calls' = calls \cup {d} /\ DOMAIN d = Fields /\ ~Edits(d)
  PROVE  RowInv'
<1>1. CASE calls' \subseteq calls
  <2>1. TableInv' /\ \A i : Covered(i) => Covered(i)'
    BY TableStays DEF Todo!history
  <2>2. \A c \in calls : CallOK(c) => CallOK(c)'
    BY <2>1 DEF CallOK, Writes, Edits, Todo!history
  <2>3. ErrInv'
    BY <1>1 DEF RowInv, ErrInv, Todo!Editing, Told, Todo!history
  <2> QED
    BY <1>1, <2>1, <2>2, <2>3 DEF RowInv
<1>2. ASSUME NEW d, DOMAIN d = Fields, ~Edits(d),
             \A x \in calls' : x = d \/ \E y \in calls : Like(x, y)
      PROVE  RowInv'
  <2>1. TableInv' /\ \A i : Covered(i) => Covered(i)'
    BY TableStays DEF Todo!history
  <2>2. CallOK(d)'
    BY <1>2 DEF CallOK, Writes, Edits
  <2>3. nextId' \in Nat /\ nextId <= nextId'
    BY DEF RowInv, TableInv, Todo!history
  <2>4. \A x \in calls' : CallOK(x)'
    BY <1>2, <2>1, <2>2, <2>3, OthersStay
  <2>5. ErrInv'
    BY <1>2, ErrStays DEF Todo!history
  <2> QED
    BY <2>1, <2>4, <2>5 DEF RowInv
<1>3. ASSUME NEW c \in calls, NEW d, Todo!Become(c, d), DOMAIN d = Fields, ~Edits(d) PROVE RowInv'
  BY <1>2, <1>3, Changes
<1>4. ASSUME NEW d, calls' = calls \cup {d}, DOMAIN d = Fields, ~Edits(d) PROVE RowInv'
  <2>1. \A y \in calls : Like(y, y)
    BY DEF RowInv, CallOK, Like
  <2> QED
    BY <1>2, <1>4, <2>1
<1> QED
  BY <1>1, <1>3, <1>4

\* A step of a PUT that leaves the table alone.
LEMMA PutAside ==
  ASSUME RowInv, NEW c \in Todo!Editing, NEW d, DOMAIN d = Fields,
         d.todo.id = c.todo.id, DOMAIN d.todo = DOMAIN c.todo,
         Todo!Become(c, d) \/ calls' = calls \ {c},
         UNCHANGED <<db, nextId, Todo!history>>,
         Writes(d) => Writes(c) /\ (d.pc \in {"find", "insert"} => c.todo.id # 0),
         Told(c) => err' = err /\ (Edits(d) => Told(d))
  PROVE  RowInv'
<1>1. TableInv' /\ \A i : Covered(i) => Covered(i)'
  BY TableStays DEF Todo!history
<1>2. c \in calls /\ CallOK(c) /\ UNCHANGED masked
  BY DEF Todo!Editing, RowInv, Todo!history
<1>3. \A x \in calls' : x = d \/ \E y \in calls : Like(x, y)
  BY <1>2, Changes
<1>4. nextId' \in Nat /\ nextId <= nextId' /\ nextId' = nextId
  BY DEF RowInv, TableInv
<1>5. CallOK(d)'
  BY <1>1, <1>2, <1>4 DEF CallOK, Writes, Edits
<1>6. \A x \in calls' : CallOK(x)'
  BY <1>1, <1>3, <1>4, <1>5, OthersStay
<1>7. ErrInv'
  BY <1>2, <1>3, ErrOfPut
<1> QED
  BY <1>1, <1>6, <1>7 DEF RowInv

\* A step of a PUT that writes the table, which then knows row id.
LEMMA PutWrites ==
  ASSUME RowInv, NEW c \in Todo!Editing, NEW id \in 1..(nextId' - 1),
         c.pc \in {"save", "insert"}, Covered(id),
         Todo!Write(c, [c EXCEPT !.pc = "saved"], db'), DOMAIN db' = DOMAIN db \cup {id},
         nextId' \in {nextId, nextId + 1}, UNCHANGED Todo!history
  PROVE  RowInv'
<1> DEFINE d == [c EXCEPT !.pc = "saved"]
<1>1. c \in calls /\ CallOK(c) /\ UNCHANGED masked
  BY DEF Todo!Editing, RowInv, Todo!history
<1>2. DOMAIN d = Fields /\ d.pc = "saved" /\ d.todo = c.todo /\ d.verb = c.verb
  BY <1>1, WithPc DEF CallOK
<1>3. \A x \in calls' : x = d \/ \E y \in calls : Like(x, y)
  BY <1>1, Changes
<1> HIDE DEF d
<1>4. \A i : Covered(i) => Covered(i)'
  BY DEF Covered, Todo!history
<1>5. nextId' \in Nat \ {0} /\ nextId <= nextId'
  BY DEF RowInv, TableInv
<1>6. TableInv'
  <2>1. DOMAIN db' \subseteq 1..(nextId' - 1) /\ gone' \subseteq 1..(nextId' - 1)
    BY <1>5 DEF RowInv, TableInv, Todo!history
  <2> QED
    BY <1>4, <1>5, <2>1 DEF RowInv, TableInv
<1>7. CallOK(d)'
  BY <1>2 DEF CallOK, Writes
<1>8. \A x \in calls' : CallOK(x)'
  BY <1>3, <1>4, <1>5, <1>7, OthersStay
<1>9. ErrInv'
  BY <1>1, <1>2, <1>3, ErrOfPut DEF Told
<1> QED
  BY <1>6, <1>8, <1>9 DEF RowInv

LEMMA PostKeeps ==
  ASSUME RowInv, NEW c \in calls, Todo!Post(c)
  PROVE  RowInv'
<1> DEFINE d == [c EXCEPT !.pc = "ok"]
<1>1. CallOK(c) /\ Todo!Write(c, d, Todo!With(nextId, FALSE)) /\ UNCHANGED <<err, gone, mayReturn, masked>>
      /\ nextId' = nextId + 1 /\ added' = added \cup {nextId}
  BY DEF RowInv, Todo!Post
<1>2. DOMAIN d = Fields /\ d.pc = "ok"
  BY <1>1, WithPc DEF CallOK
<1>3. \A x \in calls' : x = d \/ \E y \in calls : Like(x, y)
  BY <1>1, Changes
<1>4. DOMAIN db' = DOMAIN db \cup {nextId}
  BY <1>1 DEF Todo!Write, Todo!With
<1> HIDE DEF d
<1>5. nextId \in Nat \ {0} /\ nextId' \in Nat \ {0} /\ nextId <= nextId'
  BY <1>1 DEF RowInv, TableInv
<1>6. \A i : Covered(i) => Covered(i)'
  BY <1>1 DEF Covered
<1>7. TableInv'
  <2>1. \A i : i = nextId => Covered(i)'
    BY <1>1, <1>5 DEF Covered, RowInv, TableInv
  <2>2. DOMAIN db' \subseteq 1..(nextId' - 1) /\ gone' \subseteq 1..(nextId' - 1)
    BY <1>1, <1>4, <1>5 DEF RowInv, TableInv
  <2> QED
    BY <1>4, <1>5, <1>6, <2>1, <2>2 DEF RowInv, TableInv
<1>8. CallOK(d)'
  BY <1>2 DEF CallOK, Writes, Edits
<1>9. \A x \in calls' : CallOK(x)'
  BY <1>3, <1>5, <1>6, <1>8, OthersStay
<1>10. ErrInv'
  BY <1>1, <1>2, <1>3, ErrStays DEF Edits
<1> QED
  BY <1>7, <1>9, <1>10 DEF RowInv

\* A row that is removed may come back only by a PUT that is writing it.
LEMMA DeleteKeeps ==
  ASSUME RowInv, NEW c \in calls, Todo!Delete(c)
  PROVE  RowInv'
<1> DEFINE d == [c EXCEPT !.pc = "ok"]
<1>1. CallOK(c)
  BY DEF RowInv
<1>2. DOMAIN d = Fields /\ d.pc = "ok"
  BY <1>1, WithPc DEF CallOK
<1>3. CASE c.id \notin DOMAIN db
  <2>1. Todo!Become(c, d) /\ UNCHANGED <<db, nextId, err, Todo!history>>
    BY <1>3 DEF Todo!Delete, Todo!At, Todo!history
  <2> QED
    BY <1>2, <2>1, Aside DEF Edits
<1>4. CASE c.id \in DOMAIN db
  <2>1. /\ Todo!Write(c, d, Todo!Restrict(db, DOMAIN db \ {c.id})) /\ UNCHANGED <<nextId, err, added, masked>>
        /\ gone' = gone \cup {c.id}
        /\ mayReturn' = IF \E e \in Todo!Writing : e.todo.id = c.id
                        THEN mayReturn \cup {c.id} ELSE mayReturn \ {c.id}
    BY <1>4 DEF Todo!Delete
  <2>2. \A x \in calls' : x = d \/ \E y \in calls : Like(x, y)
    BY <2>1, Changes
  <2>3. DOMAIN db' = DOMAIN db \ {c.id}
    BY <2>1 DEF Todo!Write, Todo!Restrict
  <2> HIDE DEF d
  <2>4. \A i : i # c.id /\ Covered(i) => Covered(i)'
    BY <2>1 DEF Covered
  <2>5. \A y \in Todo!Writing : Covered(y.todo.id) => Covered(y.todo.id)'
    BY <2>1, <2>4 DEF Covered
  <2>6. nextId' \in Nat \ {0} /\ nextId <= nextId' /\ nextId' = nextId
    BY <2>1 DEF RowInv, TableInv
  <2>7. TableInv'
    BY <1>4, <2>1, <2>3, <2>4, <2>6 DEF RowInv, TableInv
  <2>8. CallOK(d)'
    BY <1>2 DEF CallOK, Writes, Edits
  <2>9. \A x \in calls' : CallOK(x)'
    BY <2>2, <2>5, <2>6, <2>8, OthersStay
  <2>10. ErrInv'
    BY <1>2, <2>1, <2>2, ErrStays DEF Edits
  <2> QED
    BY <2>7, <2>9, <2>10 DEF RowInv
<1> QED
  BY <1>3, <1>4

\* A PUT that finds no row while another is served hides its error; one that is
\* served alone is told of it.
LEMMA PutFirstKeeps ==
  ASSUME RowInv, NEW c \in calls, Todo!PutFirst(c)
  PROVE  RowInv'
<1> DEFINE here == c.id \in DOMAIN db
           todo == IF here THEN [id |-> c.id, status |-> db[c.id]] ELSE Todo!Blank
<1>0. PICK d : d = [c EXCEPT !.pc = "first", !.todo = todo]
  OBVIOUS
<1>1. CallOK(c) /\ c.verb = "edit" /\ Todo!Become(c, d) /\ UNCHANGED <<db, nextId, added, gone, mayReturn>>
      /\ err' = ~here
      /\ masked' = (masked \/ (Todo!Editing # {} /\ \E e \in Todo!Editing \cup {d} : e.todo.id = 0))
  <2>1. CallOK(c) /\ c.verb = "edit" /\ UNCHANGED <<db, nextId, added, gone, mayReturn>>
    BY DEF RowInv, Todo!PutFirst, Todo!Put
  <2>2. masked' = (masked \/ (Todo!Editing # {} /\ \E e \in Todo!Editing \cup {d} : e.todo.id = 0))
    BY <1>0 DEF Todo!PutFirst
  <2>3. CASE here
    BY <1>0, <2>1, <2>2, <2>3 DEF Todo!PutFirst
  <2>4. CASE ~here
    BY <1>0, <2>1, <2>2, <2>4 DEF Todo!PutFirst, Todo!Fail
  <2> QED
    BY <2>3, <2>4
<1>2. DOMAIN d = Fields /\ d.verb = "edit" /\ d.pc = "first" /\ d.todo = todo
  BY <1>0, <1>1 DEF CallOK, Fields
<1>3. \A x \in calls' : x = d \/ \E y \in calls : Like(x, y)
  BY <1>1, Changes
<1>4. d.todo.id = IF here THEN c.id ELSE 0
  BY <1>2 DEF Todo!Blank
<1> HIDE DEF todo
<1>5. TableInv' /\ \A i : Covered(i) => Covered(i)'
  BY <1>1, TableStays
<1>6. nextId' \in Nat \ {0} /\ nextId' = nextId /\ nextId <= nextId'
  BY <1>1 DEF RowInv, TableInv
<1>7. d.todo.id \in 0..(nextId' - 1) /\ (d.todo.id = 0 \/ Covered(d.todo.id)')
  <2>1. CASE here
    BY <1>4, <1>5, <1>6, <2>1 DEF RowInv, TableInv
  <2>2. CASE ~here
    BY <1>4, <1>6, <2>2
  <2> QED
    BY <2>1, <2>2
<1>8. CallOK(d)'
  <2>1. DOMAIN d.todo = {"id", "status"}
    BY <1>2 DEF todo, Todo!Blank
  <2> QED
    BY <1>2, <1>7, <2>1 DEF CallOK
<1>9. \A x \in calls' : CallOK(x)'
  BY <1>3, <1>5, <1>6, <1>8, OthersStay
<1>10. ErrInv'
  <2>1. \A x \in Todo!Editing' : x = d \/ \E y \in Todo!Editing : x.pc = y.pc /\ x.todo = y.todo
    BY <1>3 DEF Todo!Editing, Like
  <2>2. CASE masked'
    BY <2>2 DEF ErrInv
  <2>3. CASE Todo!Editing = {} /\ here
    <3>1. d.todo.id # 0
      BY <1>4, <2>3 DEF RowInv, TableInv
    <3> QED
      BY <2>1, <2>3, <3>1 DEF ErrInv
  <2>4. CASE Todo!Editing = {} /\ ~here
    BY <1>1, <1>2, <2>1, <2>4 DEF ErrInv, Told
  <2>5. CASE ~masked' /\ Todo!Editing # {}
    <3>1. \A e \in Todo!Editing \cup {d} : e.todo.id # 0
      BY <1>1, <2>5
    <3> QED
      BY <2>1, <3>1 DEF ErrInv
  <2> QED
    BY <2>2, <2>3, <2>4, <2>5
<1> QED
  BY <1>5, <1>9, <1>10 DEF RowInv

LEMMA PutsKeep ==
  ASSUME RowInv, NEW c \in calls,
         \/ Todo!PutFirstTest(c) \/ Todo!PutRefuse(c) \/ Todo!PutBind(c)
         \/ Todo!PutBindTest(c) \/ Todo!PutSaveTest(c) \/ Todo!SaveFind(c)
  PROVE  RowInv'
<1>1. CallOK(c) /\ DOMAIN c = Fields
  BY DEF RowInv, CallOK
<1>2. \A pc : LET d == [c EXCEPT !.pc = pc]
              IN  DOMAIN d = Fields /\ d.pc = pc /\ d.todo = c.todo /\ d.verb = c.verb
  BY <1>1, WithPc
<1>3. ASSUME NEW old \in {"first", "bound", "saved", "find"}, NEW new, Todo!Put(c, old), Todo!At(c, new),
             new \notin {"find", "insert"} \/ old = "find",
             new \in {"refuse", "ok", "error", "saved"} \/ old # "saved",
             old = "first" => err' = err /\ (err => new = "refuse"),
             UNCHANGED <<db, nextId, Todo!history>>
      PROVE  RowInv'
  <2> DEFINE d == [c EXCEPT !.pc = new]
  <2>1. DOMAIN d = Fields /\ d.pc = new /\ d.todo = c.todo /\ d.verb = c.verb
    BY <1>2
  <2>2. c \in Todo!Editing /\ c.pc = old /\ Todo!Become(c, d)
    BY <1>3 DEF Todo!Editing, Todo!Put, Todo!At
  <2> HIDE DEF d
  <2>3. Writes(d) => Writes(c) /\ (d.pc \in {"find", "insert"} => c.todo.id # 0)
    BY <1>1, <1>3, <2>1, <2>2 DEF Writes, Edits, CallOK, Todo!Put
  <2>4. Told(c) => err' = err /\ (Edits(d) => Told(d))
    BY <1>3, <2>1, <2>2 DEF Told
  <2> QED
    BY <1>3, <2>1, <2>2, <2>3, <2>4, PutAside
<1>4. CASE Todo!PutFirstTest(c)
  BY <1>3, <1>4 DEF Todo!PutFirstTest
<1>5. CASE Todo!PutBindTest(c)
  BY <1>3, <1>5 DEF Todo!PutBindTest
<1>6. CASE Todo!PutSaveTest(c)
  BY <1>3, <1>6 DEF Todo!PutSaveTest
<1>7. CASE Todo!SaveFind(c)
  BY <1>3, <1>7 DEF Todo!SaveFind
<1>8. CASE Todo!PutRefuse(c)
  <2> DEFINE d == [c EXCEPT !.pc = "error"]
  <2>1. DOMAIN d = Fields /\ d.pc = "error" /\ d.todo = c.todo
    BY <1>2
  <2>2. c \in Todo!Editing /\ UNCHANGED <<db, nextId, err, Todo!history>>
        /\ (Todo!Become(c, d) \/ calls' = calls \ {c})
    BY <1>8 DEF Todo!Editing, Todo!Put, Todo!PutRefuse, Todo!Settle, Todo!At
  <2> HIDE DEF d
  <2> QED
    BY <2>1, <2>2, PutAside DEF Writes, Edits
<1>9. CASE Todo!PutBind(c)
  <2> DEFINE d == [c EXCEPT !.pc = "bound", !.todo.status = c.want]
  <2>1. DOMAIN d = Fields /\ d.pc = "bound" /\ d.verb = c.verb
    BY <1>1 DEF Fields
  <2>3. d.todo.id = c.todo.id /\ DOMAIN d.todo = DOMAIN c.todo
    <3>1. DOMAIN c.todo = {"id", "status"}
      BY <1>1, <1>9 DEF CallOK, Todo!PutBind, Todo!Put, Writes, Edits
    <3>2. d.todo = [c.todo EXCEPT !.status = c.want]
      BY <1>1 DEF Fields
    <3> QED
      BY <3>1, <3>2
  <2>2. c \in Todo!Editing /\ c.pc = "bind" /\ Todo!Become(c, d) /\ UNCHANGED <<db, nextId, Todo!history>>
    BY <1>9 DEF Todo!Editing, Todo!Put, Todo!PutBind
  <2> HIDE DEF d
  <2> QED
    BY <2>1, <2>2, <2>3, PutAside DEF Writes, Edits, Told, Todo!Editing
<1> QED
  BY <1>4, <1>5, <1>6, <1>7, <1>8, <1>9

LEMMA SavesKeep ==
  ASSUME RowInv, NEW c \in calls, Todo!Save(c) \/ Todo!SaveInsert(c)
  PROVE  RowInv'
<1> DEFINE id == c.todo.id
<1>1. CallOK(c) /\ DOMAIN c = Fields /\ c \in Todo!Editing /\ Writes(c) /\ c.pc \in {"save", "insert"}
  BY DEF RowInv, CallOK, Todo!Save, Todo!SaveInsert, Todo!Put, Todo!Editing, Writes, Edits
<1>2. UNCHANGED Todo!history /\ nextId \in Nat \ {0}
  BY DEF Todo!Save, Todo!SaveInsert, RowInv, TableInv
<1>3. id \in 0..(nextId - 1) /\ (id = 0 \/ Covered(id)) /\ (c.pc = "insert" => id # 0)
  BY <1>1 DEF CallOK
\* A PUT that writes a row nobody had overlapped another.
<1>4. CASE Todo!Save(c) /\ id = 0
  <2>1. Todo!Write(c, [c EXCEPT !.pc = "saved"], Todo!With(nextId, c.todo.status)) /\ nextId' = nextId + 1
    <3>1. c.todo.id = 0 /\ 0 \notin DOMAIN db
      BY <1>4 DEF RowInv, TableInv
    <3> QED
      BY <1>4, <3>1 DEF Todo!Save
  <2>2. DOMAIN db' = DOMAIN db \cup {nextId} /\ Todo!Write(c, [c EXCEPT !.pc = "saved"], db')
    BY <2>1 DEF Todo!Write, Todo!With
  <2>3. masked
    BY <1>1, <1>4 DEF RowInv, ErrInv, Told, Todo!Save, Todo!Put
  <2>4. Covered(nextId)
    BY <1>2, <2>3 DEF Covered, RowInv, TableInv
  <2>5. nextId \in 1..(nextId' - 1)
    BY <1>2, <2>1
  <2> QED
    BY <1>1, <1>2, <2>1, <2>2, <2>4, <2>5, PutWrites
<1>5. CASE Todo!Save(c) /\ id # 0 /\ id \in DOMAIN db /\ db[id] # c.todo.status
  <2>1. Todo!Write(c, [c EXCEPT !.pc = "saved"], [db EXCEPT ![id] = c.todo.status]) /\ nextId' = nextId
    BY <1>5 DEF Todo!Save
  <2>2. DOMAIN db' = DOMAIN db \cup {id} /\ Todo!Write(c, [c EXCEPT !.pc = "saved"], db')
    BY <1>5, <2>1 DEF Todo!Write
  <2>3. id \in 1..(nextId' - 1)
    BY <1>2, <1>3, <1>5, <2>1
  <2>4. Covered(id)
    BY <1>3, <1>5
  <2> HIDE DEF id
  <2> QED
    BY <1>1, <1>2, <2>1, <2>2, <2>3, <2>4, PutWrites
<1>6. CASE Todo!Save(c) /\ id # 0 /\ ~(id \in DOMAIN db /\ db[id] # c.todo.status)
  <2> DEFINE d == [c EXCEPT !.pc = "find"]
  <2>1. DOMAIN d = Fields /\ d.pc = "find" /\ d.todo = c.todo /\ d.verb = c.verb
    BY <1>1, WithPc
  <2>2. Todo!Become(c, d) /\ c.pc = "save" /\ UNCHANGED <<db, nextId, err>>
    BY <1>6 DEF Todo!Save, Todo!At, Todo!Put
  <2> HIDE DEF d
  <2> QED
    BY <1>1, <1>2, <1>6, <2>1, <2>2, PutAside DEF Told
<1>7. CASE Todo!SaveInsert(c) /\ id \in DOMAIN db
  <2> DEFINE d == [c EXCEPT !.pc = "saved"]
  <2>1. DOMAIN d = Fields /\ d.pc = "saved" /\ d.todo = c.todo /\ d.verb = c.verb
    BY <1>1, WithPc
  <2>2. Todo!Become(c, d) /\ c.pc = "insert" /\ UNCHANGED <<db, nextId>>
    BY <1>7 DEF Todo!SaveInsert, Todo!Fail, Todo!Put
  <2> HIDE DEF d
  <2> QED
    BY <1>1, <1>2, <2>1, <2>2, PutAside DEF Told, Writes
<1>8. CASE Todo!SaveInsert(c) /\ id \notin DOMAIN db
  <2>1. /\ Todo!Write(c, [c EXCEPT !.pc = "saved"], Todo!With(id, c.todo.status))
        /\ nextId' = nextId /\ c.pc = "insert"
    BY <1>8 DEF Todo!SaveInsert, Todo!Put
  <2>2. DOMAIN db' = DOMAIN db \cup {id} /\ Todo!Write(c, [c EXCEPT !.pc = "saved"], db')
    BY <2>1 DEF Todo!Write, Todo!With
  <2>3. id \in 1..(nextId' - 1) /\ Covered(id)
    BY <1>2, <1>3, <2>1
  <2> HIDE DEF id
  <2> QED
    BY <1>1, <1>2, <2>1, <2>2, <2>3, PutWrites
<1> QED
  BY <1>4, <1>5, <1>6, <1>7, <1>8

LEMMA ClickKeeps ==
  ASSUME RowInv, NEW p, Todo!Click(p)
  PROVE  RowInv'
<1>1. ASSUME NEW d, Todo!Send(d), DOMAIN d = Fields, d.pc = "arrived" PROVE RowInv'
  BY <1>1, Aside DEF Todo!Send, Edits
<1>2. \A verb : LET c == Todo!NewCall(p, verb) IN DOMAIN c = Fields /\ c.pc = "arrived"
  BY NewCalls
<1>3. CASE Todo!ClickAdd(p)
  BY <1>1, <1>2, <1>3 DEF Todo!ClickAdd
<1>4. CASE Todo!ClickEdit(p)
  <2> DEFINE c == Todo!NewCall(p, "edit")
  <2>1. PICK i : Todo!Send([c EXCEPT !.at = i, !.row = table[p][i],
                        !.id = Todo!Shown(p)[i].id, !.want = ~Todo!Shown(p)[i].status])
    BY <1>4 DEF Todo!ClickEdit
  <2>2. DOMAIN c = Fields /\ c.pc = "arrived"
    BY <1>2
  <2> HIDE DEF c
  <2>3. PICK d : d = [c EXCEPT !.at = i, !.row = table[p][i],
                        !.id = Todo!Shown(p)[i].id, !.want = ~Todo!Shown(p)[i].status]
    OBVIOUS
  <2>4. DOMAIN d = Fields /\ d.pc = "arrived"
    BY <2>2, <2>3 DEF Fields
  <2> QED
    BY <1>1, <2>1, <2>3, <2>4
<1>5. CASE Todo!ClickDelete(p)
  <2> DEFINE c == Todo!NewCall(p, "delete")
  <2>1. PICK i : Todo!Send([c EXCEPT !.at = i, !.id = Todo!Shown(p)[i].id])
    BY <1>5 DEF Todo!ClickDelete
  <2>2. DOMAIN c = Fields /\ c.pc = "arrived"
    BY <1>2
  <2> HIDE DEF c
  <2>3. PICK d : d = [c EXCEPT !.at = i, !.id = Todo!Shown(p)[i].id]
    OBVIOUS
  <2>4. DOMAIN d = Fields /\ d.pc = "arrived"
    BY <2>2, <2>3 DEF Fields
  <2> QED
    BY <1>1, <2>1, <2>3, <2>4
<1> QED
  BY <1>3, <1>4, <1>5 DEF Todo!Click

LEMMA AnswersKeep ==
  ASSUME RowInv, NEW c \in calls, Todo!Answered(c) \/ Todo!Lose(c) \/ Todo!Get(c)
  PROVE  RowInv'
<1>1. CASE Todo!ListAnswered(c) \/ Todo!EditAnswered(c) \/ Todo!DeleteAnswered(c) \/ Todo!Lose(c)
  <2>1. calls' = calls \ {c} /\ UNCHANGED <<db, nextId, err, Todo!history>>
    BY <1>1 DEF Todo!ListAnswered, Todo!EditAnswered, Todo!DeleteAnswered, Todo!Lose
  <2> QED
    BY <2>1, Aside
<1>2. CASE Todo!AddAnswered(c)
  <2> DEFINE n == Todo!NewCall(c.by, "list")
  <2>1. DOMAIN n = Fields /\ n.pc = "arrived"
    BY NewCalls
  <2> HIDE DEF n
  <2>2. PICK d : d = [n EXCEPT !.no = c.no]
    OBVIOUS
  <2>3. DOMAIN d = Fields /\ d.pc = "arrived"
    BY <2>1, <2>2 DEF Fields
  <2>4. Todo!Become(c, d) /\ UNCHANGED <<db, nextId, err, Todo!history>>
    BY <1>2, <2>2 DEF Todo!AddAnswered, n
  <2> QED
    BY <2>3, <2>4, Aside DEF Edits
<1>3. CASE Todo!Get(c)
  <2>1. PICK d : d = [c EXCEPT !.pc = "ok", !.list = Todo!Listing, !.fresh = TRUE]
    OBVIOUS
  <2>2. DOMAIN d = Fields /\ d.pc = "ok"
    BY <2>1 DEF RowInv, CallOK, Fields
  <2>3. Todo!Become(c, d) /\ UNCHANGED <<db, nextId, err, Todo!history>>
    BY <1>3, <2>1 DEF Todo!Get
  <2> QED
    BY <2>2, <2>3, Aside DEF Edits
<1> QED
  BY <1>1, <1>2, <1>3 DEF Todo!Answered

LEMMA RowSteps == RowInv /\ [Todo!Next]_todoVars => RowInv'
<1> SUFFICES ASSUME RowInv, [Todo!Next]_todoVars PROVE RowInv'
  OBVIOUS
<1>1. CASE UNCHANGED todoVars
  BY <1>1, Aside DEF todoVars, Todo!history
<1>2. ASSUME NEW p \in Pages, Todo!Click(p) PROVE RowInv'
  BY <1>2, ClickKeeps
<1>3. ASSUME NEW c \in calls, Todo!Serve(c) PROVE RowInv'
  BY <1>3, PostKeeps, DeleteKeeps, PutFirstKeeps, PutsKeep, SavesKeep, AnswersKeep DEF Todo!Serve
<1>4. ASSUME NEW c \in calls, Todo!Answered(c) \/ Todo!Lose(c) PROVE RowInv'
  BY <1>4, AnswersKeep
<1> QED
  BY <1>1, <1>2, <1>3, <1>4 DEF Todo!Next

LEMMA InitRows == Todo!Init => RowInv
<1> SUFFICES ASSUME Todo!Init PROVE RowInv
  OBVIOUS
<1>1. TableInv
  BY RowsAssumption DEF Todo!Init, TableInv, Covered
<1>2. \A c \in calls : DOMAIN c = Fields /\ c.verb = "list"
  BY DEF Todo!Init, Fields
<1> QED
  BY <1>1, <1>2 DEF RowInv, CallOK, Writes, Edits, ErrInv, Todo!Editing

\* A row that is in the table was added and not removed since, but for rows a
\* PUT was writing, whatever overlaps what: any pages, clicks and lost calls
\* (main.go's POST, PUT and DELETE handlers).
THEOREM RowsWereAdded == AllSpec => []RowsAreAdded
<1>1. AllInit => RowInv
  BY InitRows DEF AllInit
<1>2. [AllNext]_allVars => [Todo!Next]_todoVars
  BY DEF AllNext, allVars
<1>3. RowInv => RowsAreAdded
  BY DEF RowInv, TableInv, Covered, RowsAreAdded, Todo!RowsAreAdded
<1> QED
  BY <1>1, <1>2, <1>3, RowSteps, PTL DEF AllSpec
-----------------------------------------------------------------------------
(* The page of Bubble.                                                     *)

Row == [id : Nat, status : BOOLEAN]

\* The rows of D in the order of their ids.
Ascending(s) == \A i, j \in DOMAIN s : i < j => s[i].id < s[j].id
Lists(s, D) ==
  /\ s \in Seq(Row) /\ Ascending(s)
  /\ DOMAIN D = {s[i].id : i \in DOMAIN s}
  /\ \A i \in DOMAIN s : s[i].status = D[s[i].id]

Ids == DOMAIN db
IdsOK == IsFiniteSet(Ids) /\ Ids \subseteq Nat

\* The module's own name for the cardinality.
LEMMA Counts == \A S : Todo!Cardinality(S) = Cardinality(S)
  BY DEF Todo!Cardinality, Cardinality

LEMMA PlaceIs == \A x : Todo!Place(x) = Cardinality({y \in Ids : y <= x})
  BY Counts DEF Todo!Place, Ids

LEMMA ListingIs ==
  Todo!Listing = [i \in 1..Cardinality(Ids) |-> [id |-> Todo!Nth(i), status |-> db[Todo!Nth(i)]]]
  BY Counts DEF Todo!Listing, Ids

LEMMA PlaceGrows ==
  ASSUME IdsOK, NEW x \in Ids
  PROVE  /\ Todo!Place(x) \in 1..Cardinality(Ids)
         /\ \A y \in Ids : x < y => Todo!Place(x) < Todo!Place(y)
<1> DEFINE Upto(y) == {z \in Ids : z <= y}
<1>1. \A y \in Ids : /\ IsFiniteSet(Upto(y)) /\ Cardinality(Upto(y)) \in Nat
                     /\ Cardinality(Upto(y)) <= Cardinality(Ids) /\ y \in Upto(y)
  <2> TAKE y \in Ids
  <2>1. Upto(y) \in SUBSET Ids
    OBVIOUS
  <2>2. IsFiniteSet(Upto(y)) /\ Cardinality(Upto(y)) <= Cardinality(Ids)
    BY <2>1, FS_Subset DEF IdsOK
  <2>3. y \in Nat
    BY DEF IdsOK
  <2> QED
    BY <2>2, <2>3, FS_CardinalityType
<1>2. Cardinality(Ids) \in Nat
  BY FS_CardinalityType DEF IdsOK
<1>3. Cardinality(Upto(x)) # 0
  BY <1>1, FS_EmptySet
<1>4. ASSUME NEW y \in Ids, x < y PROVE Cardinality(Upto(x)) < Cardinality(Upto(y))
  <2>1. x \in Nat /\ y \in Nat /\ Ids \subseteq Nat
    BY DEF IdsOK
  <2>2. Upto(x) \in SUBSET Upto(y) /\ y \notin Upto(x)
    <3>1. \A z \in Ids : z <= x => z <= y
      BY <1>4, <2>1
    <3>2. ~(y <= x)
      BY <1>4, <2>1
    <3> QED
      BY <3>1, <3>2
  <2>3. Cardinality(Upto(x)) <= Cardinality(Upto(y)) /\ Cardinality(Upto(x)) # Cardinality(Upto(y))
    BY <1>1, <2>2, FS_Subset
  <2> QED
    BY <1>1, <2>3
<1>5. \A y : Todo!Place(y) = Cardinality(Upto(y))
  BY PlaceIs
<1> HIDE DEF Upto
<1> QED
  BY <1>1, <1>2, <1>3, <1>4, <1>5

\* Every place is taken, by one row.
LEMMA NthIs ==
  ASSUME IdsOK
  PROVE  /\ \A i \in 1..Cardinality(Ids) : Todo!Nth(i) \in Ids /\ Todo!Place(Todo!Nth(i)) = i
         /\ \A x \in Ids : Todo!Nth(Todo!Place(x)) = x
<1>1. \A x \in Ids, y \in Ids : Todo!Place(x) = Todo!Place(y) => x = y
  <2> SUFFICES ASSUME NEW x \in Ids, NEW y \in Ids, x # y PROVE Todo!Place(x) # Todo!Place(y)
    OBVIOUS
  <2>1. x < y \/ y < x
    BY DEF IdsOK
  <2>2. Todo!Place(x) \in Int /\ Todo!Place(y) \in Int
    BY PlaceGrows
  <2> QED
    BY <2>1, <2>2, PlaceGrows
<1> DEFINE n == Cardinality(Ids)
           f == [x \in Ids |-> Todo!Place(x)]
<1>2. n \in Nat /\ IsFiniteSet(1..n) /\ Cardinality(1..n) = n
  BY FS_CardinalityType, FS_Interval DEF IdsOK
<1>3. f \in Injection(Ids, 1..n)
  BY <1>1, PlaceGrows DEF Injection, IsInjective
<1>4. f \in Surjection(Ids, 1..n)
  BY <1>2, <1>3, FS_Injection
<1>5. \A i \in 1..n : \E x \in Ids : Todo!Place(x) = i
  BY <1>4 DEF Surjection
<1>6. \A i \in 1..n : Todo!Nth(i) \in Ids /\ Todo!Place(Todo!Nth(i)) = i
  BY <1>5 DEF Todo!Nth, Ids
<1> QED
  BY <1>1, <1>6, PlaceGrows

\* What DB.Find returns.
LEMMA ListingLists ==
  ASSUME IdsOK, \A i \in Ids : db[i] \in BOOLEAN
  PROVE  Lists(Todo!Listing, db)
<1> DEFINE n == Cardinality(Ids)
           s == Todo!Listing
<1>1. n \in Nat
  BY FS_CardinalityType DEF IdsOK
<1>2. s = [i \in 1..n |-> [id |-> Todo!Nth(i), status |-> db[Todo!Nth(i)]]]
  BY ListingIs
<1>3. \A i \in 1..n : /\ s[i] = [id |-> Todo!Nth(i), status |-> db[Todo!Nth(i)]]
                      /\ Todo!Nth(i) \in Ids /\ Todo!Nth(i) \in Nat /\ Todo!Place(Todo!Nth(i)) = i
  BY <1>2, NthIs DEF IdsOK
<1>4. s \in Seq(Row) /\ DOMAIN s = 1..n
  <2>1. ASSUME NEW i \in 1..n PROVE s[i] \in Row
    <3>1. Todo!Nth(i) \in Nat /\ db[Todo!Nth(i)] \in BOOLEAN
      BY <1>3
    <3>2. \A x \in Nat, y \in BOOLEAN : [id |-> x, status |-> y] \in Row
      BY DEF Row
    <3> QED
      BY <1>3, <3>1, <3>2
  <2> QED
    BY <1>1, <1>2, <2>1, IsASeq
<1> HIDE DEF s
<1>5. Ascending(s)
  <2> SUFFICES ASSUME NEW i \in 1..n, NEW j \in 1..n, i < j PROVE Todo!Nth(i) < Todo!Nth(j)
    BY <1>3, <1>4 DEF Ascending
  <2> DEFINE x == Todo!Nth(i)
             y == Todo!Nth(j)
  <2>1. x \in Ids /\ y \in Ids /\ x \in Nat /\ y \in Nat /\ Todo!Place(x) = i /\ Todo!Place(y) = j
    BY <1>3
  <2>2. y < x => j < i
    BY <2>1, PlaceGrows
  <2>3. i \in Int /\ j \in Int
    BY <1>1
  <2> HIDE DEF x, y
  <2>4. x < y
    BY <2>1, <2>2, <2>3
  <2> QED
    BY <2>4 DEF x, y
<1>6. Ids = {s[i].id : i \in DOMAIN s}
  <2>1. \A x \in Ids : \E i \in 1..n : x = Todo!Nth(i)
    BY PlaceGrows, NthIs
  <2> QED
    BY <1>3, <1>4, <2>1
<1> QED
  <2>1. \A i \in DOMAIN s : s[i].status = db[s[i].id]
    BY <1>3, <1>4
  <2>2. Lists(s, db)
    BY <1>4, <1>5, <1>6, <2>1 DEF Lists, Ids
  <2> QED
    BY <2>2 DEF s

\* It is the only list of these rows in this order.
LEMMA OneListing ==
  ASSUME IdsOK, NEW s, Lists(s, db)
  PROVE  s = Todo!Listing
<1> DEFINE n == Len(s)
<1>1. s \in Seq(Row) /\ n \in Nat /\ DOMAIN s = 1..n /\ s = [i \in 1..n |-> s[i]]
      /\ \A i \in 1..n : s[i] = [id |-> s[i].id, status |-> db[s[i].id]] /\ s[i].id \in Ids /\ s[i].id \in Nat
  <2>1. s \in Seq(Row) /\ Ids = {s[i].id : i \in DOMAIN s} /\ \A i \in DOMAIN s : s[i].status = db[s[i].id]
    BY DEF Lists, Ids
  <2>2. n \in Nat /\ DOMAIN s = 1..n /\ s = [i \in 1..n |-> s[i]] /\ \A i \in 1..n : s[i] \in Row
    BY <2>1
  <2>3. \A i \in 1..n : s[i].id \in Nat /\ s[i] = [id |-> s[i].id, status |-> s[i].status]
    BY <2>2 DEF Row
  <2> QED
    BY <2>1, <2>2, <2>3
<1>2. \A i, j \in 1..n : i < j => s[i].id < s[j].id
  BY <1>1 DEF Lists, Ascending
<1>3. \A x \in Ids : \E i \in 1..n : s[i].id = x
  BY <1>1 DEF Lists, Ids
<1>4. ASSUME NEW k \in 1..n PROVE Todo!Place(s[k].id) = k
  <2> DEFINE U == {z \in Ids : z <= s[k].id}
             f == [i \in 1..k |-> s[i].id]
  <2>1. \A i \in 1..n : s[i].id <= s[k].id <=> i <= k
    <3> TAKE i \in 1..n
    <3>1. CASE i < k
      BY <1>1, <1>2, <3>1
    <3>2. CASE i = k
      BY <1>1, <3>2
    <3>3. CASE k < i
      BY <1>1, <1>2, <3>3
    <3> QED
      BY <1>1, <3>1, <3>2, <3>3
  <2>2. \A i \in 1..k : i \in 1..n /\ s[i].id \in U
    BY <1>1, <2>1
  <2>3. \A x \in U : \E i \in 1..k : s[i].id = x
    BY <1>1, <1>3, <2>1
  <2>4. \A i, j \in 1..k : s[i].id = s[j].id => i = j
    <3> TAKE i, j \in 1..k
    <3>1. i \in 1..n /\ j \in 1..n /\ s[i].id \in Nat
      BY <1>1, <2>2
    <3> QED
      BY <1>1, <1>2, <3>1
  <2>5. f \in Bijection(1..k, U)
    <3>1. f \in [1..k -> U]
      BY <2>2
    <3> QED
      BY <2>3, <2>4, <3>1 DEF Bijection, Injection, Surjection, IsInjective
  <2>6. IsFiniteSet(1..k) /\ Cardinality(1..k) = k
    BY <1>1, FS_Interval
  <2>7. Cardinality(U) = k
    BY <2>5, <2>6, FS_Bijection DEF ExistsBijection
  <2> QED
    BY <2>7, PlaceIs
<1>5. Cardinality(Ids) = n
  <2> DEFINE f == [i \in 1..n |-> s[i].id]
  <2>1. \A i, j \in 1..n : s[i].id = s[j].id => i = j
    BY <1>4
  <2>2. f \in [1..n -> Ids]
    BY <1>1
  <2>3. f \in Bijection(1..n, Ids)
    <3>1. (\A i, j \in 1..n : f[i] = f[j] => i = j) /\ \A x \in Ids : \E i \in 1..n : f[i] = x
      BY <1>3, <2>1
    <3> HIDE DEF f, n
    <3>2. f \in Injection(1..n, Ids)
      BY <2>2, <3>1 DEF Injection, IsInjective
    <3>3. f \in Surjection(1..n, Ids)
      BY <2>2, <3>1 DEF Surjection
    <3> QED
      BY <3>2, <3>3 DEF Bijection
  <2>4. IsFiniteSet(1..n) /\ Cardinality(1..n) = n
    <3>1. n \in Nat
      BY <1>1
    <3> HIDE DEF n
    <3> QED
      BY <3>1, FS_Interval
  <2> QED
    BY <2>3, <2>4, FS_Bijection DEF ExistsBijection
<1>6. \A i \in 1..n : Todo!Nth(i) = s[i].id
  BY <1>1, <1>4, NthIs
<1>7. Todo!Listing = [i \in 1..n |-> [id |-> Todo!Nth(i), status |-> db[Todo!Nth(i)]]]
  BY <1>5, ListingIs
<1>8. \A i \in 1..n : s[i] = [id |-> Todo!Nth(i), status |-> db[Todo!Nth(i)]]
  BY <1>1, <1>6
<1> QED
  BY <1>1, <1>7, <1>8

(***************************************************************************)
(* What a page p that is not to blame knows.  C are its calls, T and R its *)
(* table and row objects, D the table of the database, e is err.           *)
(***************************************************************************)

\* A PUT that goes well: it has not met an error, nor a row that was changed.
EditOf(c, T, R, e) ==
  /\ c.verb = "edit" /\ c.want \in BOOLEAN
  /\ c.at \in DOMAIN T /\ c.row = T[c.at] /\ R[c.row].id = c.id /\ R[c.row].status = ~c.want
  /\ c.pc \in {"arrived", "first", "bind", "bound", "save", "saved", "ok"}
  /\ c.pc \in {"first", "bind", "bound", "save"} => c.todo.id = c.id
  /\ c.pc \in {"bound", "save"} => c.todo.status = c.want
  /\ c.pc \notin {"arrived", "ok"} => ~e

DeleteOf(c, T, R) ==
  /\ c.verb = "delete"
  /\ c.at \in DOMAIN T /\ R[T[c.at]].id = c.id
  /\ c.pc \in {"arrived", "ok"}

\* Row i was written, or removed, and the page is to be told.
Edited(C, i) == \E c \in C : c.verb = "edit" /\ c.pc \in {"saved", "ok"} /\ c.id = i
Deleted(C, i) == \E c \in C : c.verb = "delete" /\ c.pc = "ok" /\ c.id = i

\* What the database has but for what the answers on their way will tell.
Screen(T, R) ==
  /\ R \in Seq(Row) /\ T \in Seq(1..Len(R))
  /\ \A i, j \in DOMAIN T : i < j => R[T[i]].id < R[T[j]].id
SameIds(C, T, R, D) ==
  \A i \in Nat : i \in DOMAIN D <=> (\E k \in DOMAIN T : R[T[k]].id = i) /\ ~Deleted(C, i)
SameStatus(C, T, R, D) ==
  \A k \in DOMAIN T :
    LET r == R[T[k]]
    IN  r.id \in DOMAIN D => D[r.id] = IF Edited(C, r.id) THEN ~r.status ELSE r.status

Follows(C, T, R, D, e) ==
  /\ Screen(T, R)
  /\ \A c \in C : EditOf(c, T, R, e) \/ DeleteOf(c, T, R)
  /\ \A c, d \in C : c # d => Todo!Apart(c, d)
  /\ SameIds(C, T, R, D) /\ SameStatus(C, T, R, D)

\* A call after which the list comes anew.
Renews(C) == \E c : C = {c} /\ c.verb \in {"add", "list"}

Page(p) ==
  ~blame[p] => \/ Renews(Todo!Of(p))
               \/ Follows(Todo!Of(p), table[p], rows[p], db, err)

\* The same click, further on its way.
SameClick(c, d) == d.verb = c.verb /\ d.at = c.at /\ d.row = c.row /\ d.id = c.id /\ d.want = c.want
Done(c) == IF c.verb = "edit" THEN c.pc \in {"saved", "ok"} ELSE c.pc = "ok"

\* Calls of a page that follows are about different rows, and a removal is about
\* the last of them.
LEMMA Differ ==
  ASSUME NEW C, NEW T, NEW R, NEW D, NEW e, Follows(C, T, R, D, e), NEW c \in C, NEW d \in C, c # d
  PROVE  /\ c.id # d.id
         /\ c.verb = "delete" => d.verb = "edit" /\ d.at < c.at
<1>1. Todo!Apart(c, d) /\ (EditOf(c, T, R, e) \/ DeleteOf(c, T, R)) /\ (EditOf(d, T, R, e) \/ DeleteOf(d, T, R))
  BY DEF Follows
<1>2. c.verb = "edit" /\ d.verb = "edit" => c.id # d.id
  BY <1>1 DEF Todo!Apart
<1>3. c.at \in DOMAIN T /\ d.at \in DOMAIN T /\ R[T[c.at]].id = c.id /\ R[T[d.at]].id = d.id
  BY <1>1 DEF EditOf, DeleteOf
<1>4. c.verb \in {"edit", "delete"} /\ d.verb \in {"edit", "delete"}
  BY <1>1 DEF EditOf, DeleteOf
<1>5. ~(c.verb = "edit" /\ d.verb = "edit") => c.at < d.at \/ d.at < c.at
  BY <1>1, <1>4 DEF Todo!Apart
<1>6. c.at < d.at \/ d.at < c.at => c.id # d.id
  <2>1. R \in Seq(Row) /\ T \in Seq(1..Len(R)) /\ \A i, j \in DOMAIN T : i < j => R[T[i]].id < R[T[j]].id
    BY DEF Follows, Screen
  <2>2. T[c.at] \in 1..Len(R) /\ T[d.at] \in 1..Len(R)
    BY <1>3, <2>1
  <2>3. R[T[c.at]] \in Row /\ R[T[d.at]] \in Row
    BY <2>1, <2>2
  <2>4. c.id \in Nat /\ d.id \in Nat
    BY <1>3, <2>3 DEF Row
  <2> QED
    BY <1>3, <2>1, <2>4
<1> QED
  BY <1>1, <1>2, <1>4, <1>5, <1>6 DEF Todo!Apart

\* The rows a page shows.
LEMMA ScreenRows ==
  ASSUME NEW T, NEW R, Screen(T, R)
  PROVE  /\ Len(T) \in Nat /\ DOMAIN T = 1..Len(T) /\ DOMAIN R = 1..Len(R) /\ Len(R) \in Nat
         /\ \A k \in DOMAIN T : T[k] \in DOMAIN R /\ R[T[k]] \in Row /\ R[T[k]].id \in Nat /\ R[T[k]].status \in BOOLEAN
         /\ \A j, k \in DOMAIN T : R[T[j]].id = R[T[k]].id => j = k
         /\ \A j, k \in DOMAIN T : T[j] = T[k] => j = k
<1>1. R \in Seq(Row) /\ T \in Seq(1..Len(R)) /\ \A i, j \in DOMAIN T : i < j => R[T[i]].id < R[T[j]].id
  BY DEF Screen
<1>2. Len(T) \in Nat /\ DOMAIN T = 1..Len(T) /\ DOMAIN R = 1..Len(R) /\ Len(R) \in Nat
  BY <1>1
<1>3. \A k \in DOMAIN T : T[k] \in DOMAIN R /\ R[T[k]] \in Row
  BY <1>1, <1>2
<1>4. \A k \in DOMAIN T : R[T[k]].id \in Nat /\ R[T[k]].status \in BOOLEAN
  BY <1>3 DEF Row
<1>5. ASSUME NEW j \in DOMAIN T, NEW k \in DOMAIN T, R[T[j]].id = R[T[k]].id PROVE j = k
  <2>1. j \in Nat /\ k \in Nat
    BY <1>2
  <2>2. ~(j < k) /\ ~(k < j)
    BY <1>1, <1>4, <1>5
  <2> QED
    BY <2>1, <2>2
<1> QED
  BY <1>2, <1>3, <1>4, <1>5

\* A click.
LEMMA Clicked ==
  ASSUME NEW C, NEW T, NEW R, NEW D, NEW e, Follows(C, T, R, D, e),
         NEW c, c.pc = "arrived", EditOf(c, T, R, e) \/ DeleteOf(c, T, R),
         \A d \in C : Todo!Apart(c, d)
  PROVE  Follows(C \cup {c}, T, R, D, e)
<1>1. \A d \in C : Todo!Apart(d, c)
  BY DEF Todo!Apart
<1>2. \A i : (Edited(C \cup {c}, i) <=> Edited(C, i)) /\ (Deleted(C \cup {c}, i) <=> Deleted(C, i))
  BY DEF Edited, Deleted
<1>3. SameIds(C \cup {c}, T, R, D)
  BY <1>2 DEF Follows, SameIds
<1>4. SameStatus(C \cup {c}, T, R, D)
  BY <1>2 DEF Follows, SameStatus
<1> QED
  BY <1>1, <1>3, <1>4 DEF Follows

\* A call goes on without a change of the table.
LEMMA GoesOn ==
  ASSUME NEW C, NEW T, NEW R, NEW D, NEW e, Follows(C, T, R, D, e),
         NEW c \in C, NEW d, SameClick(c, d), Done(c) <=> Done(d),
         NEW f, f = e \/ f = FALSE, EditOf(d, T, R, f) \/ DeleteOf(d, T, R)
  PROVE  Follows((C \ {c}) \cup {d}, T, R, D, f)
<1> DEFINE S == (C \ {c}) \cup {d}
<1>1. \A x \in S : EditOf(x, T, R, f) \/ DeleteOf(x, T, R)
  BY DEF Follows, EditOf
<1>2. \A x, y \in S : x # y => Todo!Apart(x, y)
  <2>1. \A x \in C : x # c => Todo!Apart(x, d) /\ Todo!Apart(d, x)
    <3> SUFFICES ASSUME NEW x \in C, x # c PROVE Todo!Apart(x, d) /\ Todo!Apart(d, x)
      OBVIOUS
    <3>1. Todo!Apart(x, c) /\ Todo!Apart(c, x)
      BY DEF Follows
    <3> QED
      BY <3>1 DEF Todo!Apart, SameClick
  <2>2. \A x, y \in C : x # y => Todo!Apart(x, y)
    BY DEF Follows
  <2> QED
    BY <2>1, <2>2
<1>3. \A i : (Edited(S, i) <=> Edited(C, i)) /\ (Deleted(S, i) <=> Deleted(C, i))
  BY DEF Edited, Deleted, SameClick, Done
<1> HIDE DEF S
<1>4. SameIds(S, T, R, D)
  BY <1>3 DEF Follows, SameIds
<1>5. SameStatus(S, T, R, D)
  BY <1>3 DEF Follows, SameStatus
<1>6. Follows(S, T, R, D, f)
  BY <1>1, <1>2, <1>4, <1>5 DEF Follows
<1> QED
  BY <1>6 DEF S

\* While no PUT of the page is served, err may be set.
LEMMA ErrAside ==
  ASSUME NEW C, NEW T, NEW R, NEW D, NEW e, Follows(C, T, R, D, e), NEW f,
         f = FALSE \/ f = e \/ \A c \in C : c.verb = "edit" => c.pc \in {"arrived", "ok"}
  PROVE  Follows(C, T, R, D, f)
  BY DEF Follows, EditOf, DeleteOf

\* What a PUT finds, and what a DELETE.
LEMMA Finds ==
  ASSUME NEW C, NEW T, NEW R, NEW D, NEW e, Follows(C, T, R, D, e), NEW c \in C, ~Done(c)
  PROVE  /\ c.id \in DOMAIN D /\ c.id \in Nat
         /\ c.verb = "edit" => D[c.id] = ~c.want
<1>1. EditOf(c, T, R, e) \/ DeleteOf(c, T, R)
  BY DEF Follows
<1>2. c.at \in DOMAIN T /\ R[T[c.at]].id = c.id /\ (c.verb = "edit" => R[T[c.at]].status = ~c.want)
  BY <1>1 DEF EditOf, DeleteOf
<1>3. c.id \in Nat
  BY <1>2, ScreenRows DEF Follows
<1>4. ~Deleted(C, c.id) /\ ~Edited(C, c.id)
  BY Differ DEF Deleted, Edited, Done
<1>5. c.id \in DOMAIN D
  BY <1>2, <1>3, <1>4 DEF Follows, SameIds
<1>6. D[c.id] = R[T[c.at]].status
  BY <1>2, <1>4, <1>5 DEF Follows, SameStatus
<1> QED
  BY <1>2, <1>3, <1>5, <1>6

\* Save writes the row.
LEMMA Saved ==
  ASSUME NEW C, NEW T, NEW R, NEW D, NEW e, Follows(C, T, R, D, e), NEW c \in C,
         c.verb = "edit", c.pc = "save", NEW d, SameClick(c, d), d.pc = "saved"
  PROVE  Follows((C \ {c}) \cup {d}, T, R, [D EXCEPT ![c.id] = c.want], FALSE)
<1> DEFINE S == (C \ {c}) \cup {d}
           E == [D EXCEPT ![c.id] = c.want]
<1>1. ~Done(c) /\ EditOf(c, T, R, e) /\ c.id \in DOMAIN D /\ Screen(T, R)
  <2>1. ~Done(c)
    BY DEF Done
  <2> QED
    BY <2>1, Finds DEF Follows, DeleteOf
<1>2. EditOf(d, T, R, FALSE)
  BY <1>1 DEF EditOf, SameClick
<1>3. \A x \in S : EditOf(x, T, R, FALSE) \/ DeleteOf(x, T, R)
  BY <1>2 DEF Follows, EditOf
<1>4. \A x, y \in S : x # y => Todo!Apart(x, y)
  <2>1. \A x \in C : x # c => Todo!Apart(x, d) /\ Todo!Apart(d, x)
    <3> SUFFICES ASSUME NEW x \in C, x # c PROVE Todo!Apart(x, d) /\ Todo!Apart(d, x)
      OBVIOUS
    <3>1. Todo!Apart(x, c) /\ Todo!Apart(c, x)
      BY DEF Follows
    <3> QED
      BY <3>1 DEF Todo!Apart, SameClick
  <2>2. \A x, y \in C : x # y => Todo!Apart(x, y)
    BY DEF Follows
  <2> QED
    BY <2>1, <2>2
<1>5. \A i : /\ Deleted(S, i) <=> Deleted(C, i)
             /\ Edited(S, i) <=> Edited(C, i) \/ i = c.id
  BY DEF Edited, Deleted, SameClick
<1>6. DOMAIN E = DOMAIN D /\ E[c.id] = c.want /\ \A i \in DOMAIN D : i # c.id => E[i] = D[i]
  BY <1>1
<1> HIDE DEF S, E
<1>7. SameIds(S, T, R, E)
  BY <1>5, <1>6 DEF Follows, SameIds
<1>8. SameStatus(S, T, R, E)
  <2> SUFFICES ASSUME NEW k \in DOMAIN T, R[T[k]].id \in DOMAIN E
               PROVE  E[R[T[k]].id] = IF Edited(S, R[T[k]].id) THEN ~R[T[k]].status ELSE R[T[k]].status
    BY DEF SameStatus
  <2>1. CASE R[T[k]].id = c.id
    <3>1. k = c.at /\ R[T[k]].status = ~c.want /\ c.want \in BOOLEAN
      BY <1>1, <2>1, ScreenRows DEF EditOf
    <3>2. E[R[T[k]].id] = c.want /\ Edited(S, R[T[k]].id)
      BY <1>5, <1>6, <2>1
    <3> QED
      BY <3>1, <3>2
  <2>2. CASE R[T[k]].id # c.id
    <3>1. D[R[T[k]].id] = IF Edited(C, R[T[k]].id) THEN ~R[T[k]].status ELSE R[T[k]].status
      BY <1>6 DEF Follows, SameStatus
    <3> QED
      BY <1>5, <1>6, <2>2, <3>1
  <2> QED
    BY <2>1, <2>2
<1>9. Follows(S, T, R, E, FALSE)
  BY <1>1, <1>3, <1>4, <1>7, <1>8 DEF Follows
<1> QED
  BY <1>9 DEF S, E

\* A PUT was answered: the row object clicked takes the status that was written.
LEMMA EditTaken ==
  ASSUME NEW C, NEW T, NEW R, NEW D, NEW e, Follows(C, T, R, D, e), NEW c \in C,
         c.verb = "edit", c.pc = "ok"
  PROVE  Follows(C \ {c}, T, [R EXCEPT ![T[c.at]].status = ~R[c.row].status], D, e)
<1> DEFINE S == C \ {c}
           Q == [R EXCEPT ![T[c.at]].status = ~R[c.row].status]
<1>1. EditOf(c, T, R, e) /\ Screen(T, R)
  BY DEF Follows, DeleteOf
<1>2. c.at \in DOMAIN T /\ c.row = T[c.at] /\ T[c.at] \in DOMAIN R /\ R[c.row].id = c.id
      /\ R[T[c.at]] \in Row /\ DOMAIN R = 1..Len(R) /\ R \in Seq(Row)
  BY <1>1, ScreenRows DEF EditOf, Screen
<1>3. R[T[c.at]] = [id |-> c.id, status |-> R[T[c.at]].status] /\ c.id \in Nat
  BY <1>2 DEF Row
<1>4. /\ Q[T[c.at]] = [id |-> c.id, status |-> ~R[T[c.at]].status]
      /\ \A i \in DOMAIN R : i # T[c.at] => Q[i] = R[i]
      /\ Q \in Seq(Row) /\ Len(Q) = Len(R)
  <2>1. Q = [R EXCEPT ![T[c.at]] = [R[T[c.at]] EXCEPT !.status = ~R[T[c.at]].status]]
    BY <1>2
  <2>2. [R[T[c.at]] EXCEPT !.status = ~R[T[c.at]].status] = [id |-> c.id, status |-> ~R[T[c.at]].status]
    BY <1>3
  <2>3. [id |-> c.id, status |-> ~R[T[c.at]].status] \in Row
    BY <1>3 DEF Row
  <2> QED
    BY <1>2, <2>1, <2>2, <2>3
<1>5. \A k \in DOMAIN T : /\ Q[T[k]].id = R[T[k]].id
                          /\ k # c.at => Q[T[k]] = R[T[k]]
                          /\ k = c.at => Q[T[k]].status = ~R[T[k]].status
  <2> TAKE k \in DOMAIN T
  <2>1. T[k] \in DOMAIN R /\ (T[k] = T[c.at] => k = c.at)
    BY <1>1, <1>2, ScreenRows
  <2> QED
    BY <1>2, <1>3, <1>4, <2>1
<1>6. \A x \in S : x.id # c.id /\ (EditOf(x, T, R, e) \/ DeleteOf(x, T, R))
  BY Differ DEF Follows
<1> HIDE DEF Q
<1>7. \A x \in S : EditOf(x, T, Q, e) \/ DeleteOf(x, T, Q)
  <2> SUFFICES ASSUME NEW x \in S PROVE EditOf(x, T, Q, e) \/ DeleteOf(x, T, Q)
    OBVIOUS
  <2>1. CASE EditOf(x, T, R, e)
    <3>1. x.at \in DOMAIN T /\ x.row = T[x.at] /\ x.at # c.at
      BY <1>2, <1>6, <2>1 DEF EditOf
    <3>2. Q[T[x.at]] = R[T[x.at]]
      BY <1>5, <3>1
    <3> QED
      BY <2>1, <3>1, <3>2 DEF EditOf
  <2>2. CASE DeleteOf(x, T, R)
    BY <1>5, <2>2 DEF DeleteOf
  <2> QED
    BY <1>6, <2>1, <2>2
<1>8. Screen(T, Q)
  BY <1>1, <1>4, <1>5 DEF Screen
<1>9. \A i : /\ Deleted(S, i) <=> Deleted(C, i)
             /\ Edited(S, i) <=> Edited(C, i) /\ i # c.id
  <2>1. \A x \in C : x # c => x.id # c.id
    BY Differ
  <2> QED
    BY <2>1 DEF Edited, Deleted
<1>10. SameIds(S, T, Q, D)
  BY <1>5, <1>9 DEF Follows, SameIds
<1>11. SameStatus(S, T, Q, D)
  <2> SUFFICES ASSUME NEW k \in DOMAIN T, Q[T[k]].id \in DOMAIN D
               PROVE  D[Q[T[k]].id] = IF Edited(S, Q[T[k]].id) THEN ~Q[T[k]].status ELSE Q[T[k]].status
    BY DEF SameStatus
  <2>1. D[R[T[k]].id] = IF Edited(C, R[T[k]].id) THEN ~R[T[k]].status ELSE R[T[k]].status
    BY <1>5 DEF Follows, SameStatus
  <2>2. CASE k = c.at
    <3>1. Edited(C, c.id) /\ R[T[k]].id = c.id
      BY <1>2, <2>2 DEF Edited
    <3>2. ~Edited(S, c.id)
      BY <1>9
    <3> QED
      BY <1>5, <2>1, <2>2, <3>1, <3>2
  <2>3. CASE k # c.at
    <3>1. R[T[k]].id # c.id
      BY <1>1, <1>2, <2>3, ScreenRows
    <3> QED
      BY <1>5, <1>9, <2>1, <2>3, <3>1
  <2> QED
    BY <2>2, <2>3
<1>12. Follows(S, T, Q, D, e)
  BY <1>7, <1>8, <1>10, <1>11 DEF Follows
<1> QED
  BY <1>12 DEF Q

\* A row is removed from the table.
LEMMA Removed ==
  ASSUME NEW C, NEW T, NEW R, NEW D, NEW e, Follows(C, T, R, D, e), NEW c \in C,
         c.verb = "delete", c.pc = "arrived", NEW d, SameClick(c, d), d.pc = "ok",
         NEW E, DOMAIN E = DOMAIN D \ {c.id}, \A i \in DOMAIN E : E[i] = D[i]
  PROVE  Follows((C \ {c}) \cup {d}, T, R, E, e)
<1> DEFINE S == (C \ {c}) \cup {d}
<1>1. DeleteOf(c, T, R) /\ Screen(T, R)
  BY DEF Follows, EditOf
<1>2. DeleteOf(d, T, R)
  BY <1>1 DEF DeleteOf, SameClick
<1>3. \A x \in S : EditOf(x, T, R, e) \/ DeleteOf(x, T, R)
  BY <1>2 DEF Follows
<1>4. \A x, y \in S : x # y => Todo!Apart(x, y)
  <2>1. \A x \in C : x # c => Todo!Apart(x, d) /\ Todo!Apart(d, x)
    <3> SUFFICES ASSUME NEW x \in C, x # c PROVE Todo!Apart(x, d) /\ Todo!Apart(d, x)
      OBVIOUS
    <3>1. Todo!Apart(x, c) /\ Todo!Apart(c, x)
      BY DEF Follows
    <3> QED
      BY <3>1 DEF Todo!Apart, SameClick
  <2>2. \A x, y \in C : x # y => Todo!Apart(x, y)
    BY DEF Follows
  <2> QED
    BY <2>1, <2>2
<1>5. \A i : /\ Edited(S, i) <=> Edited(C, i)
             /\ Deleted(S, i) <=> Deleted(C, i) \/ i = c.id
  BY DEF Edited, Deleted, SameClick
<1> HIDE DEF S
<1>6. SameIds(S, T, R, E)
  BY <1>5 DEF Follows, SameIds
<1>7. SameStatus(S, T, R, E)
  BY <1>5 DEF Follows, SameStatus
<1>8. Follows(S, T, R, E, e)
  BY <1>1, <1>3, <1>4, <1>6, <1>7 DEF Follows
<1> QED
  BY <1>8 DEF S

\* A sequence without its k-th element.
LEMMA Spliced ==
  ASSUME NEW X, NEW s \in Seq(X), NEW k \in 1..Len(s)
  PROVE  LET t == Todo!Splice(s, k)
         IN  /\ t \in Seq(X) /\ Len(t) = Len(s) - 1
             /\ \A i \in 1..Len(t) : t[i] = s[IF i < k THEN i ELSE i + 1]
<1> DEFINE a == SubSeq(s, 1, k - 1)
           b == SubSeq(s, k + 1, Len(s))
<1>1. k \in Nat /\ Len(s) \in Nat /\ k <= Len(s) /\ k >= 1 /\ \A i \in 1..Len(s) : s[i] \in X
  OBVIOUS
<1>2. a \in Seq(X) /\ Len(a) = k - 1 /\ \A i \in 1..(k - 1) : a[i] = s[i]
  BY <1>1, SubSeqProperties
<1>3. b \in Seq(X) /\ Len(b) = Len(s) - k /\ \A i \in 1..(Len(s) - k) : b[i] = s[k + i]
  <2>1. \A i \in (k + 1)..Len(s) : s[i] \in X
    BY <1>1
  <2>2. /\ b \in Seq(X)
        /\ Len(b) = IF k + 1 <= Len(s) THEN Len(s) - (k + 1) + 1 ELSE 0
        /\ \A i \in 1..(Len(s) - (k + 1) + 1) : b[i] = s[(k + 1) + i - 1]
    BY <1>1, <2>1, SubSeqProperties
  <2> HIDE DEF b
  <2> QED
    BY <1>1, <2>2
<1>4. Todo!Splice(s, k) = a \o b
  <2>1. k \in DOMAIN s
    OBVIOUS
  <2> QED
    BY <2>1 DEF Todo!Splice, Todo!RemoveAt
<1> HIDE DEF a, b
<1>5. a \o b \in Seq(X) /\ Len(a \o b) = Len(s) - 1
      /\ \A i \in 1..(Len(s) - 1) : (a \o b)[i] = IF i <= k - 1 THEN a[i] ELSE b[i - (k - 1)]
  BY <1>1, <1>2, <1>3, ConcatProperties
<1>6. \A i \in 1..(Len(s) - 1) : (a \o b)[i] = s[IF i < k THEN i ELSE i + 1]
  <2> TAKE i \in 1..(Len(s) - 1)
  <2>1. CASE i < k
    BY <1>1, <1>2, <1>5, <2>1
  <2>2. CASE ~(i < k)
    <3>0. i \in Int /\ i <= Len(s) - 1 /\ k <= i
      BY <1>1, <2>2
    <3>1. i - (k - 1) \in 1..(Len(s) - k) /\ k + (i - (k - 1)) = i + 1
      BY <1>1, <3>0
    <3>2. (a \o b)[i] = b[i - (k - 1)]
      BY <1>1, <1>5, <3>0
    <3> QED
      BY <1>3, <2>2, <3>1, <3>2
  <2> QED
    BY <2>1, <2>2
<1> QED
  BY <1>4, <1>5, <1>6

\* A DELETE was answered: the row goes, and the others that calls are about, all
\* before it, keep their places.
LEMMA DeleteTaken ==
  ASSUME NEW C, NEW T, NEW R, NEW D, NEW e, Follows(C, T, R, D, e), NEW c \in C,
         c.verb = "delete", c.pc = "ok"
  PROVE  Follows(C \ {c}, Todo!Splice(T, c.at), R, D, e)
<1> DEFINE S == C \ {c}
           U == Todo!Splice(T, c.at)
           old(i) == IF i < c.at THEN i ELSE i + 1
<1>1. DeleteOf(c, T, R) /\ Screen(T, R)
  BY DEF Follows, EditOf
<1>2. T \in Seq(1..Len(R)) /\ c.at \in 1..Len(T) /\ R[T[c.at]].id = c.id /\ Len(T) \in Nat /\ DOMAIN T = 1..Len(T)
  BY <1>1 DEF DeleteOf, Screen
<1>3. U \in Seq(1..Len(R)) /\ Len(U) = Len(T) - 1 /\ \A i \in 1..Len(U) : U[i] = T[old(i)]
  BY <1>2, Spliced
<1> HIDE DEF U
<1>4. DOMAIN U = 1..(Len(T) - 1)
  BY <1>3
<1>5. \A i \in DOMAIN U : old(i) \in DOMAIN T /\ old(i) # c.at /\ U[i] = T[old(i)]
  <2>1. \A i \in 1..(Len(T) - 1) : old(i) \in 1..Len(T) /\ old(i) # c.at
    BY <1>2
  <2>2. \A i \in DOMAIN U : i \in 1..Len(U) /\ i \in 1..(Len(T) - 1)
    BY <1>3, <1>4
  <2> HIDE DEF old
  <2> QED
    BY <1>2, <1>3, <2>1, <2>2
<1>6. \A k \in DOMAIN T : k # c.at => \E i \in DOMAIN U : k = old(i)
  <2> SUFFICES ASSUME NEW k \in 1..Len(T), k # c.at PROVE \E i \in DOMAIN U : k = old(i)
    BY <1>2
  <2>1. k < c.at => k \in 1..(Len(T) - 1) /\ k = old(k)
    BY <1>2
  <2>2. k > c.at => k - 1 \in 1..(Len(T) - 1) /\ k = old(k - 1)
    BY <1>2
  <2>3. k < c.at \/ k > c.at
    BY <1>2
  <2> QED
    BY <1>4, <2>1, <2>2, <2>3
<1>7. \A i, j \in DOMAIN U : i < j => old(i) < old(j)
  BY <1>2, <1>4
<1> HIDE DEF old
<1>8. Screen(U, R)
  BY <1>1, <1>3, <1>5, <1>7 DEF Screen
<1>9. \A x \in S : EditOf(x, U, R, e) \/ DeleteOf(x, U, R)
  <2> SUFFICES ASSUME NEW x \in S PROVE EditOf(x, U, R, e)
    OBVIOUS
  <2>1. EditOf(x, T, R, e) /\ x.at < c.at
    <3>1. x.verb = "edit" /\ x.at < c.at
      BY Differ
    <3>2. EditOf(x, T, R, e) \/ DeleteOf(x, T, R)
      BY DEF Follows
    <3> QED
      BY <3>1, <3>2 DEF DeleteOf
  <2>2. x.at \in DOMAIN U /\ U[x.at] = T[x.at]
    <3>1. x.at \in 1..Len(T)
      BY <1>2, <2>1 DEF EditOf
    <3>2. x.at \in 1..(Len(T) - 1)
      BY <1>2, <2>1, <3>1
    <3> QED
      BY <1>4, <1>5, <2>1, <3>2 DEF old
  <2> QED
    BY <2>1, <2>2 DEF EditOf
<1>10. \A i : /\ Edited(S, i) <=> Edited(C, i)
              /\ Deleted(C, i) <=> i = c.id
              /\ ~Deleted(S, i)
  <2>1. \A x \in S : x.verb = "edit"
    BY Differ
  <2> QED
    BY <2>1 DEF Edited, Deleted
<1>11. SameIds(S, U, R, D)
  <2> SUFFICES ASSUME NEW i \in Nat PROVE i \in DOMAIN D <=> \E k \in DOMAIN U : R[U[k]].id = i
    BY <1>10 DEF SameIds
  <2>1. i \in DOMAIN D <=> (\E k \in DOMAIN T : R[T[k]].id = i) /\ i # c.id
    BY <1>10 DEF Follows, SameIds
  <2>2. ASSUME NEW k \in DOMAIN T, R[T[k]].id = i, i # c.id PROVE \E j \in DOMAIN U : R[U[j]].id = i
    BY <1>2, <1>5, <1>6, <2>2
  <2>3. ASSUME NEW j \in DOMAIN U, R[U[j]].id = i PROVE (\E k \in DOMAIN T : R[T[k]].id = i) /\ i # c.id
    <3>1. old(j) \in DOMAIN T /\ old(j) # c.at /\ R[T[old(j)]].id = i
      BY <1>5, <2>3
    <3>2. c.at \in DOMAIN T
      BY <1>2
    <3>3. R[T[old(j)]].id # R[T[c.at]].id
      BY <1>1, <3>1, <3>2, ScreenRows
    <3> QED
      BY <1>2, <3>1, <3>3
  <2> QED
    BY <2>1, <2>2, <2>3
<1>12. SameStatus(S, U, R, D)
  BY <1>5, <1>10 DEF Follows, SameStatus
<1>13. Follows(S, U, R, D, e)
  <2>1. \A x, y \in S : x # y => Todo!Apart(x, y)
    BY DEF Follows
  <2> QED
    BY <1>8, <1>9, <1>11, <1>12, <2>1 DEF Follows
<1> QED
  BY <1>13 DEF U

\* A page that has just taken a list, and one that has no calls.
LEMMA Listed ==
  ASSUME NEW s, NEW D, Lists(s, D), NEW e
  PROVE  Follows({}, [i \in 1..Len(s) |-> i], s, D, e)
<1> DEFINE T == [i \in 1..Len(s) |-> i]
<1>1. s \in Seq(Row) /\ Len(s) \in Nat /\ DOMAIN s = 1..Len(s) /\ \A i \in DOMAIN s : s[i].id \in Nat /\ s[i].status \in BOOLEAN
  <2>1. s \in Seq(Row) /\ Len(s) \in Nat /\ DOMAIN s = 1..Len(s) /\ \A i \in DOMAIN s : s[i] \in Row
    BY DEF Lists
  <2> QED
    BY <2>1 DEF Row
<1>2. T \in Seq(1..Len(s)) /\ DOMAIN T = DOMAIN s /\ \A i \in DOMAIN T : T[i] = i
  BY <1>1, IsASeq
<1> HIDE DEF T
<1>3. Screen(T, s)
  BY <1>1, <1>2 DEF Screen, Lists, Ascending
<1>4. \A i : ~Edited({}, i) /\ ~Deleted({}, i)
  BY DEF Edited, Deleted
<1>5. SameIds({}, T, s, D) /\ SameStatus({}, T, s, D)
  BY <1>1, <1>2, <1>4 DEF SameIds, SameStatus, Lists
<1>6. Follows({}, T, s, D, e)
  BY <1>3, <1>5 DEF Follows
<1> QED
  BY <1>6 DEF T

LEMMA Rests ==
  ASSUME NEW T, NEW R, NEW D, NEW e, Follows({}, T, R, D, e), DOMAIN D \subseteq Nat
  PROVE  Lists([i \in 1..Len(T) |-> R[T[i]]], D)
<1> DEFINE s == [i \in 1..Len(T) |-> R[T[i]]]
<1>1. Screen(T, R) /\ SameIds({}, T, R, D) /\ SameStatus({}, T, R, D)
  BY DEF Follows
<1>2. /\ Len(T) \in Nat /\ DOMAIN T = 1..Len(T)
      /\ \A k \in DOMAIN T : R[T[k]] \in Row /\ R[T[k]].id \in Nat
  BY <1>1, ScreenRows
<1>3. DOMAIN s = DOMAIN T /\ s \in Seq(Row) /\ \A k \in DOMAIN T : s[k] = R[T[k]]
  BY <1>2, IsASeq
<1> HIDE DEF s
<1>4. Ascending(s)
  BY <1>1, <1>3 DEF Ascending, Screen
<1>5. \A i : ~Edited({}, i) /\ ~Deleted({}, i)
  BY DEF Edited, Deleted
<1>6. \A i \in Nat : i \in DOMAIN D <=> \E k \in DOMAIN T : R[T[k]].id = i
  BY <1>1, <1>5 DEF SameIds
<1>7. DOMAIN D = {s[k].id : k \in DOMAIN s}
  <2>1. \A k \in DOMAIN T : s[k].id = R[T[k]].id /\ s[k].id \in Nat
    BY <1>2, <1>3
  <2>2. \A i \in DOMAIN D : \E k \in DOMAIN s : s[k].id = i
    BY <1>3, <1>6, <2>1
  <2>3. \A k \in DOMAIN s : s[k].id \in DOMAIN D
    BY <1>3, <1>6, <2>1
  <2> QED
    BY <2>2, <2>3
<1>8. \A k \in DOMAIN s : s[k].status = D[s[k].id]
  BY <1>1, <1>2, <1>3, <1>5, <1>6 DEF SameStatus
<1>9. Lists(s, D)
  BY <1>3, <1>4, <1>7, <1>8 DEF Lists
<1> QED
  BY <1>9 DEF s

\* Calls, pages and rows have the fields they should have.
Kind(c) ==
  /\ c = [x \in Fields |-> c[x]]
  /\ c.by \in Pages /\ c.want \in BOOLEAN /\ c.fresh \in BOOLEAN
  /\ DOMAIN c.todo = {"id", "status"} /\ c.todo.status \in BOOLEAN

Shape ==
  /\ rows = [p \in Pages |-> rows[p]] /\ table = [p \in Pages |-> table[p]]
  /\ blame = [p \in Pages |-> blame[p]]
  /\ \A i \in Ids : db[i] \in BOOLEAN
  /\ \A c \in calls : Kind(c)

\* A list that is fresh is what the database has.
IsFresh(c) == c.fresh => c.verb = "list" /\ c.list = Todo!Listing
Fresh == \A c \in calls : IsFresh(c)

PageInv == RowInv /\ Shape /\ Fresh /\ \A p \in Pages : Page(p)

LEMMA RowIds == RowInv => IdsOK
<1> SUFFICES ASSUME RowInv PROVE IdsOK
  OBVIOUS
<1>1. Ids \in SUBSET (1..(nextId - 1)) /\ nextId - 1 \in Int
  BY DEF RowInv, TableInv, Ids
<1>2. IsFiniteSet(1..(nextId - 1))
  BY <1>1, FS_Interval
<1> QED
  <2>1. Ids \subseteq Nat
    BY <1>1
  <2> QED
    BY <1>1, <1>2, <2>1, FS_Subset DEF IdsOK

LEMMA PcIs ==
  ASSUME NEW c, Kind(c), NEW v
  PROVE  LET d == [c EXCEPT !.pc = v]
         IN  /\ Kind(d) /\ SameClick(c, d) /\ d.by = c.by /\ d.pc = v
             /\ d.todo = c.todo /\ d.fresh = c.fresh /\ d.list = c.list
  BY DEF Kind, SameClick, Fields

LEMMA NotFresh ==
  ASSUME NEW c, Kind(c)
  PROVE  /\ Kind([c EXCEPT !.fresh = FALSE]) /\ [c EXCEPT !.fresh = FALSE].by = c.by
         /\ [c EXCEPT !.fresh = FALSE].fresh = FALSE
         /\ c.fresh = FALSE => [c EXCEPT !.fresh = FALSE] = c
  BY DEF Kind, Fields

LEMMA SameListing == db' = db => Todo!Listing' = Todo!Listing
  BY DEF Todo!Listing, Todo!Nth, Todo!Place

\* What a step leaves alone, and what it may not.
OnPages == rows' = [p \in Pages |-> rows'[p]] /\ table' = [p \in Pages |-> table'[p]]
           /\ blame' = [p \in Pages |-> blame'[p]]

LEMMA ShapeKept ==
  ASSUME Shape, Fresh, db' = db, OnPages,
         \A x \in calls' : x \in calls \/ (Kind(x) /\ IsFresh(x))
  PROVE  Shape' /\ Fresh'
<1>1. \A x \in calls' : Kind(x) /\ IsFresh(x)
  BY DEF Shape, Fresh
<1>2. \A x : IsFresh(x)' <=> IsFresh(x)
  BY SameListing DEF IsFresh
<1> QED
  BY <1>1, <1>2 DEF Shape, Fresh, OnPages, Ids

LEMMA ShapeWritten ==
  ASSUME Shape, Fresh, NEW c \in calls, NEW d, NEW newDb, Todo!Write(c, d, newDb),
         Kind(d), ~d.fresh, \A i \in DOMAIN newDb : newDb[i] \in BOOLEAN,
         rows' = rows, table' = table
  PROVE  Shape' /\ Fresh'
<1>1. db' = newDb /\ calls' = Todo!Outdated(calls \ {c}) \cup {d}
      /\ blame' = [p \in Pages |-> blame[p] \/ p # c.by]
  BY DEF Todo!Write
<1>2. ASSUME NEW x \in calls' PROVE Kind(x) /\ ~x.fresh
  <2>1. x = d \/ \E y \in calls : x = [y EXCEPT !.fresh = FALSE]
    BY <1>1 DEF Todo!Outdated
  <2>2. ASSUME NEW y \in calls, x = [y EXCEPT !.fresh = FALSE] PROVE Kind(x) /\ ~x.fresh
    <3>1. Kind(y)
      BY DEF Shape
    <3>2. Kind([y EXCEPT !.fresh = FALSE]) /\ [y EXCEPT !.fresh = FALSE].fresh = FALSE
      BY <3>1, NotFresh
    <3> QED
      BY <2>2, <3>2
  <2> QED
    BY <2>1, <2>2
<1>3. OnPages
  BY <1>1 DEF Shape, OnPages
<1> QED
  BY <1>1, <1>2, <1>3 DEF Shape, Fresh, OnPages, Ids, IsFresh

\* What a page's step may do to the others.
OthersKeep(q) ==
  \A p \in Pages \ {q} :
    ~blame'[p] => /\ ~blame[p] /\ Todo!Of(p)' = Todo!Of(p) /\ db' = db
                  /\ rows'[p] = rows[p] /\ table'[p] = table[p]
                  /\ \/ err' \in {err, FALSE}
                     \/ \A e \in Todo!Editing : e.by # p

LEMMA Elsewhere ==
  ASSUME PageInv, NEW q, OthersKeep(q), NEW p \in Pages, p # q
  PROVE  Page(p)'
<1> SUFFICES ASSUME ~blame'[p] PROVE Page(p)'
  BY DEF Page
<1>1. /\ ~blame[p] /\ Todo!Of(p)' = Todo!Of(p) /\ db' = db /\ rows'[p] = rows[p] /\ table'[p] = table[p]
      /\ (err' \in {err, FALSE} \/ \A e \in Todo!Editing : e.by # p)
  BY DEF OthersKeep
<1>2. Renews(Todo!Of(p)) \/ Follows(Todo!Of(p), table[p], rows[p], db, err)
  BY <1>1 DEF PageInv, Page
<1>3. ASSUME Follows(Todo!Of(p), table[p], rows[p], db, err)
      PROVE  Follows(Todo!Of(p), table[p], rows[p], db, err')
  <2>1. CASE err' \in {err, FALSE}
    BY <1>3, <2>1, ErrAside
  <2>2. CASE \A e \in Todo!Editing : e.by # p
    <3>1. \A x \in Todo!Of(p) : x.verb = "edit" => x.pc \in {"arrived", "ok"}
      BY <1>3, <2>2 DEF Todo!Editing, Todo!Of, Follows, EditOf, DeleteOf
    <3> QED
      BY <1>3, <3>1, ErrAside
  <2> QED
    BY <1>1, <2>1, <2>2
<1> QED
  BY <1>1, <1>2, <1>3 DEF Page

\* A call is replaced by its next state, alone or writing the table.
LEMMA Becomes ==
  ASSUME Shape, NEW c \in calls, NEW d, d.by = c.by, Todo!Become(c, d)
  PROVE  /\ Todo!Of(c.by)' = (Todo!Of(c.by) \ {c}) \cup {d}
         /\ \A p : p # c.by => Todo!Of(p)' = Todo!Of(p)
  BY DEF Todo!Become, Todo!Of

LEMMA Ends ==
  ASSUME NEW c \in calls, calls' = calls \ {c}
  PROVE  /\ Todo!Of(c.by)' = Todo!Of(c.by) \ {c}
         /\ \A p : p # c.by => Todo!Of(p)' = Todo!Of(p)
  BY DEF Todo!Of

LEMMA Written ==
  ASSUME PageInv, NEW c \in calls, NEW d, d.by = c.by, NEW newDb, Todo!Write(c, d, newDb),
         ~blame'[c.by]
  PROVE  ~blame[c.by] /\ Todo!Of(c.by)' = (Todo!Of(c.by) \ {c}) \cup {d}
<1> DEFINE q == c.by
<1>1. /\ q \in Pages /\ calls' = Todo!Outdated(calls \ {c}) \cup {d}
      /\ blame' = [p \in Pages |-> blame[p] \/ p # c.by]
  BY DEF Todo!Write, PageInv, Shape, Kind
<1>2. ~blame[q]
  BY <1>1
<1>3. \A x \in Todo!Of(q) \ {c} : x.verb # "list"
  <2>1. CASE Renews(Todo!Of(q))
    <3>1. c \in Todo!Of(q)
      BY DEF Todo!Of
    <3> QED
      BY <2>1, <3>1 DEF Renews
  <2>2. CASE Follows(Todo!Of(q), table[q], rows[q], db, err)
    BY <2>2 DEF Follows, EditOf, DeleteOf
  <2> QED
    BY <1>1, <1>2, <2>1, <2>2 DEF PageInv, Page
<1>4. \A x \in calls \ {c} : /\ [x EXCEPT !.fresh = FALSE].by = x.by
                             /\ x.by = q => [x EXCEPT !.fresh = FALSE] = x
  <2> SUFFICES ASSUME NEW x \in calls \ {c}
               PROVE  /\ [x EXCEPT !.fresh = FALSE].by = x.by
                      /\ x.by = q => [x EXCEPT !.fresh = FALSE] = x
    OBVIOUS
  <2>1. Kind(x) /\ (x.by = q => x.fresh = FALSE)
    BY <1>3 DEF PageInv, Shape, Fresh, IsFresh, Todo!Of, Kind
  <2>2. [x EXCEPT !.fresh = FALSE].by = x.by
    BY <2>1, NotFresh
  <2> QED
    BY <2>1, <2>2, NotFresh
<1>5. Todo!Of(q)' = (Todo!Of(q) \ {c}) \cup {d}
  <2>1. \A x \in Todo!Outdated(calls \ {c}) : x.by = q <=> x \in Todo!Of(q) \ {c}
    <3> TAKE x \in Todo!Outdated(calls \ {c})
    <3>1. PICK y \in calls \ {c} : x = [y EXCEPT !.fresh = FALSE]
      BY DEF Todo!Outdated
    <3>2. x.by = y.by /\ (y.by = q => x = y)
      BY <1>4, <3>1
    <3> QED
      BY <3>2 DEF Todo!Of
  <2>2. \A y \in Todo!Of(q) \ {c} : y \in Todo!Outdated(calls \ {c})
    BY <1>4 DEF Todo!Of, Todo!Outdated
  <2> QED
    BY <1>1, <2>1, <2>2 DEF Todo!Of
<1> QED
  BY <1>2, <1>5

\* What has to be shown of a step of page q.
Keeps(q) == Shape' /\ Fresh' /\ OthersKeep(q) /\ Page(q)'

\* c is an edit or a removal of a page that is not to blame.
LEMMA FollowedOne ==
  ASSUME PageInv, NEW c \in calls, ~blame[c.by], c.verb \in {"edit", "delete"}
  PROVE  /\ c.by \in Pages /\ c \in Todo!Of(c.by)
         /\ Follows(Todo!Of(c.by), table[c.by], rows[c.by], db, err)
         /\ IF c.verb = "edit" THEN EditOf(c, table[c.by], rows[c.by], err)
                               ELSE DeleteOf(c, table[c.by], rows[c.by])
<1>1. c.by \in Pages /\ c \in Todo!Of(c.by)
  BY DEF PageInv, Shape, Kind, Todo!Of
<1>2. ~Renews(Todo!Of(c.by))
  BY <1>1 DEF Renews
<1>3. Follows(Todo!Of(c.by), table[c.by], rows[c.by], db, err)
  BY <1>1, <1>2 DEF PageInv, Page
<1> QED
  BY <1>1, <1>3 DEF Follows, EditOf, DeleteOf

\* The other calls of a page that renews its list: there are none.
LEMMA RenewsAlone ==
  ASSUME PageInv, NEW c \in calls, ~blame[c.by], c.verb \in {"add", "list"}
  PROVE  c.by \in Pages /\ Todo!Of(c.by) = {c}
<1>1. c.by \in Pages /\ c \in Todo!Of(c.by)
  BY DEF PageInv, Shape, Kind, Todo!Of
<1>2. ~Follows(Todo!Of(c.by), table[c.by], rows[c.by], db, err)
  BY <1>1 DEF Follows, EditOf, DeleteOf
<1>3. Renews(Todo!Of(c.by))
  BY <1>1, <1>2 DEF PageInv, Page
<1> QED
  BY <1>1, <1>3 DEF Renews

\* A call goes on, and the table stays.
LEMMA CallGoesOn ==
  ASSUME PageInv, NEW c \in calls, NEW d, Todo!Become(c, d), Kind(d), IsFresh(d), d.by = c.by,
         db' = db, rows' = rows, table' = table, OnPages,
         \A p \in Pages : ~blame'[p] =>
           ~blame[p] /\ (err' \in {err, FALSE} \/ \A e \in Todo!Editing : e.by # p),
         ~blame'[c.by] =>
           \/ c.verb \in {"add", "list"} /\ d.verb \in {"add", "list"}
           \/ /\ c.verb \in {"edit", "delete"} /\ SameClick(c, d) /\ (Done(c) <=> Done(d))
              /\ err' \in {err, FALSE}
              /\ EditOf(d, table[c.by], rows[c.by], err') \/ DeleteOf(d, table[c.by], rows[c.by])
  PROVE  Keeps(c.by)
<1> DEFINE q == c.by
<1>1. q \in Pages /\ Shape /\ Fresh
  BY DEF PageInv, Shape, Kind
<1>2. /\ Todo!Of(q)' = (Todo!Of(q) \ {c}) \cup {d}
      /\ \A p : p # q => Todo!Of(p)' = Todo!Of(p)
  BY <1>1, Becomes
<1>3. Shape' /\ Fresh'
  <2>1. \A x \in calls' : x \in calls \/ x = d
    BY DEF Todo!Become
  <2> QED
    BY <1>1, <2>1, ShapeKept
<1>4. OthersKeep(q)
  BY <1>2 DEF OthersKeep
<1>5. Page(q)'
  <2> SUFFICES ASSUME ~blame'[q] PROVE Page(q)'
    BY DEF Page
  <2>1. ~blame[q]
    BY <1>1
  <2>2. CASE c.verb \in {"add", "list"} /\ d.verb \in {"add", "list"}
    <3>1. Todo!Of(q) = {c}
      BY <2>1, <2>2, RenewsAlone
    <3>2. Todo!Of(q)' = {d}
      BY <1>2, <3>1
    <3> QED
      BY <2>2, <3>2 DEF Page, Renews
  <2>3. CASE /\ c.verb \in {"edit", "delete"} /\ SameClick(c, d) /\ (Done(c) <=> Done(d))
             /\ err' \in {err, FALSE}
             /\ EditOf(d, table[q], rows[q], err') \/ DeleteOf(d, table[q], rows[q])
    <3>1. c \in Todo!Of(q) /\ Follows(Todo!Of(q), table[q], rows[q], db, err)
      BY <2>1, <2>3, FollowedOne
    <3>2. Follows((Todo!Of(q) \ {c}) \cup {d}, table[q], rows[q], db, err')
      BY <2>3, <3>1, GoesOn
    <3>3. Follows(Todo!Of(q)', table'[q], rows'[q], db', err')
      BY <1>2, <3>2
    <3> QED
      BY <3>3 DEF Page
  <2> QED
    BY <2>2, <2>3
<1> QED
  BY <1>3, <1>4, <1>5 DEF Keeps

\* A call writes the table.
LEMMA CallWrites ==
  ASSUME PageInv, NEW c \in calls, NEW d, NEW newDb, Todo!Write(c, d, newDb), Kind(d), ~d.fresh, d.by = c.by,
         \A i \in DOMAIN newDb : newDb[i] \in BOOLEAN, rows' = rows, table' = table,
         ~blame[c.by] =>
           \/ c.verb \in {"add", "list"} /\ d.verb \in {"add", "list"}
           \/ Follows((Todo!Of(c.by) \ {c}) \cup {d}, table[c.by], rows[c.by], newDb, err')
  PROVE  Keeps(c.by)
<1> DEFINE q == c.by
<1>1. q \in Pages /\ Shape /\ Fresh /\ db' = newDb
  BY DEF PageInv, Shape, Kind, Todo!Write
<1>2. Shape' /\ Fresh'
  BY <1>1, ShapeWritten
<1>3. OthersKeep(q)
  BY <1>1 DEF OthersKeep, Todo!Write
<1>4. Page(q)'
  <2> SUFFICES ASSUME ~blame'[q] PROVE Page(q)'
    BY DEF Page
  <2>1. ~blame[q] /\ Todo!Of(q)' = (Todo!Of(q) \ {c}) \cup {d}
    BY Written
  <2>2. CASE c.verb \in {"add", "list"} /\ d.verb \in {"add", "list"}
    <3>1. Todo!Of(q) = {c}
      BY <2>1, <2>2, RenewsAlone
    <3>2. Todo!Of(q)' = {d}
      BY <2>1, <3>1
    <3> QED
      BY <2>2, <3>2 DEF Page, Renews
  <2>3. CASE Follows((Todo!Of(q) \ {c}) \cup {d}, table[q], rows[q], newDb, err')
    <3>1. Follows(Todo!Of(q)', table'[q], rows'[q], db', err')
      BY <1>1, <2>1, <2>3
    <3> QED
      BY <3>1 DEF Page
  <2> QED
    BY <2>1, <2>2, <2>3
<1> QED
  BY <1>2, <1>3, <1>4 DEF Keeps

\* A call ends.
LEMMA CallEnds ==
  ASSUME PageInv, NEW c \in calls, calls' = calls \ {c}, db' = db, err' = err, OnPages,
         \A p \in Pages \ {c.by} : rows'[p] = rows[p] /\ table'[p] = table[p] /\ blame'[p] = blame[p],
         ~blame'[c.by] => Follows(Todo!Of(c.by) \ {c}, table'[c.by], rows'[c.by], db, err)
  PROVE  Keeps(c.by)
<1> DEFINE q == c.by
<1>1. q \in Pages /\ Shape /\ Fresh
  BY DEF PageInv, Shape, Kind
<1>2. Todo!Of(q)' = Todo!Of(q) \ {c} /\ \A p : p # q => Todo!Of(p)' = Todo!Of(p)
  BY Ends
<1>3. Shape' /\ Fresh'
  BY <1>1, ShapeKept
<1>4. OthersKeep(q)
  BY <1>2 DEF OthersKeep
<1>5. Page(q)'
  <2>1. ~blame'[q] => Follows(Todo!Of(q)', table'[q], rows'[q], db', err')
    BY <1>2
  <2> QED
    BY <2>1 DEF Page
<1> QED
  BY <1>3, <1>4, <1>5 DEF Keeps

LEMMA PostPage ==
  ASSUME PageInv, NEW c \in calls, Todo!Post(c)
  PROVE  Keeps(c.by)
<1> DEFINE d == [c EXCEPT !.pc = "ok"]
           new == Todo!With(nextId, FALSE)
<1>1. c.verb = "add" /\ Todo!Write(c, d, new) /\ rows' = rows /\ table' = table
  BY DEF Todo!Post, Todo!screen
<1>2. Kind(d) /\ SameClick(c, d) /\ d.by = c.by /\ ~d.fresh
  BY <1>1, PcIs DEF PageInv, Shape, Fresh, IsFresh, Kind
<1>3. \A i \in DOMAIN new : new[i] \in BOOLEAN
  BY DEF PageInv, Shape, Ids, Todo!With
<1> HIDE DEF d, new
<1> QED
  BY <1>1, <1>2, <1>3, CallWrites DEF SameClick

LEMMA GetPage ==
  ASSUME PageInv, NEW c \in calls, Todo!Get(c)
  PROVE  Keeps(c.by)
<1>1. PICK d : d = [c EXCEPT !.pc = "ok", !.list = Todo!Listing, !.fresh = TRUE]
  OBVIOUS
<1>2. c.verb = "list" /\ Todo!Become(c, d) /\ UNCHANGED <<db, err, rows, table, blame>>
  BY <1>1 DEF Todo!Get, Todo!screen
<1>3. Kind(d) /\ d.by = c.by /\ d.verb = "list" /\ IsFresh(d)
  <2>1. Kind(c)
    BY DEF PageInv, Shape
  <2>2. d.by = c.by /\ d.verb = "list" /\ d.fresh = TRUE /\ d.list = Todo!Listing /\ d.want = c.want
        /\ d.todo = c.todo /\ d = [x \in Fields |-> d[x]]
    BY <1>1, <1>2, <2>1 DEF Kind, Fields
  <2> QED
    BY <2>1, <2>2 DEF Kind, IsFresh
<1>4. OnPages
  BY <1>2 DEF OnPages, PageInv, Shape
<1> QED
  BY <1>2, <1>3, <1>4, CallGoesOn

LEMMA AddAnsweredPage ==
  ASSUME PageInv, NEW c \in calls, Todo!AddAnswered(c)
  PROVE  Keeps(c.by)
<1>1. PICK d : d = [Todo!NewCall(c.by, "list") EXCEPT !.no = c.no]
  OBVIOUS
<1>2. c.verb = "add" /\ Todo!Become(c, d) /\ UNCHANGED <<db, err, rows, table, blame>>
  BY <1>1 DEF Todo!AddAnswered, Todo!screen
<1>3. Kind(d) /\ d.by = c.by /\ d.verb = "list" /\ IsFresh(d)
  <2>1. c.by \in Pages
    BY DEF PageInv, Shape, Kind
  <2> QED
    BY <1>1, <2>1 DEF Kind, IsFresh, Fields, Todo!NewCall, Todo!Blank
<1>4. OnPages
  BY <1>2 DEF OnPages, PageInv, Shape
<1> QED
  BY <1>2, <1>3, <1>4, CallGoesOn

LEMMA DeletePage ==
  ASSUME PageInv, NEW c \in calls, Todo!Delete(c)
  PROVE  Keeps(c.by)
<1> DEFINE d == [c EXCEPT !.pc = "ok"]
           q == c.by
<1>1. c.verb = "delete" /\ c.pc = "arrived" /\ UNCHANGED <<err, rows, table>> /\ ~Done(c)
  BY DEF Todo!Delete, Todo!screen, Done
<1>2. Kind(d) /\ SameClick(c, d) /\ d.by = c.by /\ d.pc = "ok" /\ d.verb = "delete" /\ d.fresh = FALSE
  BY <1>1, PcIs DEF PageInv, Shape, Fresh, IsFresh, Kind, SameClick
<1> HIDE DEF d
<1>3. CASE c.id \in DOMAIN db
  <2> DEFINE new == Todo!Restrict(db, DOMAIN db \ {c.id})
  <2>1. Todo!Write(c, d, new)
    BY <1>3 DEF Todo!Delete, d
  <2>2. DOMAIN new = DOMAIN db \ {c.id} /\ \A i \in DOMAIN new : new[i] = db[i]
    BY DEF Todo!Restrict
  <2>3. \A i \in DOMAIN new : new[i] \in BOOLEAN
    BY <2>2 DEF PageInv, Shape, Ids
  <2> HIDE DEF new
  <2>4. ~blame[q] => Follows((Todo!Of(q) \ {c}) \cup {d}, table[q], rows[q], new, err')
    <3> SUFFICES ASSUME ~blame[q] PROVE Follows((Todo!Of(q) \ {c}) \cup {d}, table[q], rows[q], new, err)
      BY <1>1
    <3>1. c \in Todo!Of(q) /\ Follows(Todo!Of(q), table[q], rows[q], db, err)
      BY <1>1, FollowedOne
    <3> QED
      BY <1>1, <1>2, <2>2, <3>1, Removed
  <2> QED
    BY <1>1, <1>2, <2>1, <2>3, <2>4, CallWrites
<1>4. CASE c.id \notin DOMAIN db
  <2>1. Todo!Become(c, d) /\ UNCHANGED <<db, blame>>
    BY <1>4 DEF Todo!Delete, Todo!At, d
  <2>2. ~blame[q] => FALSE
    BY <1>1, <1>4, FollowedOne, Finds
  <2>3. IsFresh(d)
    BY <1>2 DEF IsFresh
  <2>4. OnPages
    BY <1>1, <2>1 DEF OnPages, PageInv, Shape
  <2> QED
    BY <1>1, <1>2, <2>1, <2>2, <2>3, <2>4, CallGoesOn
<1> QED
  BY <1>3, <1>4

\* A PUT of a page that is not to blame goes on.
LEMMA PutGoesOn ==
  ASSUME PageInv, NEW c \in calls, c.verb = "edit", NEW d, Todo!Become(c, d), Kind(d), SameClick(c, d),
         d.by = c.by, d.fresh = c.fresh, UNCHANGED <<db, rows, table>>,
         \/ blame' = blame /\ err' \in {err, FALSE}
         \/ blame' = [p \in Pages |-> blame[p] \/ \E e \in Todo!Editing \cup {c} : e.by = p],
         \* what may become of one that has not failed
         ~blame[c.by] /\ blame' = blame =>
           /\ Done(c) <=> Done(d)
           /\ EditOf(c, table[c.by], rows[c.by], err) => EditOf(d, table[c.by], rows[c.by], err')
  PROVE  Keeps(c.by)
<1> DEFINE q == c.by
<1>1. q \in Pages /\ IsFresh(d) /\ d.verb = "edit"
  BY DEF PageInv, Shape, Kind, Fresh, IsFresh, SameClick
<1>2. OnPages
  BY DEF OnPages, PageInv, Shape
<1>3. \A p \in Pages : ~blame'[p] =>
        ~blame[p] /\ (err' \in {err, FALSE} \/ \A e \in Todo!Editing : e.by # p)
  OBVIOUS
<1>4. ASSUME ~blame'[q]
      PROVE  /\ (Done(c) <=> Done(d)) /\ err' \in {err, FALSE}
             /\ EditOf(d, table[q], rows[q], err')
  <2>1. ~blame[q] /\ blame' = blame /\ err' \in {err, FALSE}
    BY <1>1, <1>4
  <2>2. EditOf(c, table[q], rows[q], err)
    BY <2>1, FollowedOne
  <2> QED
    BY <2>1, <2>2
<1> QED
  BY <1>1, <1>2, <1>3, <1>4, CallGoesOn

\* A PUT that cannot be at this point if its page is not to blame.
LEMMA PutStrays ==
  ASSUME PageInv, NEW c \in calls, c.verb = "edit", UNCHANGED <<db, rows, table>>,
         ~EditOf(c, table[c.by], rows[c.by], err),
         NEW v,
         \/ Todo!At(c, v) /\ blame' = blame /\ err' \in {err, FALSE}
         \/ Todo!Fail(c, [c EXCEPT !.pc = v])
         \/ calls' = calls \ {c} /\ UNCHANGED <<err, blame>>
  PROVE  Keeps(c.by)
<1>1. blame[c.by]
  BY FollowedOne
<1>2. Kind(c) /\ c.by \in Pages
  BY DEF PageInv, Shape, Kind
<1> DEFINE d == [c EXCEPT !.pc = v]
<1>3. Kind(d) /\ SameClick(c, d) /\ d.by = c.by /\ d.fresh = c.fresh
  BY <1>2, PcIs
<1>4. CASE Todo!At(c, v) /\ blame' = blame /\ err' \in {err, FALSE}
  <2>1. Todo!Become(c, d)
    BY <1>4 DEF Todo!At
  <2> HIDE DEF d
  <2> QED
    BY <1>1, <1>3, <1>4, <2>1, PutGoesOn
<1>5. CASE Todo!Fail(c, d)
  <2>1. /\ Todo!Become(c, d)
        /\ blame' = [p \in Pages |-> blame[p] \/ \E e \in Todo!Editing \cup {c} : e.by = p]
    BY <1>5 DEF Todo!Fail
  <2> HIDE DEF d
  <2>2. ~(~blame[c.by] /\ blame' = blame)
    BY <1>1
  <2> QED
    BY <1>3, <2>1, <2>2, PutGoesOn
<1>6. CASE calls' = calls \ {c} /\ UNCHANGED <<err, blame>>
  <2>1. OnPages
    BY <1>6 DEF OnPages, PageInv, Shape
  <2> QED
    BY <1>1, <1>6, <2>1, CallEnds
<1> QED
  BY <1>4, <1>5, <1>6

LEMMA PutFirstPage ==
  ASSUME PageInv, NEW c \in calls, Todo!PutFirst(c)
  PROVE  Keeps(c.by)
<1> DEFINE here == c.id \in DOMAIN db
           todo == IF here THEN [id |-> c.id, status |-> db[c.id]] ELSE Todo!Blank
<1>1. PICK d : d = [c EXCEPT !.pc = "first", !.todo = todo]
  OBVIOUS
<1>2. /\ c.verb = "edit" /\ c.pc = "arrived" /\ Todo!Become(c, d) /\ UNCHANGED <<db, rows, table>>
      /\ IF here THEN err' = FALSE /\ blame' = blame
                 ELSE blame' = [p \in Pages |-> blame[p] \/ \E e \in Todo!Editing \cup {c} : e.by = p]
  <2>1. c.verb = "edit" /\ c.pc = "arrived" /\ UNCHANGED <<db, rows, table>>
    BY DEF Todo!PutFirst, Todo!Put, Todo!screen
  <2>2. CASE here
    BY <1>1, <2>1, <2>2 DEF Todo!PutFirst
  <2>3. CASE ~here
    BY <1>1, <2>1, <2>3 DEF Todo!PutFirst, Todo!Fail
  <2> QED
    BY <2>2, <2>3
<1>3. Kind(c) /\ c.by \in Pages /\ (here => db[c.id] \in BOOLEAN)
  BY DEF PageInv, Shape, Kind, Ids
<1>4. Kind(d) /\ SameClick(c, d) /\ d.by = c.by /\ d.fresh = c.fresh /\ d.pc = "first" /\ d.todo = todo
  <2>1. DOMAIN todo = {"id", "status"} /\ todo.status \in BOOLEAN
    BY <1>3 DEF Todo!Blank
  <2> HIDE DEF todo
  <2> QED
    BY <1>1, <1>3, <2>1 DEF Kind, Fields, SameClick
<1>5. CASE here
  <2>1. todo.id = c.id
    BY <1>5
  <2>2. EditOf(c, table[c.by], rows[c.by], err) => EditOf(d, table[c.by], rows[c.by], err')
    BY <1>2, <1>4, <1>5, <2>1 DEF EditOf, SameClick
  <2>3. Done(c) <=> Done(d)
    BY <1>2, <1>4 DEF Done, SameClick
  <2> HIDE DEF here, todo
  <2> QED
    BY <1>2, <1>4, <1>5, <2>2, <2>3, PutGoesOn
<1>6. CASE ~here
  <2> HIDE DEF here, todo
  <2>1. ~(~blame[c.by] /\ blame' = blame)
    BY <1>2, <1>3, <1>6
  <2> QED
    BY <1>2, <1>4, <1>6, <2>1, PutGoesOn
<1> QED
  BY <1>5, <1>6

LEMMA PutsPage ==
  ASSUME PageInv, NEW c \in calls,
         \/ Todo!PutFirstTest(c) \/ Todo!PutRefuse(c) \/ Todo!PutBind(c)
         \/ Todo!PutBindTest(c) \/ Todo!PutSaveTest(c) \/ Todo!SaveFind(c) \/ Todo!SaveInsert(c)
  PROVE  Keeps(c.by)
<1>1. Kind(c) /\ c.by \in Pages /\ c.verb = "edit"
  BY DEF PageInv, Shape, Kind, Todo!PutFirstTest, Todo!PutRefuse, Todo!PutBind, Todo!PutBindTest,
         Todo!PutSaveTest, Todo!SaveFind, Todo!SaveInsert, Todo!Put
\* The tests of err.
<1>2. ASSUME NEW old \in {"first", "bound", "saved"}, c.pc = old, NEW yes, NEW no,
             Todo!At(c, IF err THEN no ELSE yes), UNCHANGED <<db, err, rows, table, blame>>,
             <<old, yes>> \in {<<"first", "bind">>, <<"bound", "save">>, <<"saved", "ok">>}
      PROVE  Keeps(c.by)
  <2>1. PICK v : v = IF err THEN no ELSE yes
    OBVIOUS
  <2> DEFINE d == [c EXCEPT !.pc = v]
  <2>2. Kind(d) /\ SameClick(c, d) /\ d.by = c.by /\ d.fresh = c.fresh /\ d.pc = v /\ d.todo = c.todo
    BY <1>1, PcIs
  <2>3. Todo!Become(c, d)
    BY <1>2, <2>1 DEF Todo!At
  <2> HIDE DEF d
  <2>4. CASE ~err
    <3>1. v = yes
      BY <2>1, <2>4
    <3>2. Done(c) <=> Done(d)
      BY <1>1, <1>2, <2>2, <3>1 DEF Done, SameClick
    <3>3. EditOf(c, table[c.by], rows[c.by], err) => EditOf(d, table[c.by], rows[c.by], err')
      BY <1>2, <2>2, <3>1 DEF EditOf, SameClick
    <3> QED
      BY <1>1, <1>2, <2>2, <2>3, <3>2, <3>3, PutGoesOn
  <2>5. CASE err
    <3>1. ~EditOf(c, table[c.by], rows[c.by], err)
      BY <1>2, <2>5 DEF EditOf
    <3>2. blame[c.by]
      BY <1>1, <3>1, FollowedOne
    <3> QED
      BY <1>1, <1>2, <2>2, <2>3, <3>2, PutGoesOn
  <2> QED
    BY <2>4, <2>5
<1>3. CASE Todo!PutFirstTest(c)
  BY <1>2, <1>3 DEF Todo!PutFirstTest, Todo!Put, Todo!screen
<1>4. CASE Todo!PutBindTest(c)
  BY <1>2, <1>4 DEF Todo!PutBindTest, Todo!Put, Todo!screen
<1>5. CASE Todo!PutSaveTest(c)
  BY <1>2, <1>5 DEF Todo!PutSaveTest, Todo!Put, Todo!screen
<1>6. CASE Todo!PutBind(c)
  <2>1. PICK d : d = [c EXCEPT !.pc = "bound", !.todo.status = c.want]
    OBVIOUS
  <2>2. c.pc = "bind" /\ Todo!Become(c, d) /\ err' = FALSE /\ UNCHANGED <<db, rows, table, blame>>
    BY <1>6, <2>1 DEF Todo!PutBind, Todo!Put, Todo!screen
  <2>3. d = [[c EXCEPT !.pc = "bound"] EXCEPT !.todo = [c.todo EXCEPT !.status = c.want]]
    BY <1>1, <2>1 DEF Kind, Fields
  <2>4. PICK todo : todo = [c.todo EXCEPT !.status = c.want]
    OBVIOUS
  <2>5. DOMAIN todo = {"id", "status"} /\ todo.id = c.todo.id /\ todo.status = c.want /\ c.want \in BOOLEAN
    BY <1>1, <2>4 DEF Kind
  <2>6. Kind(d) /\ SameClick(c, d) /\ d.by = c.by /\ d.fresh = c.fresh /\ d.pc = "bound" /\ d.todo = todo
    BY <1>1, <2>3, <2>4, <2>5 DEF Kind, Fields, SameClick
  <2>7. Done(c) <=> Done(d)
    BY <1>1, <2>2, <2>6 DEF Done, SameClick
  <2>8. EditOf(c, table[c.by], rows[c.by], err) => EditOf(d, table[c.by], rows[c.by], err')
    BY <2>2, <2>5, <2>6 DEF EditOf, SameClick
  <2> QED
    BY <1>1, <2>2, <2>6, <2>7, <2>8, PutGoesOn
<1>7. CASE Todo!PutRefuse(c)
  <2>1. c.pc = "refuse" /\ UNCHANGED <<db, err, rows, table, blame>>
        /\ (Todo!At(c, "error") \/ calls' = calls \ {c})
    BY <1>7 DEF Todo!PutRefuse, Todo!Put, Todo!Settle, Todo!screen
  <2>2. ~EditOf(c, table[c.by], rows[c.by], err)
    BY <2>1 DEF EditOf
  <2> QED
    BY <1>1, <2>1, <2>2, PutStrays
<1>8. CASE Todo!SaveFind(c)
  <2>1. c.pc = "find" /\ UNCHANGED <<db, rows, table, blame>>
    BY <1>8 DEF Todo!SaveFind, Todo!Put, Todo!screen
  <2>2. PICK v : Todo!At(c, v) /\ err' \in {err, FALSE}
    BY <1>8 DEF Todo!SaveFind
  <2>3. ~EditOf(c, table[c.by], rows[c.by], err)
    BY <2>1 DEF EditOf
  <2> QED
    BY <1>1, <2>1, <2>2, <2>3, PutStrays
<1>9. CASE Todo!SaveInsert(c) /\ c.todo.id \in DOMAIN db
  <2>1. c.pc = "insert" /\ UNCHANGED <<db, rows, table>> /\ Todo!Fail(c, [c EXCEPT !.pc = "saved"])
    BY <1>9 DEF Todo!SaveInsert, Todo!Put, Todo!screen
  <2>2. ~EditOf(c, table[c.by], rows[c.by], err)
    BY <2>1 DEF EditOf
  <2> QED
    BY <1>1, <2>1, <2>2, PutStrays
<1>10. CASE Todo!SaveInsert(c) /\ c.todo.id \notin DOMAIN db
  <2> DEFINE d == [c EXCEPT !.pc = "saved"]
             new == Todo!With(c.todo.id, c.todo.status)
  <2>1. c.pc = "insert" /\ Todo!Write(c, d, new) /\ UNCHANGED <<rows, table>>
    BY <1>10 DEF Todo!SaveInsert, Todo!Put, Todo!screen
  <2>2. Kind(d) /\ d.by = c.by /\ ~d.fresh
    BY <1>1, PcIs DEF PageInv, Fresh, IsFresh
  <2>3. \A i \in DOMAIN new : new[i] \in BOOLEAN
    BY <1>1 DEF PageInv, Shape, Ids, Todo!With, Kind
  <2>4. blame[c.by]
    BY <1>1, <2>1, FollowedOne DEF EditOf
  <2> HIDE DEF d, new
  <2> QED
    BY <2>1, <2>2, <2>3, <2>4, CallWrites
<1> QED
  BY <1>3, <1>4, <1>5, <1>6, <1>7, <1>8, <1>9, <1>10

LEMMA SavePage ==
  ASSUME PageInv, NEW c \in calls, Todo!Save(c)
  PROVE  Keeps(c.by)
<1> DEFINE d == [c EXCEPT !.pc = "saved"]
           id == c.todo.id
           q == c.by
<1>1. c.verb = "edit" /\ c.pc = "save" /\ UNCHANGED <<rows, table>> /\ q \in Pages /\ Kind(c) /\ ~c.fresh
  BY DEF Todo!Save, Todo!Put, Todo!screen, PageInv, Shape, Fresh, IsFresh, Kind
<1>2. Kind(d) /\ SameClick(c, d) /\ d.by = c.by /\ d.pc = "saved" /\ ~d.fresh
  BY <1>1, PcIs
<1>3. ~blame[q] => /\ c \in Todo!Of(q) /\ Follows(Todo!Of(q), table[q], rows[q], db, err)
                   /\ id = c.id /\ c.todo.status = c.want /\ c.id \in DOMAIN db /\ db[c.id] # c.todo.status
  <2> SUFFICES ASSUME ~blame[q]
               PROVE  /\ c \in Todo!Of(q) /\ Follows(Todo!Of(q), table[q], rows[q], db, err)
                      /\ id = c.id /\ c.todo.status = c.want /\ c.id \in DOMAIN db /\ db[c.id] # c.todo.status
    OBVIOUS
  <2>1. /\ c \in Todo!Of(q) /\ Follows(Todo!Of(q), table[q], rows[q], db, err)
        /\ EditOf(c, table[q], rows[q], err)
    BY <1>1, FollowedOne
  <2>2. ~Done(c)
    BY <1>1 DEF Done
  <2>3. c.id \in DOMAIN db /\ db[c.id] = ~c.want
    BY <1>1, <2>1, <2>2, Finds
  <2>4. id = c.id /\ c.todo.status = c.want /\ c.want \in BOOLEAN
    BY <1>1, <2>1 DEF EditOf
  <2> QED
    BY <2>1, <2>3, <2>4
<1>4. 0 \notin DOMAIN db
  BY DEF PageInv, RowInv, TableInv
<1>5. CASE id = 0
  <2> DEFINE new == Todo!With(nextId, c.todo.status)
  <2>1. Todo!Write(c, d, new)
    BY <1>4, <1>5 DEF Todo!Save
  <2>2. \A i \in DOMAIN new : new[i] \in BOOLEAN
    BY <1>1 DEF PageInv, Shape, Ids, Todo!With, Kind
  <2>3. blame[q]
    BY <1>3, <1>4, <1>5
  <2> HIDE DEF d, new
  <2> QED
    BY <1>1, <1>2, <2>1, <2>2, <2>3, CallWrites
<1>6. CASE id # 0 /\ id \in DOMAIN db /\ db[id] # c.todo.status
  <2> DEFINE new == [db EXCEPT ![id] = c.todo.status]
  <2>1. Todo!Write(c, d, new) /\ err' = FALSE
    BY <1>6 DEF Todo!Save
  <2>2. \A i \in DOMAIN new : new[i] \in BOOLEAN
    BY <1>1 DEF PageInv, Shape, Ids, Kind
  <2> HIDE DEF d
  <2>3. ~blame[q] => Follows((Todo!Of(q) \ {c}) \cup {d}, table[q], rows[q], new, FALSE)
    BY <1>1, <1>2, <1>3, Saved
  <2> HIDE DEF new
  <2> QED
    BY <1>1, <1>2, <2>1, <2>2, <2>3, CallWrites
<1>7. CASE id # 0 /\ ~(id \in DOMAIN db /\ db[id] # c.todo.status)
  <2>1. Todo!At(c, "find") /\ UNCHANGED <<db, nextId, err, blame>>
    BY <1>7 DEF Todo!Save
  <2>2. blame[q]
    BY <1>3, <1>7
  <2> DEFINE f == [c EXCEPT !.pc = "find"]
  <2>3. Todo!Become(c, f)
    BY <2>1 DEF Todo!At
  <2>4. Kind(f) /\ SameClick(c, f) /\ f.by = c.by /\ f.fresh = c.fresh
    BY <1>1, PcIs
  <2> HIDE DEF f
  <2> QED
    BY <1>1, <2>1, <2>2, <2>3, <2>4, PutGoesOn
<1> QED
  BY <1>5, <1>6, <1>7

LEMMA EditAnsweredPage ==
  ASSUME PageInv, NEW c \in calls, Todo!EditAnswered(c)
  PROVE  Keeps(c.by)
<1> DEFINE q == c.by
           Q == [rows[q] EXCEPT ![table[q][c.at]].status = ~rows[q][c.row].status]
<1>1. /\ c.verb = "edit" /\ c.pc \in {"ok", "error"} /\ calls' = calls \ {c}
      /\ UNCHANGED <<db, err, table, blame>>
      /\ rows' = IF c.at \in DOMAIN table[q] THEN [rows EXCEPT ![q] = Q] ELSE rows
  BY DEF Todo!EditAnswered
<1>2. q \in Pages /\ rows = [p \in Pages |-> rows[p]]
  BY DEF PageInv, Shape, Kind
<1>3. OnPages /\ \A p \in Pages \ {q} : rows'[p] = rows[p]
  BY <1>1, <1>2 DEF OnPages, PageInv, Shape
<1>4. ASSUME ~blame[q] PROVE Follows(Todo!Of(q) \ {c}, table[q], rows'[q], db, err)
  <2>1. /\ c \in Todo!Of(q) /\ Follows(Todo!Of(q), table[q], rows[q], db, err)
        /\ EditOf(c, table[q], rows[q], err)
    BY <1>1, <1>4, FollowedOne
  <2>2. c.pc = "ok" /\ c.at \in DOMAIN table[q]
    BY <1>1, <2>1 DEF EditOf
  <2>3. Follows(Todo!Of(q) \ {c}, table[q], Q, db, err)
    BY <1>1, <2>1, <2>2, EditTaken
  <2>4. rows'[q] = Q
    BY <1>1, <1>2, <2>2
  <2> QED
    BY <2>3, <2>4
<1> QED
  BY <1>1, <1>3, <1>4, CallEnds

LEMMA DeleteAnsweredPage ==
  ASSUME PageInv, NEW c \in calls, Todo!DeleteAnswered(c)
  PROVE  Keeps(c.by)
<1> DEFINE q == c.by
           U == Todo!Splice(table[q], c.at)
<1>1. /\ c.verb = "delete" /\ c.pc = "ok" /\ calls' = calls \ {c}
      /\ UNCHANGED <<db, err, rows, blame>> /\ table' = [table EXCEPT ![q] = U]
  BY DEF Todo!DeleteAnswered
<1> HIDE DEF U
<1>2. q \in Pages /\ table = [p \in Pages |-> table[p]]
  BY DEF PageInv, Shape, Kind
<1>3. OnPages /\ table'[q] = U /\ \A p \in Pages \ {q} : table'[p] = table[p]
  BY <1>1, <1>2 DEF OnPages, PageInv, Shape
<1>4. ASSUME ~blame[q] PROVE Follows(Todo!Of(q) \ {c}, U, rows[q], db, err)
  <2>1. c \in Todo!Of(q) /\ Follows(Todo!Of(q), table[q], rows[q], db, err)
    BY <1>1, <1>4, FollowedOne
  <2> QED
    BY <1>1, <2>1, DeleteTaken DEF U
<1> QED
  BY <1>1, <1>3, <1>4, CallEnds

LEMMA LosePage ==
  ASSUME PageInv, NEW c \in calls, Todo!Lose(c)
  PROVE  Keeps(c.by)
<1>1. /\ calls' = calls \ {c} /\ UNCHANGED <<db, err, rows, table>>
      /\ blame' = [blame EXCEPT ![c.by] = TRUE]
  BY DEF Todo!Lose, Todo!screen
<1>2. c.by \in Pages /\ blame = [p \in Pages |-> blame[p]]
  BY DEF PageInv, Shape, Kind
<1>3. OnPages /\ blame'[c.by] /\ \A p \in Pages \ {c.by} : blame'[p] = blame[p]
  BY <1>1, <1>2 DEF OnPages, PageInv, Shape
<1> QED
  BY <1>1, <1>3, CallEnds

\* A list that is what the database has, taken while no other answer is out.
LEMMA ListAnsweredPage ==
  ASSUME PageInv, NEW c \in calls, Todo!ListAnswered(c)
  PROVE  Keeps(c.by)
<1> DEFINE q == c.by
           kept == IF Todo!Of(q) = {c} THEN <<>> ELSE rows[q]
           R == kept \o c.list
           T == [i \in 1..Len(c.list) |-> Len(kept) + i]
           alone == c.fresh /\ Todo!Of(q) = {c}
<1>1. /\ c.verb = "list" /\ calls' = calls \ {c} /\ UNCHANGED <<db, err>>
      /\ rows' = [rows EXCEPT ![q] = R] /\ table' = [table EXCEPT ![q] = T]
      /\ blame' = [blame EXCEPT ![q] = ~alone /\ (blame[q] \/ ~c.fresh)]
  BY DEF Todo!ListAnswered
<1>2. /\ q \in Pages /\ rows = [p \in Pages |-> rows[p]] /\ table = [p \in Pages |-> table[p]]
      /\ blame = [p \in Pages |-> blame[p]]
  BY DEF PageInv, Shape, Kind
<1>3. ASSUME alone PROVE Follows(Todo!Of(q) \ {c}, T, R, db, err)
  <2>1. Lists(c.list, db)
    <3>1. c.list = Todo!Listing
      BY <1>3 DEF PageInv, Fresh, IsFresh
    <3>2. \A i \in Ids : db[i] \in BOOLEAN
      BY DEF PageInv, Shape
    <3> QED
      BY <3>1, <3>2, RowIds, ListingLists DEF PageInv
  <2>2. R = c.list /\ T = [i \in 1..Len(c.list) |-> i] /\ Todo!Of(q) \ {c} = {}
    <3>1. c.list \in Seq(Row) /\ Len(c.list) \in Nat
      BY <2>1 DEF Lists
    <3>2. kept = <<>>
      BY <1>3
    <3> QED
      BY <1>3, <3>1, <3>2, ConcatEmptySeq
  <2>3. Follows({}, [i \in 1..Len(c.list) |-> i], c.list, db, err)
    BY <2>1, Listed
  <2> HIDE DEF R, T
  <2> QED
    BY <2>2, <2>3
<1>4. ASSUME ~blame'[q] PROVE alone
  <2>1. alone \/ (~blame[q] /\ c.fresh)
    BY <1>1, <1>2, <1>4
  <2>2. ~blame[q] => Todo!Of(q) = {c}
    BY <1>1, RenewsAlone
  <2> QED
    BY <2>1, <2>2
<1> HIDE DEF R, T, alone
<1>5. OnPages /\ rows'[q] = R /\ table'[q] = T
      /\ \A p \in Pages \ {q} : rows'[p] = rows[p] /\ table'[p] = table[p] /\ blame'[p] = blame[p]
  BY <1>1, <1>2 DEF OnPages
<1> QED
  BY <1>1, <1>3, <1>4, <1>5, CallEnds

\* A click of page p sends a call, which no answer on its way may disturb.
LEMMA SendPage ==
  ASSUME PageInv, NEW p \in Pages, NEW d, Todo!Send(d), Kind(d), ~d.fresh, d.by = p, d.pc = "arrived",
         UNCHANGED <<rows, table>>,
         \/ d.verb = "add"
         \/ /\ d.verb \in {"edit", "delete"}
            /\ Screen(table[p], rows[p]) =>
                 EditOf(d, table[p], rows[p], err) \/ DeleteOf(d, table[p], rows[p])
  PROVE  Keeps(p)
<1>1. /\ calls' = calls \cup {d} /\ UNCHANGED <<db, err>>
      /\ blame' = [blame EXCEPT ![p] = @ \/ \E x \in Todo!Of(p) : ~Todo!Apart(d, x)]
  BY DEF Todo!Send
<1>2. Shape /\ Fresh
  BY DEF PageInv
<1>3. OnPages /\ \A q \in Pages \ {p} : blame'[q] = blame[q]
  BY <1>1, <1>2 DEF OnPages, Shape
<1>4. Todo!Of(p)' = Todo!Of(p) \cup {d} /\ \A q : q # p => Todo!Of(q)' = Todo!Of(q)
  BY <1>1 DEF Todo!Of
<1>5. Shape' /\ Fresh'
  <2>1. IsFresh(d)
    BY DEF IsFresh
  <2> QED
    BY <1>1, <1>2, <1>3, <2>1, ShapeKept
<1>6. OthersKeep(p)
  BY <1>1, <1>3, <1>4 DEF OthersKeep
<1>7. Page(p)'
  <2> SUFFICES ASSUME ~blame'[p] PROVE Page(p)'
    BY DEF Page
  <2>1. ~blame[p] /\ \A x \in Todo!Of(p) : Todo!Apart(d, x)
    BY <1>1, <1>2 DEF Shape
  <2>2. CASE d.verb = "add"
    <3>1. Todo!Of(p) = {}
      BY <2>1, <2>2 DEF Todo!Apart
    <3>2. Todo!Of(p)' = {d}
      BY <1>4, <3>1
    <3> QED
      BY <2>2, <3>2 DEF Page, Renews
  <2>3. CASE /\ d.verb \in {"edit", "delete"}
             /\ Screen(table[p], rows[p]) =>
                  EditOf(d, table[p], rows[p], err) \/ DeleteOf(d, table[p], rows[p])
    <3>1. ~Renews(Todo!Of(p))
      BY <2>1 DEF Renews, Todo!Apart
    <3>2. Follows(Todo!Of(p), table[p], rows[p], db, err)
      BY <2>1, <3>1 DEF PageInv, Page
    <3>3. EditOf(d, table[p], rows[p], err) \/ DeleteOf(d, table[p], rows[p])
      BY <2>3, <3>2 DEF Follows
    <3>4. Follows(Todo!Of(p) \cup {d}, table[p], rows[p], db, err)
      BY <2>1, <3>2, <3>3, Clicked
    <3>5. Follows(Todo!Of(p)', table'[p], rows'[p], db', err')
      BY <1>1, <1>4, <3>4
    <3> QED
      BY <3>5 DEF Page
  <2> QED
    BY <2>2, <2>3
<1> QED
  BY <1>5, <1>6, <1>7 DEF Keeps

LEMMA ClickPage ==
  ASSUME PageInv, NEW p \in Pages, Todo!Click(p)
  PROVE  Keeps(p)
<1>0. UNCHANGED <<rows, table>>
  BY DEF Todo!Click, Todo!ClickAdd, Todo!ClickEdit, Todo!ClickDelete, Todo!screen
<1>1. \A verb : LET c == Todo!NewCall(p, verb)
                IN  Kind(c) /\ ~c.fresh /\ c.by = p /\ c.pc = "arrived" /\ c.verb = verb
  BY DEF Kind, Fields, Todo!NewCall, Todo!Blank
<1>2. CASE Todo!ClickAdd(p)
  <2> DEFINE d == Todo!NewCall(p, "add")
  <2>1. Todo!Send(d) /\ Kind(d) /\ ~d.fresh /\ d.by = p /\ d.pc = "arrived" /\ d.verb = "add"
    BY <1>1, <1>2 DEF Todo!ClickAdd
  <2> HIDE DEF d
  <2> QED
    BY <1>0, <2>1, SendPage
<1>3. \A i \in 1..Len(table[p]) : Todo!Shown(p)[i] = rows[p][table[p][i]]
  BY DEF Todo!Shown
<1>4. CASE Todo!ClickEdit(p)
  <2> DEFINE c == Todo!NewCall(p, "edit")
  <2>1. PICK i \in 1..Len(table[p]) :
               Todo!Send([c EXCEPT !.at = i, !.row = table[p][i],
                            !.id = Todo!Shown(p)[i].id, !.want = ~Todo!Shown(p)[i].status])
    BY <1>4 DEF Todo!ClickEdit
  <2>2. Kind(c) /\ ~c.fresh /\ c.by = p /\ c.pc = "arrived" /\ c.verb = "edit"
    BY <1>1
  <2> HIDE DEF c
  <2>3. PICK d : d = [c EXCEPT !.at = i, !.row = table[p][i],
                         !.id = Todo!Shown(p)[i].id, !.want = ~Todo!Shown(p)[i].status]
    OBVIOUS
  <2>4. (~Todo!Shown(p)[i].status) \in BOOLEAN
    OBVIOUS
  <2>5. PICK w \in BOOLEAN : w = ~Todo!Shown(p)[i].status
    BY <2>4
  <2>6. d = [c EXCEPT !.at = i, !.row = table[p][i], !.id = rows[p][table[p][i]].id, !.want = w]
    BY <1>3, <2>3, <2>5
  <2>7. /\ Kind(d) /\ ~d.fresh /\ d.by = p /\ d.pc = "arrived" /\ d.verb = "edit"
        /\ d.at = i /\ d.row = table[p][i] /\ d.id = rows[p][table[p][i]].id /\ d.want = w
    BY <2>2, <2>6 DEF Kind, Fields
  <2>8. Screen(table[p], rows[p]) => EditOf(d, table[p], rows[p], err)
    <3> SUFFICES ASSUME Screen(table[p], rows[p]) PROVE EditOf(d, table[p], rows[p], err)
      OBVIOUS
    <3>1. i \in DOMAIN table[p]
      BY ScreenRows
    <3>2. rows[p][table[p][i]].status \in BOOLEAN
      BY <3>1, ScreenRows
    <3>3. w = ~rows[p][table[p][i]].status
      BY <1>3, <2>5
    <3>4. rows[p][table[p][i]].status = ~w
      BY <3>2, <3>3
    <3> QED
      BY <2>7, <3>1, <3>4 DEF EditOf
  <2> QED
    BY <1>0, <2>1, <2>3, <2>7, <2>8, SendPage
<1>5. CASE Todo!ClickDelete(p)
  <2> DEFINE c == Todo!NewCall(p, "delete")
  <2>1. PICK i \in 1..Len(table[p]) : Todo!Send([c EXCEPT !.at = i, !.id = Todo!Shown(p)[i].id])
    BY <1>5 DEF Todo!ClickDelete
  <2>2. Kind(c) /\ ~c.fresh /\ c.by = p /\ c.pc = "arrived" /\ c.verb = "delete"
    BY <1>1
  <2> HIDE DEF c
  <2>3. PICK d : d = [c EXCEPT !.at = i, !.id = Todo!Shown(p)[i].id]
    OBVIOUS
  <2>4. /\ Kind(d) /\ ~d.fresh /\ d.by = p /\ d.pc = "arrived" /\ d.verb = "delete"
        /\ d.at = i /\ d.id = rows[p][table[p][i]].id
    BY <1>3, <2>2, <2>3 DEF Kind, Fields
  <2>5. Screen(table[p], rows[p]) => DeleteOf(d, table[p], rows[p])
    BY <2>4, ScreenRows DEF DeleteOf
  <2> QED
    BY <1>0, <2>1, <2>3, <2>4, <2>5, SendPage
<1> QED
  BY <1>2, <1>4, <1>5 DEF Todo!Click

LEMMA PageSteps == PageInv /\ [Todo!Next]_todoVars => PageInv'
<1> SUFFICES ASSUME PageInv, [Todo!Next]_todoVars PROVE PageInv'
  OBVIOUS
<1>1. RowInv'
  BY RowSteps DEF PageInv
<1>2. ASSUME NEW q, Keeps(q) PROVE PageInv'
  <2>1. \A p \in Pages : Page(p)'
    BY <1>2, Elsewhere DEF Keeps
  <2> QED
    BY <1>1, <1>2, <2>1 DEF PageInv, Keeps
<1>3. ASSUME NEW p \in Pages, Todo!Click(p) PROVE PageInv'
  BY <1>2, <1>3, ClickPage
<1>4. ASSUME NEW c \in calls, Todo!Serve(c) PROVE PageInv'
  BY <1>2, <1>4, PostPage, GetPage, DeletePage, PutFirstPage, PutsPage, SavePage DEF Todo!Serve
<1>5. ASSUME NEW c \in calls, Todo!Answered(c) PROVE PageInv'
  BY <1>2, <1>5, ListAnsweredPage, AddAnsweredPage, EditAnsweredPage, DeleteAnsweredPage DEF Todo!Answered
<1>6. ASSUME NEW c \in calls, Todo!Lose(c) PROVE PageInv'
  BY <1>2, <1>6, LosePage
<1>7. CASE UNCHANGED todoVars
  <2>1. UNCHANGED <<db, err, calls, rows, table, blame>>
    BY <1>7 DEF todoVars
  <2>2. OnPages
    BY <2>1 DEF OnPages, PageInv, Shape
  <2>3. Shape' /\ Fresh'
    BY <2>1, <2>2, ShapeKept DEF PageInv
  <2>4. \A p \in Pages : Page(p)'
    BY <2>1 DEF PageInv, Page, Todo!Of
  <2> QED
    BY <1>1, <2>3, <2>4 DEF PageInv
<1> QED
  BY <1>3, <1>4, <1>5, <1>6, <1>7 DEF Todo!Next

LEMMA InitPage == Todo!Init => PageInv
<1> SUFFICES ASSUME Todo!Init PROVE PageInv
  OBVIOUS
<1>1. RowInv
  BY InitRows
<1>2. Shape /\ Fresh
  <2> DEFINE first == [i \in 1..FirstRows |-> [id |-> i, status |-> FALSE]]
  <2>1. FirstRows \in Nat /\ db = [i \in 1..FirstRows |-> FALSE]
    BY RowsAssumption DEF Todo!Init
  <2>2. Lists(first, db)
    <3>1. \A i \in 1..FirstRows : first[i] = [id |-> i, status |-> FALSE] /\ first[i] \in Row
      BY <2>1 DEF Row
    <3>2. first \in Seq(Row) /\ DOMAIN first = 1..FirstRows
      BY <2>1, <3>1, IsASeq
    <3> HIDE DEF first
    <3>3. DOMAIN db = {first[i].id : i \in DOMAIN first}
      BY <2>1, <3>1, <3>2
    <3> QED
      <4>1. Ascending(first)
        BY <2>1, <3>1, <3>2 DEF Ascending
      <4>2. ASSUME NEW i \in DOMAIN first PROVE first[i].status = db[first[i].id]
        <5>1. i \in 1..FirstRows /\ first[i] = [id |-> i, status |-> FALSE]
          BY <3>1, <3>2
        <5> QED
          BY <2>1, <5>1
      <4> QED
        BY <3>2, <3>3, <4>1, <4>2 DEF Lists
  <2>3. first = Todo!Listing
    BY <1>1, <2>2, RowIds, OneListing
  <2>4. calls = {[no |-> 1, by |-> p, verb |-> "list", at |-> 0, row |-> 0, id |-> 0, want |-> FALSE,
                  pc |-> "ok", todo |-> Todo!Blank, list |-> first, fresh |-> TRUE] : p \in Pages}
    BY DEF Todo!Init
  <2> HIDE DEF first
  <2>5. \A c \in calls : Kind(c) /\ IsFresh(c)
    <3> TAKE c \in calls
    <3>1. PICK p \in Pages :
               c = [no |-> 1, by |-> p, verb |-> "list", at |-> 0, row |-> 0, id |-> 0, want |-> FALSE,
                    pc |-> "ok", todo |-> Todo!Blank, list |-> first, fresh |-> TRUE]
      BY <2>4
    <3>2. c = [x \in Fields |-> c[x]]
      BY <3>1 DEF Fields
    <3>3. DOMAIN c.todo = {"id", "status"} /\ c.todo.status \in BOOLEAN
      BY <3>1 DEF Todo!Blank
    <3> QED
      BY <2>3, <3>1, <3>2, <3>3 DEF Kind, IsFresh
  <2> QED
    BY <2>1, <2>5 DEF Shape, Fresh, Ids, Todo!Init
<1>3. \A p \in Pages : blame[p]
  BY DEF Todo!Init
<1> QED
  BY <1>1, <1>2, <1>3 DEF PageInv, Page

LEMMA PageShown == PageInv => PageIsCurrent
<1> SUFFICES ASSUME PageInv, NEW p \in Pages, Todo!Of(p) = {}, ~blame[p]
             PROVE  Todo!Shown(p) = Todo!Listing
  BY DEF PageIsCurrent, Todo!PageIsCurrent
<1>1. Follows({}, table[p], rows[p], db, err)
  BY DEF PageInv, Page, Renews
<1>2. IdsOK /\ DOMAIN db \subseteq Nat
  BY RowIds DEF PageInv, IdsOK, Ids
<1>3. Lists(Todo!Shown(p), db)
  BY <1>1, <1>2, Rests DEF Todo!Shown
<1> QED
  BY <1>2, <1>3, OneListing

\* When all calls of a page were answered it shows the table, row for row, in
\* any interleaving of any pages' calls, unless it is to blame: for any clicks
\* and lost calls (the page's handlers edit and splice tableData without asking
\* again, main.go's handlers serve the calls concurrently).
THEOREM PageShowsTable == AllSpec => []PageIsCurrent
<1>1. AllInit => PageInv
  BY InitPage DEF AllInit
<1>2. [AllNext]_allVars => [Todo!Next]_todoVars
  BY DEF AllNext, allVars
<1> QED
  BY <1>1, <1>2, PageSteps, PageShown, PTL DEF AllSpec
=============================================================================
