------------------------------- MODULE Buffer -------------------------------
(***************************************************************************)
(* ql_muduo's Buffer: a vector of bytes with a reader and a writer index   *)
(* and a prependable area of kCheapPrepend bytes.  A buffer is a record of *)
(* the vector and the two indices; the byte at offset k is mem[k + 1].     *)
(***************************************************************************)
EXTENDS Naturals, Sequences

CONSTANTS Bytes,          \* the values of a byte
          Zero,           \* what resize fills with
          kCheapPrepend,
          kInitialSize,
          ExtraSize,      \* sizeof extrabuf in readFd
          Chunks,         \* what the callers append or the peer sends at once
          MaxReceived     \* bound: bytes that ever enter the buffer

ASSUME SizesAssumption == /\ kCheapPrepend \in Nat
                          /\ kInitialSize \in Nat
                          /\ ExtraSize \in Nat
                          /\ MaxReceived \in Nat
ASSUME BytesAssumption == Zero \in Bytes /\ Chunks \subseteq Seq(Bytes)

VARIABLES buf,       \* the buffer
          received,  \* history: the bytes that entered it
          taken      \* history: the bytes its user retrieved

vars == <<buf, received, taken>>

Readable(b) == b.writer - b.reader
Writable(b) == Len(b.mem) - b.writer
Prependable(b) == b.reader

\* [peek(), peek() + readableBytes())
Content(b) == [i \in 1..Readable(b) |-> b.mem[b.reader + i]]

Empty == [mem |-> [i \in 1..(kCheapPrepend + kInitialSize) |-> Zero],
          reader |-> kCheapPrepend, writer |-> kCheapPrepend]

RetrieveAll(b) == [b EXCEPT !.reader = kCheapPrepend, !.writer = kCheapPrepend]

Retrieve(b, len) ==
  IF len < Readable(b) THEN [b EXCEPT !.reader = @ + len] ELSE RetrieveAll(b)

\* buffer_.resize(size)
Resize(b, size) ==
  [b EXCEPT !.mem = [i \in 1..size |-> IF i <= Len(b.mem) THEN b.mem[i] ELSE Zero]]

\* The readable bytes move to the front.
MoveToFront(b) ==
  [mem |-> [i \in 1..Len(b.mem) |->
              IF i - kCheapPrepend \in 1..Readable(b)
              THEN b.mem[b.reader + (i - kCheapPrepend)] ELSE b.mem[i]],
   reader |-> kCheapPrepend,
   writer |-> kCheapPrepend + Readable(b)]

MakeSpace(b, len) ==
  IF Writable(b) + Prependable(b) < len + kCheapPrepend
  THEN Resize(b, b.writer + len) ELSE MoveToFront(b)

EnsureWriteableBytes(b, len) == IF Writable(b) < len THEN MakeSpace(b, len) ELSE b

\* std::copy of d to beginWrite(); a copy past the end of the vector is
\* undefined and here loses what does not fit.
CopyIn(b, d) ==
  [mem |-> [i \in 1..Len(b.mem) |->
              IF i - b.writer \in 1..Len(d) THEN d[i - b.writer] ELSE b.mem[i]],
   reader |-> b.reader,
   writer |-> b.writer + Len(d)]

AppendTo(b, d) == CopyIn(EnsureWriteableBytes(b, Len(d)), d)

\* readv into the writable area, and what does not fit there into extrabuf,
\* which is offered when the writable area is smaller than it.
ReadLimit(b) == IF Writable(b) < ExtraSize THEN Writable(b) + ExtraSize ELSE Writable(b)

\* Mutant of ReadIn: the spill is appended before the writer index moves to
\* the end of the vector.
ReadInSpillFirst(b, d) ==
  IF Len(d) <= Writable(b) THEN CopyIn(b, d)
  ELSE AppendTo(b, SubSeq(d, Writable(b) + 1, Len(d)))

ReadIn(b, d) ==
  IF Len(d) <= Writable(b) THEN CopyIn(b, d)
  ELSE LET n == Writable(b)
       IN  AppendTo(CopyIn(b, SubSeq(d, 1, n)), SubSeq(d, n + 1, Len(d)))

-----------------------------------------------------------------------------
Init ==
  /\ buf = Empty
  /\ received = <<>>
  /\ taken = <<>>

\* append(data, len)
DoAppend ==
  \E d \in Chunks :
    /\ Len(received) + Len(d) <= MaxReceived
    /\ buf' = AppendTo(buf, d)
    /\ received' = received \o d
    /\ UNCHANGED taken

\* readFd: as much of what the peer sent as one readv takes.
ReadFd ==
  \E d \in Chunks :
    /\ Len(received) + Len(d) <= MaxReceived
    /\ Len(d) <= ReadLimit(buf)
    /\ buf' = ReadIn(buf, d)
    /\ received' = received \o d
    /\ UNCHANGED taken

\* retrieveAsString(n) of bytes that are there, or writeFd followed by
\* retrieve(n) for the n bytes the kernel took.
DoRetrieve ==
  \E n \in 0..Readable(buf) :
    /\ taken' = taken \o SubSeq(Content(buf), 1, n)
    /\ buf' = Retrieve(buf, n)
    /\ UNCHANGED received

Next == DoAppend \/ ReadFd \/ DoRetrieve

Spec == Init /\ [][Next]_vars

-----------------------------------------------------------------------------
(* Properties.                                                             *)

\* Types of the variables.
TypeOK ==
  /\ buf \in [mem : Seq(Bytes), reader : Nat, writer : Nat]
  /\ received \in Seq(Bytes)
  /\ taken \in Seq(Bytes)

\* The indices stay in order: the reader never enters the prependable area
\* from below, passes the writer or leaves the vector.
IndicesInOrder ==
  /\ kCheapPrepend <= buf.reader
  /\ buf.reader <= buf.writer
  /\ buf.writer <= Len(buf.mem)

\* The buffer is a FIFO of bytes: what was retrieved and what is readable is
\* exactly what was put in, through every compaction, growth and spill into
\* extrabuf.
FifoOfBytes == taken \o Content(buf) = received
=============================================================================
