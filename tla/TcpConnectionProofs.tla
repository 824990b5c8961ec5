------------------------ MODULE TcpConnectionProofs ------------------------
(***************************************************************************)
(* Proofs about module TcpConnection for any messages, message length and  *)
(* high-water mark and any number of chunks from the peer: the stream      *)
(* stays in order and the FIN follows it, buffered data is watched, the    *)
(* connection callbacks are paired, and the channel of a connection leaves *)
(* the poller before the connection is freed and does not come back.       *)
(* Neither a shutdown() nor the removal of a connection is forgotten.      *)
(***************************************************************************)
EXTENDS TcpConnection, SequenceTheorems, TLAPS

Entries == [op : OwningOps \cup {"shutdown"}, msg : {None}] \cup [op : {"send"}, msg : Msgs]
Byte == Msgs \cup {Garbage}

ObjectTypes ==
  /\ ChannelTypeOK
  /\ state \in {"kConnecting", "kConnected", "kDisconnecting", "kDisconnected"}
  /\ created \in BOOLEAN /\ held \in BOOLEAN /\ serverUp \in BOOLEAN /\ ioUp \in BOOLEAN
  /\ inUser \in BOOLEAN /\ userRef \in BOOLEAN
  /\ wrClosed \in BOOLEAN /\ shutBy \in BOOLEAN /\ revived \in BOOLEAN

LoopTypes ==
  /\ ioQ \in Seq(Entries) /\ baseQ \in Seq({"remove"})
  /\ revents \in SUBSET {"close", "error", "read", "write"}
  /\ upc.at \in {"idle", "send", "store", "queue"}
  /\ upc.at = "send" => upc.msg \in Msgs

StreamTypes ==
  /\ unsent \in SUBSET Msgs
  /\ outBuf \in Seq(Byte) /\ wire \in Seq(Byte) /\ accepted \in Seq(Byte)

PeerTypes ==
  /\ peer \in {"open", "closed", "reset"} /\ sockErr \in BOOLEAN
  /\ rcv \in Nat /\ sent \in Nat /\ rcv <= sent /\ sent <= MaxIn
  /\ ups \in Nat /\ downs \in Nat

Types == ObjectTypes /\ LoopTypes /\ StreamTypes /\ PeerTypes

\* The connection was not closed, and no late shutdown() hides that it was.
Up == state # "kDisconnected" /\ ~revived

\* EPOLLOUT is asked for exactly while there is data in the output buffer, and
\* the write side is open while there is.
Stream ==
  /\ wire \o outBuf = accepted
  /\ Up => (outBuf # <<>> <=> "write" \in events)
  /\ Up /\ wrClosed => outBuf = <<>>

\* The epoll set has what the channel asks for.
Linked ==
  /\ ioUp /\ index = "kAdded" => interest = events
  /\ index = "kDeleted" => events = {}
  /\ registered => index = "kAdded"

NoEst(q) == \A i \in DOMAIN q : q[i].op # "established"
OneEst(q) == \A i, j \in DOMAIN q :
               q[i].op = "established" /\ q[j].op = "established" => i = j
Quiet(q) == \A i \in DOMAIN q : q[i].op \notin {"send", "shutdown"}

\* Until connectEstablished has run, which happens once, nobody can use the
\* connection and epoll does not know it.
Untouched ==
  /\ state = "kConnecting" /\ downs = 0
  /\ outBuf = <<>> /\ events = {} /\ ~registered
  /\ ~inUser /\ revents = {} /\ upc.at = "idle" /\ ~userRef

Young ==
  /\ OneEst(ioQ)
  /\ ~created => NoEst(ioQ) /\ ups = 0
  /\ ups = 0 => Untouched /\ Quiet(ioQ)
  /\ ups = 0 \/ (ups = 1 /\ NoEst(ioQ))

\* A connection that the application has seen go down gets no more events that
\* could take it down again.
Paired ==
  /\ "close" \in revents => "read" \notin revents
  /\ "close" \in revents \/ "read" \in revents => ~inUser /\ index = "kAdded"
  /\ downs = 0 \/ revived
     \/ /\ downs = 1 /\ ups = 1 /\ state = "kDisconnected"
        /\ events = {} /\ ~registered
        /\ "close" \notin revents /\ "read" \notin revents

ConnInv == Types /\ Stream /\ Linked /\ Young /\ Paired

-----------------------------------------------------------------------------
(* Queues.  r follows from q by running functors and adding some that do   *)
(* not establish the connection.                                           *)

Follows(q, r) ==
  /\ r \in Seq(Entries)
  /\ NoEst(q) => NoEst(r)
  /\ OneEst(q) => OneEst(r)

LEMMA OpIsEntry ==
  ASSUME NEW o \in OwningOps \cup {"shutdown"}
  PROVE  Op(o) \in Entries /\ Op(o).op = o
BY DEF Op, Entries

LEMMA SendIsEntry ==
  ASSUME NEW m \in Msgs
  PROVE  SendOp(m) \in Entries /\ SendOp(m).op = "send"
BY DEF SendOp, Entries

LEMMA Appended ==
  ASSUME NEW q \in Seq(Entries), NEW e \in Entries
  PROVE  /\ Append(q, e) \in Seq(Entries)
         /\ Append(q, e) # <<>>
         /\ \A i \in DOMAIN Append(q, e) :
              \/ i \in DOMAIN q /\ Append(q, e)[i] = q[i]
              \/ i = Len(q) + 1 /\ Append(q, e)[i] = e
OBVIOUS

LEMMA AppendFollows ==
  ASSUME NEW q \in Seq(Entries), NEW e \in Entries
  PROVE  /\ e.op # "established" => Follows(q, Append(q, e))
         /\ e.op \notin {"send", "shutdown"} => (Quiet(q) => Quiet(Append(q, e)))
         /\ NoEst(q) => OneEst(Append(q, e))
<1> DEFINE r == Append(q, e)
<1>1. r \in Seq(Entries)
  BY Appended
<1>2. \A i \in DOMAIN r : \/ i \in DOMAIN q /\ r[i] = q[i]
                          \/ i = Len(q) + 1 /\ r[i] = e
  BY Appended
<1> HIDE DEF r
<1>3. e.op # "established" => Follows(q, r)
  BY <1>1, <1>2 DEF Follows, NoEst, OneEst
<1>4. e.op \notin {"send", "shutdown"} => (Quiet(q) => Quiet(r))
  BY <1>2 DEF Quiet
<1>5. NoEst(q) => OneEst(r)
  BY <1>2 DEF NoEst, OneEst
<1> QED
  BY <1>3, <1>4, <1>5 DEF r

\* What the functors that tell the application or destroy add to a queue.
LEMMA QueueKeeps ==
  ASSUME NEW q \in Seq(Entries), NEW o \in {"destroyed", "writeComplete", "highWater"}
  PROVE  Follows(q, Append(q, Op(o))) /\ (Quiet(q) => Quiet(Append(q, Op(o))))
<1>1. Op(o) \in Entries /\ Op(o).op = o
  BY OpIsEntry DEF OwningOps
<1> HIDE DEF Op
<1> QED
  BY <1>1, AppendFollows

LEMMA TailFollows ==
  ASSUME NEW q \in Seq(Entries), q # <<>>
  PROVE  /\ Follows(q, Tail(q)) /\ (Quiet(q) => Quiet(Tail(q)))
         /\ Head(q) \in Entries
         /\ Head(q).op = "established" => ~NoEst(q) /\ (OneEst(q) => NoEst(Tail(q)))
         /\ Head(q).op \in {"send", "shutdown"} => ~Quiet(q)
<1>1. Tail(q) \in Seq(Entries) /\ Head(q) \in Entries /\ Head(q) = q[1] /\ 1 \in DOMAIN q
  OBVIOUS
<1>2. \A i \in DOMAIN Tail(q) : i + 1 \in DOMAIN q /\ Tail(q)[i] = q[i + 1] /\ i + 1 # 1
                                /\ i \in Nat
  OBVIOUS
<1> QED
  BY <1>1, <1>2 DEF Follows, NoEst, OneEst, Quiet

LEMMA FollowsSelf == ASSUME NEW q \in Seq(Entries) PROVE Follows(q, q)
BY DEF Follows

LEMMA FollowsTrans ==
  ASSUME NEW q, NEW r, NEW s, Follows(q, r), Follows(r, s)
  PROVE  Follows(q, s)
BY DEF Follows

\* A queue that follows the old one keeps the connection young.
LEMMA YoungKeeps ==
  ASSUME Young, Follows(ioQ, ioQ'), created' = created, ups' = ups,
         ups = 0 /\ Untouched /\ Quiet(ioQ) => Untouched' /\ Quiet(ioQ')
  PROVE  Young'
BY DEF Young, Follows

\* Who uses the connection finds it established.
LEMMA InUse ==
  ASSUME Young, inUser \/ revents # {} \/ upc.at # "idle" \/ userRef \/ registered
                \/ ~Quiet(ioQ) \/ state # "kConnecting" \/ events # {}
  PROVE  ups = 1 /\ created
BY DEF Young, Untouched

\* Steps that touch neither the channel nor the stream.
LEMMA FrameKeeps ==
  ASSUME ConnInv, Types',
         UNCHANGED <<channelVars, outBuf, wire, accepted, state, revived, ups, downs, created>>,
         ioUp' = ioUp, revents' \subseteq revents,
         inUser' => inUser \/ ("close" \notin revents' /\ "read" \notin revents'),
         wrClosed' => wrClosed \/ "write" \notin events,
         Follows(ioQ, ioQ'),
         ups = 0 /\ Untouched /\ Quiet(ioQ) => Untouched' /\ Quiet(ioQ')
  PROVE  ConnInv'
<1>1. Stream'
  BY DEF ConnInv, Stream, Up, channelVars
<1>2. Linked'
  BY DEF ConnInv, Linked, channelVars
<1>3. Young'
  BY YoungKeeps DEF ConnInv
<1>4. Paired'
  BY DEF ConnInv, Paired, channelVars
<1> QED
  BY <1>1, <1>2, <1>3, <1>4 DEF ConnInv

-----------------------------------------------------------------------------
(* The channel.                                                            *)

LEMMA UpdateLinks ==
  ASSUME ChannelTypeOK, NEW ev \in SUBSET {"read", "write"}, UpdateChannel(ev)
  PROVE  /\ ChannelTypeOK' /\ Linked' /\ events' = ev
         /\ index = "kAdded" /\ ev = {} => ~registered'
BY DEF ChannelTypeOK, UpdateChannel, Linked, CtlSet, CtlDel

LEMMA RemoveLinks ==
  ASSUME ChannelTypeOK, Linked, NEW ev \in SUBSET {"read", "write"}, RemoveChannel(ev)
  PROVE  ChannelTypeOK' /\ Linked' /\ events' = ev /\ ~registered'
BY DEF ChannelTypeOK, RemoveChannel, Linked, CtlDel

-----------------------------------------------------------------------------
(* sendInLoop.                                                             *)

LEMMA CutInTwo ==
  ASSUME NEW S, NEW b \in Seq(S), NEW k \in 0..Len(b)
  PROVE  /\ SubSeq(b, 1, k) \in Seq(S) /\ SubSeq(b, k + 1, Len(b)) \in Seq(S)
         /\ SubSeq(b, 1, k) \o SubSeq(b, k + 1, Len(b)) = b
         /\ k < Len(b) => SubSeq(b, k + 1, Len(b)) # <<>>
         /\ k = Len(b) => SubSeq(b, k + 1, Len(b)) = <<>> /\ SubSeq(b, 1, k) = b
<1>1. Len(b) \in Nat /\ k \in Nat /\ k <= Len(b) /\ \A i \in 1..Len(b) : b[i] \in S
  OBVIOUS
<1>2. SubSeq(b, 1, k) \in Seq(S)
  <2>1. \A i \in 1..k : b[i] \in S
    BY <1>1
  <2> QED
    BY <1>1, <2>1, SubSeqProperties
<1>3. SubSeq(b, k + 1, Len(b)) \in Seq(S) /\
      Len(SubSeq(b, k + 1, Len(b))) = IF k + 1 <= Len(b) THEN Len(b) - (k + 1) + 1 ELSE 0
  <2>1. \A i \in (k + 1)..Len(b) : b[i] \in S
    BY <1>1
  <2> QED
    BY <1>1, <2>1, SubSeqProperties
<1>4. SubSeq(b, 1, k) \o SubSeq(b, k + 1, Len(b)) = b
  <2>1. SubSeq(b, 1, k) \o SubSeq(b, k + 1, Len(b)) = SubSeq(b, 1, Len(b))
    <3>1. 1 \in 1..(Len(b) + 1) /\ k \in (1 - 1)..Len(b) /\ Len(b) \in k..Len(b)
      BY <1>1
    <3> QED
      BY <3>1, ConcatAdjacentSubSeq
  <2> QED
    BY <2>1, SubSeqFull
<1>5. k < Len(b) => SubSeq(b, k + 1, Len(b)) # <<>>
  BY <1>1, <1>3
<1>6. k = Len(b) => SubSeq(b, k + 1, Len(b)) = <<>> /\ SubSeq(b, 1, k) = b
  <2>1. ASSUME k = Len(b) PROVE SubSeq(b, k + 1, Len(b)) = <<>>
    <3>1. k + 1 \in Int /\ Len(b) \in Int /\ Len(b) < k + 1
      BY <1>1, <2>1
    <3> QED
      BY <3>1, SubSeqEmpty
  <2>2. ASSUME k = Len(b) PROVE SubSeq(b, 1, k) = b
    BY <2>2, SubSeqFull
  <2> QED
    BY <2>1, <2>2
<1> QED
  BY <1>2, <1>3, <1>4, <1>5, <1>6

LEMMA Regroup ==
  ASSUME NEW S, NEW x \in Seq(S), NEW y \in Seq(S), NEW z \in Seq(S)
  PROVE  (x \o y) \o z = x \o (y \o z)
BY ConcatAssociative

LEMMA NotEmpty ==
  ASSUME NEW S, NEW x \in Seq(S), NEW y \in Seq(S)
  PROVE  /\ (x \o y = <<>>) <=> (x = <<>> /\ y = <<>>)
         /\ x \o <<>> = x /\ <<>> \o x = x
         /\ x \o y \in Seq(S)
BY ConcatEmptySeq, ConcatEqualIffEmpty, ConcatProperties

\* The bytes left over are buffered and EPOLLOUT asked for.
LEMMA BufferKeeps ==
  ASSUME ConnInv, ioUp' = ioUp,
         NEW b \in Seq(Byte), NEW q \in Seq(Entries), Buffer(b, q)
  PROVE  /\ outBuf' = outBuf \o b /\ outBuf' \in Seq(Byte)
         /\ "write" \in events' /\ ChannelTypeOK' /\ Linked' /\ Follows(q, ioQ')
<1>1. ioQ' = q \/ ioQ' = Append(q, Op("highWater"))
  BY DEF Buffer
<1>2. Follows(q, ioQ')
  BY <1>1, QueueKeeps, FollowsSelf
<1>3. outBuf' = outBuf \o b /\ outBuf' \in Seq(Byte)
  BY NotEmpty DEF Buffer, ConnInv, Types, StreamTypes
<1>4. CASE "write" \in events /\ UNCHANGED channelVars
  BY <1>2, <1>3, <1>4 DEF channelVars, ConnInv, Linked, Types, ObjectTypes,
                              ChannelTypeOK
<1>5. CASE EnableWriting
  BY <1>2, <1>3, <1>5, UpdateLinks DEF EnableWriting, ConnInv, Types,
                                           ObjectTypes, ChannelTypeOK
<1> QED
  BY <1>4, <1>5 DEF Buffer

\* What sendInLoop does to the connection; a connection that is down it leaves
\* alone.
LEMMA SendKeeps ==
  ASSUME ConnInv,
         UNCHANGED <<state, revived, wrClosed, ioUp>>,
         NEW b \in Seq(Byte), NEW q \in Seq(Entries), SendInLoop(b, q)
  PROVE  /\ outBuf' \in Seq(Byte) /\ wire' \in Seq(Byte) /\ accepted' \in Seq(Byte)
         /\ ChannelTypeOK' /\ Stream' /\ Linked' /\ Follows(q, ioQ')
         /\ sockErr' \in BOOLEAN
         /\ state = "kDisconnected" => UNCHANGED channelVars
<1> DEFINE Goal == /\ outBuf' \in Seq(Byte) /\ wire' \in Seq(Byte) /\ accepted' \in Seq(Byte)
                   /\ ChannelTypeOK' /\ Stream' /\ Linked' /\ Follows(q, ioQ')
<1>0. /\ Types /\ Stream /\ Linked /\ wire \o outBuf = accepted
      /\ outBuf \in Seq(Byte) /\ wire \in Seq(Byte) /\ accepted \in Seq(Byte)
  BY DEF ConnInv, Types, StreamTypes, Stream
<1>1. ASSUME ioQ' = q, UNCHANGED <<channelVars, outBuf, wire, accepted>>
      PROVE  Goal
  <2>1. Follows(q, ioQ')
    BY <1>1, FollowsSelf
  <2>2. Stream' /\ Linked' /\ ChannelTypeOK'
    BY <1>0, <1>1 DEF Stream, Linked, Up, channelVars, Types,
                                                  ObjectTypes, ChannelTypeOK
  <2> QED
    BY <1>0, <1>1, <2>1, <2>2
<1>2. ASSUME outBuf = <<>>, ~wrClosed, "write" \notin events, accepted' = accepted \o b,
             NEW k \in 0..Len(b), wire' = wire \o SubSeq(b, 1, k),
             IF k = Len(b)
             THEN ioQ' = Append(q, Op("writeComplete")) /\ UNCHANGED <<channelVars, outBuf>>
             ELSE Buffer(SubSeq(b, k + 1, Len(b)), q)
      PROVE  Goal
  <2>1. /\ SubSeq(b, 1, k) \in Seq(Byte) /\ SubSeq(b, k + 1, Len(b)) \in Seq(Byte)
        /\ SubSeq(b, 1, k) \o SubSeq(b, k + 1, Len(b)) = b
        /\ k < Len(b) => SubSeq(b, k + 1, Len(b)) # <<>>
        /\ k = Len(b) => SubSeq(b, k + 1, Len(b)) = <<>> /\ SubSeq(b, 1, k) = b
    BY CutInTwo
  <2>2. accepted = wire
    BY <1>0, <1>2, NotEmpty
  <2>3. wire' \in Seq(Byte) /\ accepted' \in Seq(Byte)
    BY <1>0, <1>2, <2>1, NotEmpty
  <2>4. CASE k = Len(b)
    <3>1. ioQ' = Append(q, Op("writeComplete")) /\ UNCHANGED <<channelVars, outBuf>>
      BY <1>2, <2>4
    <3>2. Follows(q, ioQ')
      BY <3>1, QueueKeeps
    <3>3. wire' = accepted'
      BY <1>2, <2>1, <2>2, <2>4
    <3>4. outBuf' = <<>>
      BY <1>2, <3>1
    <3>5. wire' \o outBuf' = accepted'
      BY <2>3, <3>3, <3>4, NotEmpty
    <3>6. Stream' /\ Linked' /\ ChannelTypeOK'
      BY <1>0, <1>2, <3>1, <3>4, <3>5 DEF Stream, Linked, Up, channelVars, Types,
                                                  ObjectTypes, ChannelTypeOK
    <3> QED
      BY <2>3, <3>2, <3>4, <3>6, <1>0, <3>1
  <2>5. CASE k # Len(b)
    <3> DEFINE y == SubSeq(b, k + 1, Len(b))
    <3>1. Buffer(y, q) /\ y \in Seq(Byte)
      BY <1>2, <2>1, <2>5
    <3>2. y # <<>>
      <4>1. k < Len(b)
        BY <2>5
      <4> QED
        BY <2>1, <4>1
    <3>3. wire' \o y = accepted'
      <4> DEFINE x == SubSeq(b, 1, k)
      <4>1. x \in Seq(Byte) /\ y \in Seq(Byte) /\ x \o y = b /\ wire' = wire \o x
        BY <1>2, <2>1
      <4>2. wire \in Seq(Byte) /\ accepted' = wire \o b
        BY <1>0, <1>2, <2>2
      <4> HIDE DEF x, y
      <4>3. (wire \o x) \o y = wire \o (x \o y)
        <5>1. wire \in Seq(Byte) /\ x \in Seq(Byte) /\ y \in Seq(Byte)
          BY <4>1, <4>2
        <5> QED
          BY <5>1, Regroup
      <4> QED
        BY <4>1, <4>2, <4>3
    <3> HIDE DEF y
    <3>4. /\ outBuf' = outBuf \o y /\ outBuf' \in Seq(Byte)
          /\ "write" \in events' /\ ChannelTypeOK' /\ Linked' /\ Follows(q, ioQ')
      BY <3>1, BufferKeeps
    <3>5. outBuf' = y
      BY <1>0, <1>2, <3>1, <3>4, NotEmpty
    <3>6. Stream'
      BY <1>2, <3>2, <3>3, <3>4, <3>5 DEF Stream, Up
    <3> QED
      BY <2>3, <3>4, <3>6
  <2> QED
    BY <2>4, <2>5
<1>3. ASSUME outBuf = <<>>, "write" \notin events, WriteDirect(b, q) PROVE Goal
  <2>1. \/ ioQ' = q /\ UNCHANGED <<channelVars, outBuf, wire, accepted>>
        \/ /\ ~wrClosed /\ accepted' = accepted \o b
           /\ \E k \in 0..Len(b) :
                /\ wire' = wire \o SubSeq(b, 1, k)
                /\ IF k = Len(b)
                   THEN ioQ' = Append(q, Op("writeComplete")) /\ UNCHANGED <<channelVars, outBuf>>
                   ELSE Buffer(SubSeq(b, k + 1, Len(b)), q)
    BY <1>3 DEF WriteDirect
  <2> HIDE DEF Goal
  <2> QED
    BY <1>1, <1>2, <1>3, <2>1
<1>4. ASSUME ~("write" \notin events /\ outBuf = <<>>), ~StopsSending,
             Buffer(b, q), accepted' = accepted \o b, wire' = wire
      PROVE  Goal
  <2>1. /\ outBuf' = outBuf \o b /\ outBuf' \in Seq(Byte)
        /\ "write" \in events' /\ ChannelTypeOK' /\ Linked' /\ Follows(q, ioQ')
    BY <1>4, BufferKeeps
  <2>2. accepted' \in Seq(Byte) /\ wire' \in Seq(Byte)
    BY <1>0, <1>4, NotEmpty
  <2>3. wire' \o outBuf' = accepted'
    <3>1. wire \in Seq(Byte) /\ outBuf \in Seq(Byte)
      BY <1>0
    <3>2. (wire \o outBuf) \o b = wire \o (outBuf \o b)
      BY <3>1, Regroup
    <3> QED
      BY <1>0, <1>4, <2>1, <3>2
  <2>4. Up => outBuf # <<>>
    BY <1>0, <1>4 DEF Stream
  <2>5. Up => outBuf' # <<>> /\ ~wrClosed
    BY <1>0, <2>1, <2>4, NotEmpty DEF Stream
  <2>6. Stream'
    BY <2>1, <2>3, <2>5 DEF Stream, Up
  <2> QED
    BY <2>1, <2>2, <2>6
<1>5. Goal
  <2> HIDE DEF Goal
  <2> QED
    BY <1>1, <1>3, <1>4 DEF SendInLoop
<1>6. sockErr' \in BOOLEAN
  BY <1>0 DEF SendInLoop, WriteDirect, Types, PeerTypes
<1>7. state = "kDisconnected" => UNCHANGED channelVars
  BY DEF SendInLoop, StopsSending
<1> QED
  BY <1>5, <1>6, <1>7

LEMMA BytesType ==
  ASSUME NEW m \in Byte
  PROVE  Bytes(m) \in Seq(Byte)
BY MsgAssumption, IsASeq DEF Bytes

-----------------------------------------------------------------------------
(* Steps of the base loop.                                                 *)

LEMMA NewConnectionKeeps ==
  ASSUME ConnInv, NewConnection PROVE ConnInv'
<1>1. Op("established") \in Entries /\ Op("established").op = "established"
  BY OpIsEntry DEF OwningOps
<1>2. ioQ \in Seq(Entries) /\ ioQ' = Append(ioQ, Op("established"))
  BY DEF NewConnection, ConnInv, Types, LoopTypes
<1> HIDE DEF Op
<1>3. ioQ' \in Seq(Entries) /\ (NoEst(ioQ) => OneEst(ioQ')) /\ (Quiet(ioQ) => Quiet(ioQ'))
  BY <1>1, <1>2, Appended, AppendFollows
<1>4. Types'
  <2>1. ObjectTypes'
    BY <1>3 DEF NewConnection, ConnInv, Types, ChannelTypeOK, channelVars, histVars,
       ObjectTypes
  <2>2. LoopTypes'
    BY <1>3 DEF NewConnection, ConnInv, Types, LoopTypes
  <2>3. StreamTypes'
    BY <1>3 DEF NewConnection, ConnInv, Types, dataVars, StreamTypes
  <2>4. PeerTypes'
    BY <1>3 DEF NewConnection, ConnInv, Types, netVars, histVars, PeerTypes
  <2> QED
    BY <2>1, <2>2, <2>3, <2>4 DEF Types
<1>5. Stream' /\ Linked' /\ Paired'
  BY DEF NewConnection, ConnInv, Stream, Up, Linked, Paired, channelVars, dataVars, histVars
<1>6. Young'
  BY <1>3 DEF NewConnection, ConnInv, Young, Untouched, channelVars, dataVars, histVars
<1> QED
  BY <1>4, <1>5, <1>6 DEF ConnInv

LEMMA RemoveConnectionInLoopKeeps ==
  ASSUME ConnInv, RemoveConnectionInLoop PROVE ConnInv'
<1>1. ioQ \in Seq(Entries) /\ ioQ' = Append(ioQ, Op("destroyed"))
  BY DEF RemoveConnectionInLoop, ConnInv, Types, LoopTypes
<1>2. Follows(ioQ, ioQ') /\ (Quiet(ioQ) => Quiet(ioQ'))
  BY <1>1, QueueKeeps
<1>3. Types'
  <2>1. ObjectTypes'
    BY <1>2 DEF RemoveConnectionInLoop, ConnInv, Types, ChannelTypeOK, channelVars,
       histVars, ObjectTypes
  <2>2. LoopTypes'
    BY <1>2 DEF RemoveConnectionInLoop, ConnInv, Types, Follows, LoopTypes
  <2>3. StreamTypes'
    BY <1>2 DEF RemoveConnectionInLoop, ConnInv, Types, dataVars, StreamTypes
  <2>4. PeerTypes'
    BY <1>2 DEF RemoveConnectionInLoop, ConnInv, Types, netVars, histVars, PeerTypes
  <2> QED
    BY <2>1, <2>2, <2>3, <2>4 DEF Types
<1> QED
  BY <1>2, <1>3, FrameKeeps DEF RemoveConnectionInLoop, Untouched, channelVars, dataVars, histVars

LEMMA DestroyServerKeeps ==
  ASSUME ConnInv, DestroyServer PROVE ConnInv'
<1>1. ioQ \in Seq(Entries) /\ (ioQ' = ioQ \/ ioQ' = Append(ioQ, Op("destroyed")))
  BY DEF DestroyServer, ConnInv, Types, LoopTypes
<1>2. Follows(ioQ, ioQ') /\ (Quiet(ioQ) => Quiet(ioQ'))
  BY <1>1, QueueKeeps, FollowsSelf
<1>3. Types'
  <2>1. ObjectTypes'
    BY <1>2 DEF DestroyServer, ConnInv, Types, ChannelTypeOK, channelVars, histVars,
       ObjectTypes
  <2>2. LoopTypes'
    BY <1>2 DEF DestroyServer, ConnInv, Types, Follows, LoopTypes
  <2>3. StreamTypes'
    BY <1>2 DEF DestroyServer, ConnInv, Types, dataVars, StreamTypes
  <2>4. PeerTypes'
    BY <1>2 DEF DestroyServer, ConnInv, Types, netVars, histVars, PeerTypes
  <2> QED
    BY <2>1, <2>2, <2>3, <2>4 DEF Types
<1> QED
  BY <1>2, <1>3, FrameKeeps DEF DestroyServer, Untouched, channelVars, dataVars, histVars

LEMMA StopIoLoopKeeps ==
  ASSUME ConnInv, StopIoLoop PROVE ConnInv'
<1>1. Types'
  <2>1. ObjectTypes'
    BY DEF StopIoLoop, CtlDel, ConnInv, Types, ChannelTypeOK, histVars, ObjectTypes
  <2>2. LoopTypes'
    BY DEF StopIoLoop, ConnInv, Types, LoopTypes
  <2>3. StreamTypes'
    BY DEF StopIoLoop, ConnInv, Types, dataVars, StreamTypes
  <2>4. PeerTypes'
    BY DEF StopIoLoop, ConnInv, Types, netVars, histVars, PeerTypes
  <2> QED
    BY <2>1, <2>2, <2>3, <2>4 DEF Types
<1>2. Stream' /\ Linked' /\ Paired'
  BY DEF StopIoLoop, CtlDel, ConnInv, Stream, Up, Linked, Paired, dataVars, histVars
<1>3. Young'
  BY DEF StopIoLoop, CtlDel, ConnInv, Young, NoEst, OneEst, Quiet, Untouched, dataVars, histVars
<1> QED
  BY <1>1, <1>2, <1>3 DEF ConnInv

-----------------------------------------------------------------------------
(* Steps of the application on the I/O thread.                             *)

\* A call of sendInLoop on a connection in use.
LEMMA SendStep ==
  ASSUME ConnInv, ups = 1, created, inUser \/ revents = {},
         NEW b \in Seq(Byte), NEW q \in Seq(Entries), Follows(ioQ, q), SendInLoop(b, q),
         UNCHANGED <<state, serverVars, revents, inUser, userRef, upc, wrClosed,
                     peer, rcv, sent, histVars>>,
         unsent' \in SUBSET unsent
  PROVE  ConnInv'
<1>1. /\ outBuf' \in Seq(Byte) /\ wire' \in Seq(Byte) /\ accepted' \in Seq(Byte)
      /\ ChannelTypeOK' /\ Stream' /\ Linked' /\ Follows(q, ioQ')
      /\ sockErr' \in BOOLEAN
      /\ state = "kDisconnected" => UNCHANGED channelVars
  BY SendKeeps DEF serverVars, histVars
<1>2. Follows(ioQ, ioQ')
  BY <1>1, FollowsTrans
<1>3. Types'
  <2>1. ObjectTypes'
    BY <1>1, <1>2 DEF ConnInv, Types, serverVars, histVars, ObjectTypes
  <2>2. LoopTypes'
    BY <1>1, <1>2 DEF ConnInv, Types, Follows, serverVars, LoopTypes
  <2>3. StreamTypes'
    BY <1>1, <1>2 DEF ConnInv, Types, StreamTypes
  <2>4. PeerTypes'
    BY <1>1, <1>2 DEF ConnInv, Types, histVars, PeerTypes
  <2> QED
    BY <2>1, <2>2, <2>3, <2>4 DEF Types
<1>4. Young'
  BY <1>2, YoungKeeps DEF ConnInv, serverVars, histVars
<1>5. Paired'
  BY <1>1 DEF ConnInv, Paired, serverVars, histVars, channelVars
<1> QED
  BY <1>1, <1>3, <1>4, <1>5 DEF ConnInv

LEMMA UserSendKeeps ==
  ASSUME ConnInv, UserSend PROVE ConnInv'
<1>1. ups = 1 /\ created /\ inUser
  BY InUse DEF UserSend, ConnInv
<1>2. PICK m \in unsent \cap LoopMsgs :
        /\ unsent' = unsent \ {m}
        /\ IF state = "kConnected"
           THEN SendInLoop(Bytes(m), ioQ)
           ELSE UNCHANGED <<channelVars, ioQ, outBuf, wire, accepted, sockErr>>
  BY DEF UserSend
<1>3. UNCHANGED <<state, serverVars, revents, inUser, userRef, upc, wrClosed,
                  peer, rcv, sent, histVars>>
  BY DEF UserSend
<1>4. ioQ \in Seq(Entries) /\ Follows(ioQ, ioQ) /\ unsent' \in SUBSET unsent
  BY <1>2, FollowsSelf DEF ConnInv, Types, LoopTypes, StreamTypes
<1>5. CASE state = "kConnected"
  <2>1. Bytes(m) \in Seq(Byte) /\ SendInLoop(Bytes(m), ioQ)
    BY <1>2, <1>5, BytesType DEF Byte, Msgs
  <2> QED
    BY <1>1, <1>3, <1>4, <2>1, SendStep
<1>6. CASE state # "kConnected"
  <2>1. UNCHANGED <<channelVars, ioQ, outBuf, wire, accepted, sockErr>>
    BY <1>2, <1>6
  <2>2. Types'
    <3>1. ObjectTypes'
      BY <1>3, <1>4, <2>1 DEF ConnInv, Types, ChannelTypeOK, channelVars, serverVars,
         histVars, ObjectTypes
    <3>2. LoopTypes'
      BY <1>3, <1>4, <2>1 DEF ConnInv, Types, serverVars, LoopTypes
    <3>3. StreamTypes'
      BY <1>3, <1>4, <2>1 DEF ConnInv, Types, StreamTypes
    <3>4. PeerTypes'
      BY <1>3, <1>4, <2>1 DEF ConnInv, Types, histVars, PeerTypes
    <3> QED
      BY <3>1, <3>2, <3>3, <3>4 DEF Types
  <2> QED
    BY <1>1, <1>3, <1>4, <2>1, <2>2, FrameKeeps DEF serverVars, histVars
<1> QED
  BY <1>5, <1>6

LEMMA UserShutdownKeeps ==
  ASSUME ConnInv, UserShutdown PROVE ConnInv'
<1>1. ups = 1
  BY InUse DEF UserShutdown, ConnInv
<1>2. Types'
  <2>1. ObjectTypes'
    BY DEF UserShutdown, ShutdownInLoop, ConnInv, Types, ChannelTypeOK, channelVars,
       serverVars, histVars, ObjectTypes
  <2>2. LoopTypes'
    BY DEF UserShutdown, ConnInv, Types, serverVars, LoopTypes
  <2>3. StreamTypes'
    BY DEF UserShutdown, ConnInv, Types, dataVars, StreamTypes
  <2>4. PeerTypes'
    BY DEF UserShutdown, ConnInv, Types, netVars, histVars, PeerTypes
  <2> QED
    BY <2>1, <2>2, <2>3, <2>4 DEF Types
<1>3. Stream' /\ Linked' /\ Paired'
  BY DEF UserShutdown, ShutdownInLoop, ConnInv, Stream, Up, Linked, Paired, channelVars,
         serverVars, dataVars, histVars
<1>4. Young'
  BY <1>1 DEF UserShutdown, ConnInv, Young, serverVars, histVars
<1> QED
  BY <1>2, <1>3, <1>4 DEF ConnInv

LEMMA UserReturnKeeps ==
  ASSUME ConnInv, UserReturn PROVE ConnInv'
<1>1. ups = 1 /\ Follows(ioQ, ioQ')
  BY InUse, FollowsSelf DEF UserReturn, ConnInv, Types, LoopTypes
<1>2. Types'
  <2>1. ObjectTypes'
    <3>1. ChannelTypeOK'
      BY DEF UserReturn, ConnInv, Types, ObjectTypes, ChannelTypeOK, channelVars
    <3> QED
      BY <3>1 DEF UserReturn, ConnInv, Types, serverVars, histVars, ObjectTypes
  <2>2. LoopTypes'
    BY DEF UserReturn, ConnInv, Types, serverVars, LoopTypes
  <2>3. StreamTypes'
    BY DEF UserReturn, ConnInv, Types, dataVars, StreamTypes
  <2>4. PeerTypes'
    BY DEF UserReturn, ConnInv, Types, netVars, histVars, PeerTypes
  <2> QED
    BY <2>1, <2>2, <2>3, <2>4 DEF Types
<1> QED
  BY <1>1, <1>2, FrameKeeps DEF UserReturn, channelVars, serverVars, dataVars, histVars

-----------------------------------------------------------------------------
(* Functors of the I/O loop.                                               *)

\* Taking the first functor off the queue.
LEMMA Popped ==
  ASSUME ConnInv, NEW o, RunsFunctor(o)
  PROVE  /\ ioQ \in Seq(Entries) /\ ioQ # <<>> /\ Head(ioQ).op = o /\ Head(ioQ) \in Entries
         /\ Follows(ioQ, Tail(ioQ)) /\ Tail(ioQ) \in Seq(Entries)
         /\ Quiet(ioQ) => Quiet(Tail(ioQ))
         /\ o \in {"send", "shutdown"} => ups = 1 /\ created
         /\ o = "established" => /\ ups = 0 /\ created /\ Untouched
                                 /\ NoEst(Tail(ioQ)) /\ OneEst(Tail(ioQ))
<1>1. ioQ \in Seq(Entries) /\ ioQ # <<>> /\ Head(ioQ).op = o
  BY DEF RunsFunctor, ConnInv, Types, LoopTypes
<1>2. /\ Follows(ioQ, Tail(ioQ)) /\ (Quiet(ioQ) => Quiet(Tail(ioQ))) /\ Head(ioQ) \in Entries
      /\ Head(ioQ).op = "established" => ~NoEst(ioQ) /\ (OneEst(ioQ) => NoEst(Tail(ioQ)))
      /\ Head(ioQ).op \in {"send", "shutdown"} => ~Quiet(ioQ)
  BY <1>1, TailFollows
<1>3. o \in {"send", "shutdown"} => ups = 1 /\ created
  BY <1>1, <1>2, InUse DEF ConnInv
<1>4. o = "established" => /\ ups = 0 /\ created /\ Untouched
                           /\ NoEst(Tail(ioQ)) /\ OneEst(Tail(ioQ))
  BY <1>1, <1>2 DEF ConnInv, Young, NoEst, OneEst
<1> QED
  BY <1>1, <1>2, <1>3, <1>4 DEF Follows

LEMMA ConnectEstablishedKeeps ==
  ASSUME ConnInv, ConnectEstablished PROVE ConnInv'
<1>1. /\ ups = 0 /\ created /\ Untouched /\ ioQ' \in Seq(Entries)
      /\ NoEst(ioQ') /\ OneEst(ioQ')
  BY Popped DEF ConnectEstablished
<1>2. ChannelTypeOK' /\ Linked' /\ events' = {"read"}
  <2>1. UpdateChannel({"read"}) /\ ChannelTypeOK
    BY <1>1 DEF ConnectEstablished, EnableReading, Untouched, ConnInv, Types, ObjectTypes
  <2> QED
    BY <2>1, UpdateLinks
<1>3. Types'
  <2>1. ObjectTypes'
    BY <1>1, <1>2 DEF ConnectEstablished, ConnInv, Types, serverVars, ObjectTypes
  <2>2. LoopTypes'
    BY <1>1, <1>2 DEF ConnectEstablished, ConnInv, Types, serverVars, LoopTypes
  <2>3. StreamTypes'
    BY <1>1, <1>2 DEF ConnectEstablished, ConnInv, Types, dataVars, StreamTypes
  <2>4. PeerTypes'
    BY <1>1, <1>2 DEF ConnectEstablished, ConnInv, Types, netVars, PeerTypes
  <2> QED
    BY <2>1, <2>2, <2>3, <2>4 DEF Types
<1>4. Stream'
  BY <1>1, <1>2 DEF ConnectEstablished, ConnInv, Stream, Up, Untouched, dataVars
<1>5. Young'
  BY <1>1 DEF ConnectEstablished, Young, serverVars
<1>6. Paired'
  BY <1>1 DEF ConnectEstablished, Paired, Untouched
<1> QED
  BY <1>2, <1>3, <1>4, <1>5, <1>6 DEF ConnInv

LEMMA ConnectDestroyedKeeps ==
  ASSUME ConnInv, ConnectDestroyed PROVE ConnInv'
<1>1. Follows(ioQ, ioQ') /\ (Quiet(ioQ) => Quiet(ioQ')) /\ ioQ' \in Seq(Entries)
  BY Popped DEF ConnectDestroyed
<1>2. CASE state = "kConnected" /\ RemoveChannel({}) /\ state' = "kDisconnected"
           /\ downs' = downs + 1
  <2>1. ChannelTypeOK' /\ Linked' /\ events' = {} /\ ~registered'
    BY <1>2, RemoveLinks DEF ConnInv, Types, ObjectTypes
  <2>2. ups = 1 /\ created
    BY <1>2, InUse DEF ConnInv
  <2>3. Types'
    <3>1. ObjectTypes'
      BY <1>1, <1>2, <2>1 DEF ConnectDestroyed, ConnInv, Types, serverVars, ObjectTypes
    <3>2. LoopTypes'
      BY <1>1, <1>2, <2>1 DEF ConnectDestroyed, ConnInv, Types, serverVars, LoopTypes
    <3>3. StreamTypes'
      BY <1>1, <1>2, <2>1 DEF ConnectDestroyed, ConnInv, Types, dataVars, StreamTypes
    <3>4. PeerTypes'
      BY <1>1, <1>2, <2>1 DEF ConnectDestroyed, ConnInv, Types, netVars, PeerTypes
    <3> QED
      BY <3>1, <3>2, <3>3, <3>4 DEF Types
  <2>4. Stream' /\ Paired'
    BY <1>2, <2>1, <2>2 DEF ConnectDestroyed, RunsFunctor, Between, ConnInv, Stream, Up, Paired,
                            dataVars
  <2>5. Young'
    BY <1>1, <2>2, YoungKeeps DEF ConnectDestroyed, ConnInv, serverVars
  <2> QED
    BY <2>1, <2>3, <2>4, <2>5 DEF ConnInv
<1>3. CASE RemoveChannel(events) /\ UNCHANGED <<state, downs>>
  <2>1. ChannelTypeOK' /\ Linked' /\ events' = events /\ ~registered'
    BY <1>3, RemoveLinks DEF ConnInv, Types, ObjectTypes, ChannelTypeOK
  <2>2. Types'
    <3>1. ObjectTypes'
      BY <1>1, <1>3, <2>1 DEF ConnectDestroyed, ConnInv, Types, serverVars, ObjectTypes
    <3>2. LoopTypes'
      BY <1>1, <1>3, <2>1 DEF ConnectDestroyed, ConnInv, Types, serverVars, LoopTypes
    <3>3. StreamTypes'
      BY <1>1, <1>3, <2>1 DEF ConnectDestroyed, ConnInv, Types, dataVars, StreamTypes
    <3>4. PeerTypes'
      BY <1>1, <1>3, <2>1 DEF ConnectDestroyed, ConnInv, Types, netVars, PeerTypes
    <3> QED
      BY <3>1, <3>2, <3>3, <3>4 DEF Types
  <2>3. Stream' /\ Paired'
    BY <1>3, <2>1 DEF ConnectDestroyed, RunsFunctor, Between, ConnInv, Stream, Up, Paired,
                      dataVars
  <2>4. Untouched => Untouched'
    BY <1>3, <2>1 DEF ConnectDestroyed, Untouched, dataVars
  <2>5. Young'
    BY <1>1, <2>4, YoungKeeps DEF ConnectDestroyed, ConnInv, serverVars
  <2> QED
    BY <2>1, <2>2, <2>3, <2>5 DEF ConnInv
<1> QED
  BY <1>2, <1>3 DEF ConnectDestroyed

LEMMA RunSendKeeps ==
  ASSUME ConnInv, RunSend PROVE ConnInv'
<1>1. /\ ups = 1 /\ created /\ Follows(ioQ, Tail(ioQ)) /\ Tail(ioQ) \in Seq(Entries)
      /\ Head(ioQ) \in Entries /\ Head(ioQ).op = "send" /\ revents = {}
  BY Popped DEF RunSend, RunsFunctor, Between
<1>2. PICK m \in {Head(ioQ).msg, Garbage} : SendInLoop(Bytes(m), Tail(ioQ))
  BY DEF RunSend
<1>3. Head(ioQ).msg \in Msgs
  BY <1>1 DEF Entries, OwningOps
<1>4. Bytes(m) \in Seq(Byte)
  BY <1>3, BytesType DEF Byte
<1> QED
  BY <1>1, <1>2, <1>4, SendStep DEF RunSend

LEMMA RunShutdownKeeps ==
  ASSUME ConnInv, RunShutdown PROVE ConnInv'
<1>1. ups = 1 /\ Follows(ioQ, ioQ') /\ ioQ' \in Seq(Entries)
  BY Popped DEF RunShutdown
<1>2. Types'
  <2>1. ObjectTypes'
    BY <1>1 DEF RunShutdown, ShutdownInLoop, ConnInv, Types, ChannelTypeOK, channelVars,
       serverVars, histVars, ObjectTypes
  <2>2. LoopTypes'
    BY <1>1 DEF RunShutdown, ConnInv, Types, serverVars, LoopTypes
  <2>3. StreamTypes'
    BY <1>1 DEF RunShutdown, ConnInv, Types, dataVars, StreamTypes
  <2>4. PeerTypes'
    BY <1>1 DEF RunShutdown, ConnInv, Types, netVars, histVars, PeerTypes
  <2> QED
    BY <2>1, <2>2, <2>3, <2>4 DEF Types
<1>3. wrClosed' => wrClosed \/ "write" \notin events
  BY DEF RunShutdown, ShutdownInLoop
<1> QED
  BY <1>1, <1>2, <1>3, FrameKeeps DEF RunShutdown, channelVars, serverVars, dataVars, histVars

LEMMA RunNotificationKeeps ==
  ASSUME ConnInv, RunNotification PROVE ConnInv'
<1>1. Follows(ioQ, ioQ') /\ (Quiet(ioQ) => Quiet(ioQ')) /\ ioQ' \in Seq(Entries)
  BY Popped DEF RunNotification
<1>2. Types'
  <2>1. ObjectTypes'
    BY <1>1 DEF RunNotification, ConnInv, Types, ChannelTypeOK, channelVars, serverVars,
       histVars, ObjectTypes
  <2>2. LoopTypes'
    BY <1>1 DEF RunNotification, ConnInv, Types, serverVars, LoopTypes
  <2>3. StreamTypes'
    BY <1>1 DEF RunNotification, ConnInv, Types, dataVars, StreamTypes
  <2>4. PeerTypes'
    BY <1>1 DEF RunNotification, ConnInv, Types, netVars, histVars, PeerTypes
  <2> QED
    BY <2>1, <2>2, <2>3, <2>4 DEF Types
<1> QED
  BY <1>1, <1>2, FrameKeeps DEF RunNotification, Untouched, channelVars, serverVars, dataVars,
                                histVars

-----------------------------------------------------------------------------
(* Events of the connection's fd.                                          *)

LEMMA PollConnectionKeeps ==
  ASSUME ConnInv, PollConnection PROVE ConnInv'
<1>1. PICK out \in BOOLEAN : revents' = Reported(out)
  BY DEF PollConnection
<1>2. revents' \in SUBSET {"close", "error", "read", "write"}
  BY <1>1 DEF Reported
<1>3. "close" \in revents' => "read" \notin revents'
  BY <1>1 DEF Reported
<1>4. registered /\ ups = 1 /\ index = "kAdded" /\ ~inUser
  BY InUse DEF PollConnection, Between, ConnInv, Linked
<1>5. Follows(ioQ, ioQ') /\ ioQ' = ioQ
  BY FollowsSelf DEF PollConnection, ConnInv, Types, LoopTypes
<1>6. Types'
  <2>1. ObjectTypes'
    BY DEF PollConnection, ConnInv, Types, ObjectTypes, ChannelTypeOK, channelVars,
           serverVars, histVars
  <2>2. LoopTypes'
    BY <1>2 DEF PollConnection, ConnInv, Types, LoopTypes, serverVars
  <2>3. StreamTypes'
    BY DEF PollConnection, ConnInv, Types, StreamTypes, dataVars
  <2>4. PeerTypes'
    BY DEF PollConnection, ConnInv, Types, PeerTypes, netVars, histVars
  <2> QED
    BY <2>1, <2>2, <2>3, <2>4 DEF Types
<1>7. Stream' /\ Linked'
  BY DEF PollConnection, ConnInv, Stream, Up, Linked, channelVars, serverVars, dataVars, histVars
<1>8. Young'
  BY <1>4, <1>5, YoungKeeps DEF PollConnection, ConnInv, serverVars, histVars
<1>9. Paired'
  BY <1>3, <1>4 DEF PollConnection, ConnInv, Paired, channelVars, histVars
<1> QED
  BY <1>6, <1>7, <1>8, <1>9 DEF ConnInv

\* A connection is closed by the first of its events that finds it closed.
LEMMA CloseStep ==
  ASSUME ConnInv, Close, revents # {}, "close" \in revents \/ "read" \in revents,
         revents' = revents \ {"close"} \/ revents' = revents \ {"read"},
         "close" \notin revents', "read" \notin revents',
         UNCHANGED <<created, held, serverUp, ioUp, ioQ, inUser, userRef, upc, dataVars,
                     wrClosed, ups, shutBy, revived>>,
         PeerTypes'
  PROVE  ConnInv'
<1>1. ups = 1 /\ created /\ Follows(ioQ, ioQ')
  BY InUse, FollowsSelf DEF ConnInv, Types, LoopTypes
<1>2. ChannelTypeOK' /\ Linked' /\ events' = {} /\ ~registered'
  BY UpdateLinks DEF Close, DisableAll, ConnInv, Types, ObjectTypes, Paired
<1>3. Types'
  <2>1. ObjectTypes'
    BY <1>2 DEF Close, ConnInv, Types, ObjectTypes
  <2>2. LoopTypes'
    <3>1. baseQ' \in Seq({"remove"})
      BY DEF Close, ConnInv, Types, LoopTypes
    <3> QED
      BY <3>1 DEF ConnInv, Types, LoopTypes
  <2>3. StreamTypes'
    BY DEF ConnInv, Types, dataVars, StreamTypes
  <2> QED
    BY <2>1, <2>2, <2>3 DEF Types
<1>4. Stream'
  BY DEF Close, ConnInv, Stream, Up, dataVars
<1>5. Young'
  BY <1>1, YoungKeeps DEF ConnInv
<1>6. Paired'
  BY <1>1, <1>2 DEF Close, ConnInv, Paired
<1> QED
  BY <1>2, <1>3, <1>4, <1>5, <1>6 DEF ConnInv

LEMMA CloseCallbackKeeps ==
  ASSUME ConnInv, CloseCallback PROVE ConnInv'
<1>1. /\ "close" \in revents /\ revents' = revents \ {"close"}
      /\ "close" \notin revents' /\ "read" \notin revents'
  BY DEF CloseCallback, Dispatching, ConnInv, Paired
<1>2. PeerTypes'
  BY DEF CloseCallback, Close, ConnInv, Types, PeerTypes, netVars
<1>3. Close /\ UNCHANGED <<created, held, serverUp, ioUp, ioQ, inUser, userRef, upc, dataVars,
                           wrClosed, ups, shutBy, revived>>
  BY DEF CloseCallback
<1> QED
  BY <1>1, <1>2, <1>3, CloseStep

LEMMA ErrorCallbackKeeps ==
  ASSUME ConnInv, ErrorCallback PROVE ConnInv'
<1>1. revents # {} /\ revents' = revents \ {"error"}
  BY DEF ErrorCallback, Dispatching
<1>2. ups = 1 /\ Follows(ioQ, ioQ')
  BY <1>1, InUse, FollowsSelf DEF ErrorCallback, ConnInv, Types, LoopTypes
<1>3. Types'
  <2>1. ObjectTypes'
    BY DEF ErrorCallback, ConnInv, Types, ObjectTypes, ChannelTypeOK, channelVars,
           serverVars, histVars
  <2>2. LoopTypes'
    BY <1>1 DEF ErrorCallback, ConnInv, Types, LoopTypes, serverVars
  <2>3. StreamTypes'
    BY DEF ErrorCallback, ConnInv, Types, StreamTypes, dataVars
  <2>4. PeerTypes'
    BY DEF ErrorCallback, ConnInv, Types, PeerTypes, histVars
  <2> QED
    BY <2>1, <2>2, <2>3, <2>4 DEF Types
<1> QED
  BY <1>1, <1>2, <1>3, FrameKeeps DEF ErrorCallback, channelVars, serverVars, dataVars, histVars

LEMMA ReadCallbackKeeps ==
  ASSUME ConnInv, ReadCallback PROVE ConnInv'
<1>1. /\ "read" \in revents /\ revents' = revents \ {"read"}
      /\ "close" \notin revents' /\ "read" \notin revents'
  BY DEF ReadCallback, Dispatching, ConnInv, Paired
<1>2. UNCHANGED <<created, held, serverUp, ioUp, ioQ, userRef, upc, dataVars,
                  wrClosed, peer, sent, ups, shutBy, revived>>
  BY DEF ReadCallback
<1>3. ups = 1 /\ Follows(ioQ, ioQ')
  BY <1>1, <1>2, InUse, FollowsSelf DEF ConnInv, Types, LoopTypes
<1>4. CASE /\ UNCHANGED <<channelVars, state, baseQ, downs>>
           /\ inUser' \in BOOLEAN /\ sockErr' \in BOOLEAN /\ rcv' \in {0, rcv}
  <2>1. Types'
    <3>1. ObjectTypes'
      BY <1>2, <1>4 DEF ConnInv, Types, ObjectTypes, ChannelTypeOK, channelVars
    <3>2. LoopTypes'
      BY <1>1, <1>2, <1>4 DEF ConnInv, Types, LoopTypes
    <3>3. StreamTypes'
      BY <1>2 DEF ConnInv, Types, StreamTypes, dataVars
    <3>4. PeerTypes'
      BY <1>2, <1>4 DEF ConnInv, Types, PeerTypes
    <3> QED
      BY <3>1, <3>2, <3>3, <3>4 DEF Types
  <2> QED
    BY <1>1, <1>2, <1>3, <1>4, <2>1, FrameKeeps DEF dataVars
<1>5. CASE Close /\ UNCHANGED <<inUser, sockErr, rcv>>
  <2>1. PeerTypes'
    BY <1>2, <1>5 DEF Close, ConnInv, Types, PeerTypes
  <2> QED
    BY <1>1, <1>2, <1>5, <2>1, CloseStep
<1>6. rcv \in Nat /\ sockErr \in BOOLEAN /\ inUser \in BOOLEAN
  BY DEF ConnInv, Types, PeerTypes, ObjectTypes
<1> QED
  BY <1>4, <1>5, <1>6 DEF ReadCallback

LEMMA WriteCallbackKeeps ==
  ASSUME ConnInv, WriteCallback PROVE ConnInv'
<1>1. /\ revents # {} /\ revents' = revents \ {"write"}
      /\ "close" \notin revents /\ "read" \notin revents
  BY DEF WriteCallback, Dispatching, Rank, ConnInv, Types, LoopTypes
<1>2. UNCHANGED <<state, created, held, serverUp, ioUp, baseQ, inUser, userRef, upc, accepted,
                  unsent, peer, rcv, sent, ups, downs, shutBy, revived>>
  BY DEF WriteCallback, serverVars, histVars
<1>3. ups = 1 /\ created
  BY <1>1, InUse DEF ConnInv
<1>4. /\ ioQ \in Seq(Entries) /\ outBuf \in Seq(Byte) /\ wire \in Seq(Byte)
      /\ wire \o outBuf = accepted
  BY DEF ConnInv, Types, LoopTypes, StreamTypes, Stream
<1>5. CASE UNCHANGED <<channelVars, ioQ, wrClosed, wire, outBuf>> /\ sockErr' \in BOOLEAN
  <2>1. Types'
    <3>1. ObjectTypes'
      BY <1>2, <1>5 DEF ConnInv, Types, ObjectTypes, ChannelTypeOK, channelVars
    <3>2. LoopTypes'
      BY <1>1, <1>2, <1>5 DEF ConnInv, Types, LoopTypes
    <3>3. StreamTypes'
      BY <1>2, <1>5 DEF ConnInv, Types, StreamTypes
    <3>4. PeerTypes'
      BY <1>2, <1>5 DEF ConnInv, Types, PeerTypes
    <3> QED
      BY <3>1, <3>2, <3>3, <3>4 DEF Types
  <2>2. Follows(ioQ, ioQ')
    BY <1>4, <1>5, FollowsSelf
  <2> QED
    BY <1>1, <1>2, <1>3, <1>5, <2>1, <2>2, FrameKeeps
<1>6. ASSUME "write" \in events, ~wrClosed, NEW k \in 1..Len(outBuf),
             wire' = wire \o SubSeq(outBuf, 1, k),
             outBuf' = SubSeq(outBuf, k + 1, Len(outBuf)),
             IF k = Len(outBuf) THEN AfterDrain ELSE UNCHANGED <<channelVars, ioQ, wrClosed>>,
             UNCHANGED sockErr
      PROVE  ConnInv'
  <2>1. k \in 0..Len(outBuf) /\ Len(outBuf) \in Nat
    BY <1>4
  <2>2. /\ SubSeq(outBuf, 1, k) \in Seq(Byte) /\ outBuf' \in Seq(Byte)
        /\ SubSeq(outBuf, 1, k) \o outBuf' = outBuf
        /\ k < Len(outBuf) => outBuf' # <<>>
        /\ k = Len(outBuf) => outBuf' = <<>>
    BY <1>4, <1>6, <2>1, CutInTwo
  <2>3. wire' \in Seq(Byte)
    BY <1>4, <1>6, <2>2, NotEmpty
  <2>4. wire' \o outBuf' = accepted'
    <3> DEFINE x == SubSeq(outBuf, 1, k)
    <3>1. /\ wire \in Seq(Byte) /\ x \in Seq(Byte) /\ outBuf' \in Seq(Byte)
          /\ x \o outBuf' = outBuf /\ wire' = wire \o x
      BY <1>4, <1>6, <2>2
    <3> HIDE DEF x
    <3>2. (wire \o x) \o outBuf' = wire \o (x \o outBuf')
      <4>1. wire \in Seq(Byte) /\ x \in Seq(Byte) /\ outBuf' \in Seq(Byte)
        BY <3>1
      <4> QED
        BY <4>1, Regroup
    <3> QED
      BY <1>2, <1>4, <3>1, <3>2
  <2>5. /\ ChannelTypeOK' /\ Linked' /\ Follows(ioQ, ioQ') /\ wrClosed' \in BOOLEAN
        /\ Up => ("write" \in events' <=> outBuf' # <<>>)
        /\ Up /\ wrClosed' => outBuf' = <<>>
        /\ events = {} => FALSE
    <3>1. CASE k = Len(outBuf)
      <4>1. UpdateChannel(events \ {"write"}) /\ ioQ' = Append(ioQ, Op("writeComplete"))
            /\ wrClosed' = (wrClosed \/ state = "kDisconnecting")
        BY <1>6, <3>1 DEF AfterDrain, DisableWriting
      <4>2. ChannelTypeOK' /\ Linked' /\ events' = events \ {"write"}
        <5>1. events \ {"write"} \in SUBSET {"read", "write"} /\ ChannelTypeOK
          BY DEF ConnInv, Types, ObjectTypes, ChannelTypeOK
        <5> QED
          BY <4>1, <5>1, UpdateLinks
      <4>3. Follows(ioQ, ioQ')
        BY <1>4, <4>1, QueueKeeps
      <4>4. wrClosed' \in BOOLEAN
        BY <4>1
      <4> QED
        BY <1>6, <2>2, <3>1, <4>2, <4>3, <4>4
    <3>2. CASE k # Len(outBuf)
      <4>1. UNCHANGED <<channelVars, ioQ, wrClosed>> /\ k < Len(outBuf)
        BY <1>6, <2>1, <3>2
      <4>2. Follows(ioQ, ioQ')
        BY <1>4, <4>1, FollowsSelf
      <4>3. ChannelTypeOK' /\ Linked' /\ events' = events
        BY <1>2, <4>1 DEF ConnInv, Types, ObjectTypes, Linked, ChannelTypeOK, channelVars
      <4>4. wrClosed' = FALSE /\ "write" \in events' /\ outBuf' # <<>>
        BY <1>6, <2>2, <4>1, <4>3 DEF ConnInv, Types, ObjectTypes
      <4> QED
        BY <1>6, <4>2, <4>3, <4>4
    <3> QED
      BY <3>1, <3>2
  <2>6. Types'
    <3>1. ObjectTypes'
      BY <1>2, <2>5 DEF ConnInv, Types, ObjectTypes
    <3>2. LoopTypes'
      BY <1>1, <1>2, <2>5 DEF ConnInv, Types, LoopTypes, Follows
    <3>3. StreamTypes'
      BY <1>2, <2>2, <2>3 DEF ConnInv, Types, StreamTypes
    <3>4. PeerTypes'
      BY <1>2, <1>6 DEF ConnInv, Types, PeerTypes
    <3> QED
      BY <3>1, <3>2, <3>3, <3>4 DEF Types
  <2>7. Stream'
    BY <1>2, <2>4, <2>5 DEF Stream, Up
  <2>8. Young'
    BY <1>2, <1>3, <2>5, YoungKeeps DEF ConnInv
  <2>9. Paired'
    BY <1>1, <1>2, <2>5 DEF ConnInv, Paired
  <2> QED
    BY <2>5, <2>6, <2>7, <2>8, <2>9 DEF ConnInv
<1>7. sockErr \in BOOLEAN
  BY DEF ConnInv, Types, PeerTypes
<1> QED
  BY <1>5, <1>6, <1>7 DEF WriteCallback

-----------------------------------------------------------------------------
(* Another thread.                                                         *)

LEMMA ForeignSendKeeps ==
  ASSUME ConnInv, ForeignSend PROVE ConnInv'
<1>1. ups = 1 /\ Follows(ioQ, ioQ')
  BY InUse, FollowsSelf DEF ForeignSend, ConnInv, Types, LoopTypes
<1>2. PICK m \in unsent \cap ForeignMsgs :
        unsent' = unsent \ {m} /\ upc' = [at |-> "send", msg |-> m]
  BY DEF ForeignSend
<1>3. Types'
  <2>1. ObjectTypes'
    BY DEF ForeignSend, ConnInv, Types, ObjectTypes, ChannelTypeOK, channelVars, serverVars,
           histVars
  <2>2. LoopTypes'
    BY <1>2 DEF ForeignSend, ConnInv, Types, LoopTypes, serverVars, Msgs
  <2>3. StreamTypes'
    BY <1>2 DEF ForeignSend, ConnInv, Types, StreamTypes
  <2>4. PeerTypes'
    BY DEF ForeignSend, ConnInv, Types, PeerTypes, netVars, histVars
  <2> QED
    BY <2>1, <2>2, <2>3, <2>4 DEF Types
<1> QED
  BY <1>1, <1>3, FrameKeeps DEF ForeignSend, channelVars, serverVars, histVars

LEMMA ForeignSendQueueKeeps ==
  ASSUME ConnInv, ForeignSendQueue PROVE ConnInv'
<1>1. ups = 1 /\ ioQ \in Seq(Entries) /\ upc.msg \in Msgs
  BY InUse DEF ForeignSendQueue, ConnInv, Types, LoopTypes
<1>2. SendOp(upc.msg) \in Entries /\ SendOp(upc.msg).op = "send"
  BY <1>1, SendIsEntry
<1>3. ioQ' = Append(ioQ, SendOp(upc.msg))
  BY DEF ForeignSendQueue
<1> HIDE DEF SendOp
<1>4. Follows(ioQ, ioQ') /\ ioQ' \in Seq(Entries)
  BY <1>1, <1>2, <1>3, AppendFollows, Appended
<1>5. Types'
  <2>1. ObjectTypes'
    BY DEF ForeignSendQueue, ConnInv, Types, ObjectTypes, ChannelTypeOK, channelVars, serverVars,
           histVars
  <2>2. LoopTypes'
    BY <1>4 DEF ForeignSendQueue, ConnInv, Types, LoopTypes, serverVars, Idle
  <2>3. StreamTypes'
    BY DEF ForeignSendQueue, ConnInv, Types, StreamTypes, dataVars
  <2>4. PeerTypes'
    BY DEF ForeignSendQueue, ConnInv, Types, PeerTypes, netVars, histVars
  <2> QED
    BY <2>1, <2>2, <2>3, <2>4 DEF Types
<1> QED
  BY <1>1, <1>4, <1>5, FrameKeeps DEF ForeignSendQueue, channelVars, serverVars, dataVars, histVars

LEMMA ForeignShutdownTestKeeps ==
  ASSUME ConnInv, ForeignShutdownTest PROVE ConnInv'
<1>1. ups = 1 /\ Follows(ioQ, ioQ')
  BY InUse, FollowsSelf DEF ForeignShutdownTest, ConnInv, Types, LoopTypes
<1>2. Types'
  <2>1. ObjectTypes'
    BY DEF ForeignShutdownTest, ConnInv, Types, ObjectTypes, ChannelTypeOK, channelVars, serverVars
  <2>2. LoopTypes'
    BY DEF ForeignShutdownTest, ConnInv, Types, LoopTypes, serverVars
  <2>3. StreamTypes'
    BY DEF ForeignShutdownTest, ConnInv, Types, StreamTypes, dataVars
  <2>4. PeerTypes'
    BY DEF ForeignShutdownTest, ConnInv, Types, PeerTypes, netVars
  <2> QED
    BY <2>1, <2>2, <2>3, <2>4 DEF Types
<1> QED
  BY <1>1, <1>2, FrameKeeps DEF ForeignShutdownTest, channelVars, serverVars, dataVars

LEMMA ForeignShutdownStoreKeeps ==
  ASSUME ConnInv, ForeignShutdownStore PROVE ConnInv'
<1>1. ups = 1 /\ created /\ Follows(ioQ, ioQ')
  BY InUse, FollowsSelf DEF ForeignShutdownStore, ConnInv, Types, LoopTypes
<1>2. Types'
  <2>1. ObjectTypes'
    BY DEF ForeignShutdownStore, ConnInv, Types, ObjectTypes, ChannelTypeOK, channelVars, serverVars
  <2>2. LoopTypes'
    BY DEF ForeignShutdownStore, ConnInv, Types, LoopTypes, serverVars
  <2>3. StreamTypes'
    BY DEF ForeignShutdownStore, ConnInv, Types, StreamTypes, dataVars
  <2>4. PeerTypes'
    BY DEF ForeignShutdownStore, ConnInv, Types, PeerTypes, netVars
  <2> QED
    BY <2>1, <2>2, <2>3, <2>4 DEF Types
<1>3. Stream' /\ Linked'
  BY DEF ForeignShutdownStore, ConnInv, Stream, Up, Linked, channelVars, serverVars, dataVars
<1>4. Young'
  BY <1>1, YoungKeeps DEF ForeignShutdownStore, ConnInv, serverVars
<1>5. Paired'
  BY DEF ForeignShutdownStore, ConnInv, Paired, channelVars
<1> QED
  BY <1>2, <1>3, <1>4, <1>5 DEF ConnInv

LEMMA ForeignShutdownQueueKeeps ==
  ASSUME ConnInv, ForeignShutdownQueue PROVE ConnInv'
<1>1. ups = 1 /\ ioQ \in Seq(Entries) /\ ioQ' = Append(ioQ, Op("shutdown"))
  BY InUse DEF ForeignShutdownQueue, ConnInv, Types, LoopTypes
<1>2. Op("shutdown") \in Entries /\ Op("shutdown").op = "shutdown"
  BY OpIsEntry
<1> HIDE DEF Op
<1>3. Follows(ioQ, ioQ') /\ ioQ' \in Seq(Entries)
  BY <1>1, <1>2, AppendFollows, Appended
<1>4. Types'
  <2>1. ObjectTypes'
    BY DEF ForeignShutdownQueue, ConnInv, Types, ObjectTypes, ChannelTypeOK, channelVars,
           serverVars, histVars
  <2>2. LoopTypes'
    BY <1>3 DEF ForeignShutdownQueue, ConnInv, Types, LoopTypes, serverVars, Idle
  <2>3. StreamTypes'
    BY DEF ForeignShutdownQueue, ConnInv, Types, StreamTypes, dataVars
  <2>4. PeerTypes'
    BY DEF ForeignShutdownQueue, ConnInv, Types, PeerTypes, netVars, histVars
  <2> QED
    BY <2>1, <2>2, <2>3, <2>4 DEF Types
<1> QED
  BY <1>1, <1>3, <1>4, FrameKeeps
     DEF ForeignShutdownQueue, channelVars, serverVars, dataVars, histVars

LEMMA DropRefKeeps ==
  ASSUME ConnInv, DropRef PROVE ConnInv'
<1>1. ups = 1 /\ Follows(ioQ, ioQ')
  BY InUse, FollowsSelf DEF DropRef, ConnInv, Types, LoopTypes
<1>2. Types'
  <2>1. ObjectTypes'
    <3>1. ChannelTypeOK'
      BY DEF DropRef, ConnInv, Types, ObjectTypes, ChannelTypeOK, channelVars
    <3> QED
      BY <3>1 DEF DropRef, ConnInv, Types, ObjectTypes, serverVars, histVars
  <2>2. LoopTypes'
    BY DEF DropRef, ConnInv, Types, LoopTypes, serverVars
  <2>3. StreamTypes'
    BY DEF DropRef, ConnInv, Types, StreamTypes, dataVars
  <2>4. PeerTypes'
    BY DEF DropRef, ConnInv, Types, PeerTypes, netVars, histVars
  <2> QED
    BY <2>1, <2>2, <2>3, <2>4 DEF Types
<1> QED
  BY <1>1, <1>2, FrameKeeps DEF DropRef, channelVars, serverVars, dataVars, histVars

-----------------------------------------------------------------------------
(* The peer, which only touches the socket.                                *)

LEMMA PeerKeeps ==
  ASSUME ConnInv, Peer PROVE ConnInv'
<1>1. UNCHANGED <<channelVars, state, serverVars, ioQ, revents, inUser, userRef, upc, dataVars,
                  wrClosed, histVars>>
  BY DEF Peer, PeerSends, PeerCloses, PeerResets
<1>2. PeerTypes'
  <2>1. rcv \in Nat /\ sent \in Nat /\ rcv <= sent /\ sent <= MaxIn /\ MaxIn \in Nat
        /\ ups \in Nat /\ downs \in Nat /\ sockErr \in BOOLEAN
        /\ peer \in {"open", "closed", "reset"}
    BY MsgAssumption DEF ConnInv, Types, PeerTypes
  <2>2. CASE PeerSends
    BY <1>1, <2>1, <2>2 DEF PeerSends, PeerTypes, histVars
  <2>3. CASE PeerCloses
    BY <1>1, <2>1, <2>3 DEF PeerCloses, PeerTypes, histVars
  <2>4. CASE PeerResets
    BY <1>1, <2>1, <2>4 DEF PeerResets, PeerTypes, histVars
  <2> QED
    BY <2>2, <2>3, <2>4 DEF Peer
<1>3. Types'
  <2>1. ObjectTypes'
    BY <1>1 DEF ConnInv, Types, ObjectTypes, ChannelTypeOK, channelVars, serverVars, histVars
  <2>2. LoopTypes'
    BY <1>1 DEF ConnInv, Types, LoopTypes, serverVars
  <2>3. StreamTypes'
    BY <1>1 DEF ConnInv, Types, StreamTypes, dataVars
  <2> QED
    BY <1>2, <2>1, <2>2, <2>3 DEF Types
<1>4. Follows(ioQ, ioQ')
  BY <1>1, FollowsSelf DEF ConnInv, Types, LoopTypes
<1> QED
  BY <1>1, <1>3, <1>4, FrameKeeps DEF channelVars, serverVars, dataVars, histVars, Untouched

-----------------------------------------------------------------------------
LEMMA InitInv == Init => ConnInv
<1> SUFFICES ASSUME Init PROVE ConnInv
  OBVIOUS
<1>1. ObjectTypes
  BY DEF Init, ChannelInit, ObjectTypes, ChannelTypeOK
<1>2. LoopTypes
  BY DEF Init, LoopTypes, Idle
<1>3. StreamTypes
  BY DEF Init, StreamTypes
<1>4. PeerTypes
  <2>1. MaxIn \in Nat
    BY MsgAssumption
  <2>2. /\ peer = "open" /\ sockErr = FALSE /\ rcv = 0 /\ sent = 0
        /\ ups = 0 /\ downs = 0
    BY DEF Init
  <2>3. sockErr \in BOOLEAN /\ peer \in {"open", "closed", "reset"}
    BY <2>2
  <2>4. /\ rcv \in Nat /\ sent \in Nat /\ rcv <= sent /\ sent <= MaxIn
        /\ ups \in Nat /\ downs \in Nat
    BY <2>1, <2>2
  <2> QED
    BY <2>3, <2>4 DEF PeerTypes
<1>5. Stream
  BY DEF Init, ChannelInit, Stream, Up
<1>6. Linked /\ Paired
  BY DEF Init, ChannelInit, Linked, Paired
<1>7. Young
  BY DEF Init, ChannelInit, Young, NoEst, OneEst, Quiet, Untouched, Idle
<1> QED
  BY <1>1, <1>2, <1>3, <1>4, <1>5, <1>6, <1>7 DEF ConnInv, Types

LEMMA NextInv == ConnInv /\ [Next]_vars => ConnInv'
<1> SUFFICES ASSUME ConnInv, [Next]_vars PROVE ConnInv'
  OBVIOUS
<1>1. CASE BaseLoop
  BY <1>1, NewConnectionKeeps, RemoveConnectionInLoopKeeps, DestroyServerKeeps, StopIoLoopKeeps
     DEF BaseLoop
<1>2. CASE Functor
  BY <1>2, ConnectEstablishedKeeps, ConnectDestroyedKeeps, RunSendKeeps, RunShutdownKeeps,
     RunNotificationKeeps DEF Functor
<1>3. CASE PollConnection
  BY <1>3, PollConnectionKeeps
<1>4. CASE Event
  BY <1>4, CloseCallbackKeeps, ErrorCallbackKeeps, ReadCallbackKeeps, WriteCallbackKeeps DEF Event
<1>5. CASE UserCode
  BY <1>5, UserSendKeeps, UserShutdownKeeps, UserReturnKeeps DEF UserCode
<1>6. CASE Foreign
  BY <1>6, ForeignSendKeeps, ForeignSendQueueKeeps, ForeignShutdownTestKeeps,
     ForeignShutdownStoreKeeps, ForeignShutdownQueueKeeps, DropRefKeeps DEF Foreign
<1>7. CASE Peer
  BY <1>7, PeerKeeps
<1>8. CASE UNCHANGED vars
  <2>1. UNCHANGED <<channelVars, connVars>>
    BY <1>8 DEF vars
  <2>2. Types'
    BY <2>1 DEF ConnInv, Types, ObjectTypes, LoopTypes, StreamTypes, PeerTypes, ChannelTypeOK,
                channelVars, connVars
  <2>3. Follows(ioQ, ioQ')
    BY <2>1, FollowsSelf DEF ConnInv, Types, LoopTypes, connVars
  <2> QED
    BY <2>1, <2>2, <2>3, FrameKeeps DEF channelVars, connVars, Untouched
<1> QED
  BY <1>1, <1>2, <1>3, <1>4, <1>5, <1>6, <1>7, <1>8 DEF Next

\* The inductive invariant of a connection: one functor establishes it, nobody
\* uses it before, EPOLLOUT is asked for exactly while data is buffered, and a
\* connection that went down gets no event that takes it down again.
THEOREM ConnectionInvariant == Spec => []ConnInv
BY InitInv, NextInv, PTL DEF Spec

\* TcpConnection::sendInLoop and handleWrite: whatever the sizes of messages
\* and of partial writes, what the kernel took and what is still buffered is
\* what was accepted, in order, and the FIN is not sent over buffered data.
THEOREM StreamStaysInOrder == Spec => []StreamInOrder
<1>1. ConnInv => StreamInOrder
  BY DEF ConnInv, Stream, Up, StreamInOrder
<1> QED
  BY <1>1, ConnectionInvariant, PTL

\* TcpConnection::sendInLoop, handleWrite and EPollPoller::updateChannel: data
\* left in the output buffer of a connection that is up has EPOLLOUT set in the
\* kernel.
THEOREM BufferedDataStaysWatched == Spec => []BufferedDataIsWatched
<1>1. ConnInv => BufferedDataIsWatched
  BY DEF ConnInv, Types, ObjectTypes, ChannelTypeOK, Stream, Up, Linked, BufferedDataIsWatched
<1> QED
  BY <1>1, ConnectionInvariant, PTL

\* The two ways down, handleClose and connectDestroyed, call the application's
\* connection callback once between them, after the call that reported the
\* connection.
THEOREM CallbacksStayPaired == Spec => []CallbacksPaired
<1>1. ConnInv => CallbacksPaired
  <2> SUFFICES ASSUME ConnInv PROVE CallbacksPaired
    OBVIOUS
  <2>1. \A i \in DOMAIN ioQ : ioQ[i].op \in OwningOps \cup {"send", "shutdown"}
    <3>1. \A i \in DOMAIN ioQ : ioQ[i] \in Entries
      BY DEF ConnInv, Types, LoopTypes
    <3> QED
      BY <3>1 DEF Entries
  <2>2. \A i \in DOMAIN baseQ : baseQ[i] = "remove"
    BY DEF ConnInv, Types, LoopTypes
  <2>3. \A s \in {outBuf, wire, accepted} : \A i \in DOMAIN s : s[i] \in Msgs \cup {Garbage}
    BY DEF ConnInv, Types, StreamTypes, Byte
  <2>4. rcv \in 0..MaxIn /\ sent \in 0..MaxIn /\ ups \in Nat /\ downs \in Nat
    BY MsgAssumption DEF ConnInv, Types, PeerTypes
  <2>5. TypeOK
    BY <2>1, <2>2, <2>3, <2>4
       DEF ConnInv, Types, ObjectTypes, LoopTypes, StreamTypes, PeerTypes, TypeOK
  <2>6. ups <= 1 /\ (downs <= ups \/ revived)
    BY DEF ConnInv, Young, Paired, Types, PeerTypes
  <2> QED
    BY <2>5, <2>6 DEF CallbacksPaired
<1> QED
  BY <1>1, ConnectionInvariant, PTL

-----------------------------------------------------------------------------
(* What is left in the poller.                                             *)

HasOp(q, o) == \E i \in DOMAIN q : q[i].op = o
SendsFirst(q) ==
  \A i, j \in DOMAIN q : q[i].op = "destroyed" /\ q[j].op = "send" => j < i

\* The poller's map, the epoll set and index_ agree, and a loop that is gone
\* leaves nobody inside the connection.
Known ==
  /\ ioUp => (registered <=> index = "kAdded") /\ (inMap <=> index # "kNew")
  /\ ~ioUp => /\ ~serverUp /\ ~inUser /\ revents = {} /\ upc.at = "idle"
              /\ ~registered /\ ~inMap
  /\ revents # {} => index # "kNew"

\* connectEstablished is the first functor to run, and connectDestroyed is not
\* asked for before the connection went down, as long as the server lives.
InOrder ==
  /\ held => created
  /\ ~created => ioQ = <<>>
  /\ ups = 0 => /\ index = "kNew" /\ ~shutBy
                /\ ioQ # <<>> => Head(ioQ).op = "established"
                /\ created /\ ioUp => ioQ # <<>>
  /\ ups = 1 => state # "kConnecting"
  /\ state = "kConnected" => index # "kNew"
  /\ serverUp /\ state \in {"kConnecting", "kConnected"} =>
       ~HasOp(ioQ, "destroyed") /\ baseQ = <<>>

\* A shutdown() closes the write side or leaves it to handleWrite, unless it
\* came from another thread; that thread has queued its sends before.
Closing ==
  /\ upc.at \in {"store", "queue"} \/ revived => shutBy
  /\ state = "kDisconnecting" /\ ~shutBy => wrClosed \/ "write" \in events
  /\ shutBy => upc.at # "send" /\ (upc.at = "store" \/ state # "kConnected")
  /\ shutBy /\ serverUp => SendsFirst(ioQ) /\ (index = "kNew" => ~HasOp(ioQ, "send"))

\* Somebody will remove a channel that the poller knows or will know.
Reclaimed ==
  ioUp /\ created /\ (index # "kNew" \/ ups = 0) =>
    held \/ baseQ # <<>> \/ HasOp(ioQ, "destroyed") \/ (shutBy /\ ~serverUp)

ChanInv == ConnInv /\ Known /\ InOrder /\ Closing /\ Reclaimed

\* r is left of q after running functors other than connectDestroyed and
\* telling the application.
Later(q, r) ==
  /\ HasOp(r, "destroyed") <=> HasOp(q, "destroyed")
  /\ HasOp(r, "send") => HasOp(q, "send")
  /\ SendsFirst(q) => SendsFirst(r)

LEMMA LaterSelf == \A q : Later(q, q)
BY DEF Later

LEMMA LaterTrans ==
  ASSUME NEW q, NEW r, NEW s, Later(q, r), Later(r, s) PROVE Later(q, s)
BY DEF Later

LEMMA AppendedOps ==
  ASSUME NEW q \in Seq(Entries), NEW e \in Entries
  PROVE  /\ \A o : HasOp(Append(q, e), o) <=> HasOp(q, o) \/ e.op = o
         /\ e.op # "send" /\ SendsFirst(q) => SendsFirst(Append(q, e))
         /\ q # <<>> => Head(Append(q, e)) = Head(q)
         /\ q = <<>> => Head(Append(q, e)) = e
<1> DEFINE r == Append(q, e)
<1>1. \A i \in DOMAIN r : \/ i \in DOMAIN q /\ r[i] = q[i]
                          \/ i = Len(q) + 1 /\ r[i] = e
  BY Appended
<1>2. /\ \A i \in DOMAIN q : i \in DOMAIN r /\ r[i] = q[i] /\ i \in Nat /\ i < Len(q) + 1
      /\ Len(q) + 1 \in DOMAIN r /\ r[Len(q) + 1] = e
  OBVIOUS
<1>3. (q # <<>> => Head(r) = Head(q)) /\ (q = <<>> => Head(r) = e)
  OBVIOUS
<1> HIDE DEF r
<1>4. \A o : HasOp(r, o) <=> HasOp(q, o) \/ e.op = o
  BY <1>1, <1>2 DEF HasOp
<1>5. e.op # "send" /\ SendsFirst(q) => SendsFirst(r)
  BY <1>1, <1>2 DEF SendsFirst
<1> QED
  BY <1>3, <1>4, <1>5 DEF r

LEMMA ToldLater ==
  ASSUME NEW q \in Seq(Entries), NEW o \in {"writeComplete", "highWater"}
  PROVE  Later(q, Append(q, Op(o)))
<1>1. Op(o) \in Entries /\ Op(o).op = o
  BY OpIsEntry DEF OwningOps
<1> HIDE DEF Op
<1> QED
  BY <1>1, AppendedOps DEF Later

LEMMA TailOps ==
  ASSUME NEW q \in Seq(Entries), q # <<>>
  PROVE  /\ \A o : HasOp(q, o) <=> HasOp(Tail(q), o) \/ Head(q).op = o
         /\ SendsFirst(q) => SendsFirst(Tail(q))
         /\ SendsFirst(q) /\ Head(q).op = "destroyed" => ~HasOp(Tail(q), "send")
         /\ Head(q).op # "destroyed" => Later(q, Tail(q))
<1>1. /\ \A i \in DOMAIN Tail(q) : i \in Nat /\ i + 1 \in DOMAIN q /\ Tail(q)[i] = q[i + 1]
      /\ \A i \in DOMAIN q : i = 1 \/ (i - 1 \in DOMAIN Tail(q) /\ Tail(q)[i - 1] = q[i])
      /\ 1 \in DOMAIN q /\ Head(q) = q[1]
  OBVIOUS
<1>2. \A o : HasOp(q, o) <=> HasOp(Tail(q), o) \/ Head(q).op = o
  BY <1>1 DEF HasOp
<1>3. SendsFirst(q) => SendsFirst(Tail(q))
  BY <1>1 DEF SendsFirst
<1>4. SendsFirst(q) /\ Head(q).op = "destroyed" => ~HasOp(Tail(q), "send")
  BY <1>1 DEF SendsFirst, HasOp
<1> QED
  BY <1>2, <1>3, <1>4 DEF Later

LEMMA UpdateKnown ==
  ASSUME ChannelTypeOK, Known, ioUp, NEW ev \in SUBSET {"read", "write"}, UpdateChannel(ev)
  PROVE  /\ registered' <=> index' = "kAdded"
         /\ inMap' /\ index' # "kNew" /\ events' = ev
BY DEF ChannelTypeOK, Known, UpdateChannel, CtlSet, CtlDel

\* Steps that leave the channel and the life of the connection alone.
LEMMA FrameReclaims ==
  ASSUME ChanInv, ConnInv',
         UNCHANGED <<channelVars, state, created, held, serverUp, ioUp, baseQ, upc, ups,
                     shutBy, revived>>,
         wrClosed => wrClosed',
         inUser' => ioUp, revents' # {} => ioUp /\ index # "kNew",
         Later(ioQ, ioQ'), ioQ' = ioQ \/ (ups = 1 /\ created)
  PROVE  ChanInv'
<1>1. Known'
  BY DEF ChanInv, Known, channelVars
<1>2. InOrder'
  BY DEF ChanInv, InOrder, Later, channelVars
<1>3. Closing'
  BY DEF ChanInv, Closing, Later, channelVars
<1>4. Reclaimed'
  BY DEF ChanInv, Reclaimed, Later, channelVars
<1> QED
  BY <1>1, <1>2, <1>3, <1>4 DEF ChanInv

\* A shutdown() that another thread has not called hides no close.
LEMMA UpOrShut ==
  ASSUME ChanInv, state # "kDisconnected", ~shutBy
  PROVE  Up
BY DEF ChanInv, Closing, Up

LEMMA SendChannel ==
  ASSUME ConnInv, NEW b, NEW q \in Seq(Entries), SendInLoop(b, q)
  PROVE  /\ Later(q, ioQ')
         /\ \/ UNCHANGED channelVars
            \/ EnableWriting /\ state # "kDisconnected" /\ (Up => ~wrClosed /\ "write" \notin events)
<1>1. Later(q, q) /\ Later(q, Append(q, Op("writeComplete"))) /\ Later(q, Append(q, Op("highWater")))
  BY LaterSelf, ToldLater
<1>2. ASSUME NEW c, Buffer(c, q), ~wrClosed \/ outBuf # <<>>, state # "kDisconnected"
      PROVE  /\ Later(q, ioQ')
             /\ \/ UNCHANGED channelVars
                \/ EnableWriting /\ (Up => ~wrClosed /\ "write" \notin events)
  <2>1. Up /\ wrClosed => outBuf = <<>>
    BY DEF ConnInv, Stream
  <2> HIDE DEF Op, Later
  <2>2. Later(q, ioQ')
    BY <1>1, <1>2 DEF Buffer
  <2> QED
    BY <1>2, <2>1, <2>2 DEF Buffer
<1>3. CASE StopsSending
  BY <1>1, <1>3 DEF SendInLoop
<1>4. CASE ~StopsSending /\ "write" \notin events /\ outBuf = <<>>
  <2>1. WriteDirect(b, q)
    BY <1>4 DEF SendInLoop
  <2>2. CASE wrClosed \/ peer = "reset"
    BY <1>1, <2>1, <2>2 DEF WriteDirect
  <2>3. CASE ~wrClosed /\ peer # "reset"
    <3>1. PICK k \in 0..Len(b) :
            IF k = Len(b)
            THEN ioQ' = Append(q, Op("writeComplete")) /\ UNCHANGED <<channelVars, outBuf>>
            ELSE Buffer(SubSeq(b, k + 1, Len(b)), q)
      BY <2>1, <2>3 DEF WriteDirect
    <3>2. CASE k = Len(b)
      BY <1>1, <3>1, <3>2
    <3>3. CASE k # Len(b)
      <4>1. Buffer(SubSeq(b, k + 1, Len(b)), q)
        BY <3>1, <3>3
      <4> QED
        BY <1>2, <1>4, <2>3, <4>1 DEF StopsSending
    <3> QED
      BY <3>2, <3>3
  <2> QED
    BY <2>2, <2>3
<1>5. CASE ~StopsSending /\ ~("write" \notin events /\ outBuf = <<>>)
  <2>1. Buffer(b, q)
    BY <1>5 DEF SendInLoop
  <2>2. CASE outBuf # <<>>
    BY <1>2, <1>5, <2>1, <2>2 DEF StopsSending
  <2>3. CASE outBuf = <<>>
    <3>1. UNCHANGED channelVars
      BY <1>5, <2>1, <2>3 DEF Buffer
    <3>2. Later(q, ioQ')
      BY <1>1, <2>1 DEF Buffer
    <3> QED
      BY <3>1, <3>2
  <2> QED
    BY <2>2, <2>3
<1> QED
  BY <1>3, <1>4, <1>5

\* sendInLoop registers a removed channel only behind a shutdown() from another
\* thread and a server that is gone.
LEMMA SendReclaims ==
  ASSUME ChanInv, ConnInv', ups = 1, created, ioUp,
         state = "kConnected" \/ HasOp(ioQ, "send"),
         NEW b, NEW q \in Seq(Entries), Later(ioQ, q), SendInLoop(b, q),
         UNCHANGED <<state, serverVars, revents, inUser, upc, wrClosed, histVars>>
  PROVE  /\ ChanInv'
         /\ index = "kNew" => registered' = registered \/ (shutBy /\ ~serverUp)
<1>1. /\ Later(ioQ, ioQ')
      /\ \/ UNCHANGED channelVars
         \/ EnableWriting /\ state # "kDisconnected" /\ (Up => ~wrClosed /\ "write" \notin events)
  BY SendChannel, LaterTrans DEF ChanInv
<1>2. UNCHANGED <<state, created, held, serverUp, ioUp, baseQ, upc, ups, shutBy, revived,
                  wrClosed, inUser, revents>>
  BY DEF serverVars, histVars
<1>3. CASE UNCHANGED channelVars
  <2>1. registered' = registered /\ (revents' # {} => ioUp /\ index # "kNew")
    BY <1>2, <1>3 DEF channelVars, ChanInv, Known
  <2> QED
    BY <1>1, <1>2, <1>3, <2>1, FrameReclaims
<1>4. CASE EnableWriting /\ state # "kDisconnected" /\ (Up => ~wrClosed /\ "write" \notin events)
  <2>1. events \cup {"write"} \in SUBSET {"read", "write"} /\ ChannelTypeOK
    BY DEF ChanInv, ConnInv, Types, ObjectTypes, ChannelTypeOK
  <2>2. /\ registered' <=> index' = "kAdded"
        /\ inMap' /\ index' # "kNew" /\ events' = events \cup {"write"}
    BY <1>4, <2>1, UpdateKnown DEF EnableWriting, ChanInv
  <2>3. index = "kNew" => shutBy /\ ~serverUp
    <3>1. ASSUME index = "kNew", ~shutBy PROVE FALSE
      BY <1>4, <3>1, UpOrShut DEF ChanInv, InOrder, Closing, ConnInv, Types, ObjectTypes
    <3>2. ASSUME index = "kNew", serverUp, shutBy PROVE FALSE
      BY <3>2 DEF ChanInv, InOrder, Closing
    <3> QED
      BY <3>1, <3>2 DEF ChanInv, ConnInv, Types, ObjectTypes
  <2>4. Known'
    BY <1>2, <2>2 DEF ChanInv, Known
  <2>5. InOrder'
    BY <1>1, <1>2, <2>2 DEF ChanInv, InOrder, Later
  <2>6. Closing'
    BY <1>1, <1>2, <2>2 DEF ChanInv, Closing, Later
  <2>7. Reclaimed'
    BY <1>1, <1>2, <2>2, <2>3 DEF ChanInv, Reclaimed, Later
  <2> QED
    BY <2>3, <2>4, <2>5, <2>6, <2>7 DEF ChanInv
<1> QED
  BY <1>1, <1>3, <1>4

-----------------------------------------------------------------------------
LEMMA NewConnectionReclaims ==
  ASSUME ChanInv, ConnInv', NewConnection PROVE ChanInv'
<1>1. Op("established") \in Entries /\ Op("established").op = "established"
  BY OpIsEntry DEF OwningOps
<1>2. ioQ \in Seq(Entries) /\ ioQ' = Append(ioQ, Op("established"))
  BY DEF NewConnection, ChanInv, ConnInv, Types, LoopTypes
<1>3. ups = 0 /\ ioQ = <<>> /\ serverUp /\ ~created /\ state = "kConnecting"
  BY DEF NewConnection, ChanInv, ConnInv, Young, InOrder, Untouched
<1> HIDE DEF Op
<1>4. ioQ' # <<>> /\ Head(ioQ').op = "established" /\ ~HasOp(ioQ', "destroyed")
  BY <1>1, <1>2, <1>3, AppendedOps, Appended DEF HasOp
<1>5. UNCHANGED <<channelVars, state, serverUp, ioUp, baseQ, revents, inUser, upc, wrClosed, ups,
                  shutBy, revived>> /\ held' /\ created'
  BY DEF NewConnection, histVars
<1>6. Known'
  BY <1>5 DEF ChanInv, Known, channelVars
<1>7. InOrder'
  BY <1>3, <1>4, <1>5 DEF ChanInv, InOrder, channelVars
<1>8. Closing'
  BY <1>3, <1>5 DEF ChanInv, InOrder, Closing, channelVars
<1>9. Reclaimed'
  BY <1>5 DEF Reclaimed
<1> QED
  BY <1>6, <1>7, <1>8, <1>9 DEF ChanInv

\* Asking for connectDestroyed.
LEMMA DestroyQueued ==
  ASSUME ConnInv, ioQ' = Append(ioQ, Op("destroyed"))
  PROVE  /\ HasOp(ioQ', "destroyed") /\ (HasOp(ioQ', "send") => HasOp(ioQ, "send"))
         /\ SendsFirst(ioQ) => SendsFirst(ioQ')
         /\ ioQ # <<>> => ioQ' # <<>> /\ Head(ioQ') = Head(ioQ)
<1>1. Op("destroyed") \in Entries /\ Op("destroyed").op = "destroyed"
  BY OpIsEntry DEF OwningOps
<1>2. ioQ \in Seq(Entries)
  BY DEF ConnInv, Types, LoopTypes
<1> HIDE DEF Op
<1> QED
  BY <1>1, <1>2, AppendedOps, Appended

LEMMA RemoveConnectionReclaims ==
  ASSUME ChanInv, ConnInv', RemoveConnectionInLoop PROVE ChanInv'
<1>1. /\ HasOp(ioQ', "destroyed") /\ (HasOp(ioQ', "send") => HasOp(ioQ, "send"))
      /\ SendsFirst(ioQ) => SendsFirst(ioQ')
  BY DestroyQueued DEF RemoveConnectionInLoop, ChanInv
<1>2. serverUp /\ state \notin {"kConnecting", "kConnected"}
  BY DEF RemoveConnectionInLoop, ChanInv, InOrder
<1>3. ups = 1 /\ created
  BY <1>2, InUse DEF ChanInv, ConnInv
<1>4. UNCHANGED <<channelVars, state, created, serverUp, ioUp, revents, inUser, upc, wrClosed,
                  ups, shutBy, revived>> /\ ~held'
  BY DEF RemoveConnectionInLoop, histVars
<1>5. Known'
  BY <1>4 DEF ChanInv, Known, channelVars
<1>6. InOrder'
  BY <1>2, <1>3, <1>4 DEF ChanInv, InOrder, channelVars
<1>7. Closing'
  BY <1>1, <1>4 DEF ChanInv, Closing, channelVars
<1>8. Reclaimed'
  BY <1>1 DEF Reclaimed
<1> QED
  BY <1>5, <1>6, <1>7, <1>8 DEF ChanInv

LEMMA DestroyServerReclaims ==
  ASSUME ChanInv, ConnInv', DestroyServer PROVE ChanInv'
<1>1. /\ held => ioQ' = Append(ioQ, Op("destroyed"))
      /\ ~held => ioQ' = ioQ
      /\ UNCHANGED <<channelVars, state, created, ioUp, baseQ, revents, inUser, upc, wrClosed,
                     ups, shutBy, revived>>
      /\ serverUp /\ ~serverUp' /\ ~held'
  BY DEF DestroyServer, histVars, ChanInv, ConnInv, Types, ObjectTypes
<1>2. held => /\ HasOp(ioQ', "destroyed")
              /\ ioQ # <<>> => ioQ' # <<>> /\ Head(ioQ') = Head(ioQ)
  BY <1>1, DestroyQueued DEF ChanInv
<1>3. ioUp
  BY <1>1 DEF ChanInv, Known
<1>4. Known'
  BY <1>1, <1>3 DEF ChanInv, Known, channelVars
<1>5. InOrder'
  BY <1>1, <1>2, <1>3 DEF ChanInv, InOrder, channelVars
<1>6. Closing'
  BY <1>1 DEF ChanInv, Closing, channelVars
<1>7. Reclaimed'
  BY <1>1, <1>2 DEF ChanInv, Reclaimed, channelVars
<1> QED
  BY <1>4, <1>5, <1>6, <1>7 DEF ChanInv

LEMMA StopIoLoopReclaims ==
  ASSUME ChanInv, ConnInv', StopIoLoop PROVE ChanInv'
<1>1. Known'
  BY DEF StopIoLoop, Known, CtlDel, Idle
<1>2. InOrder'
  BY DEF StopIoLoop, ChanInv, InOrder, histVars
<1>3. Closing'
  BY DEF StopIoLoop, ChanInv, Closing, histVars
<1>4. Reclaimed'
  BY DEF StopIoLoop, Reclaimed
<1> QED
  BY <1>1, <1>2, <1>3, <1>4 DEF ChanInv

LEMMA PoppedReclaims ==
  ASSUME ChanInv, NEW o, RunsFunctor(o)
  PROVE  /\ ioUp /\ ~inUser /\ revents = {} /\ created
         /\ HasOp(ioQ, o) /\ (o # "established" => ups = 1)
         /\ \A p : p # o => (HasOp(Tail(ioQ), p) <=> HasOp(ioQ, p))
         /\ \A p : HasOp(Tail(ioQ), p) => HasOp(ioQ, p)
         /\ SendsFirst(ioQ) => SendsFirst(Tail(ioQ))
         /\ o = "destroyed" /\ SendsFirst(ioQ) => ~HasOp(Tail(ioQ), "send")
         /\ o # "destroyed" => Later(ioQ, Tail(ioQ))
<1>1. ioQ \in Seq(Entries) /\ ioQ # <<>> /\ Head(ioQ).op = o
  BY Popped DEF ChanInv
<1>2. o # "established" => ups = 1
  BY <1>1 DEF ChanInv, InOrder, ConnInv, Young
<1>3. created
  BY <1>1 DEF ChanInv, InOrder
<1>4. ioUp /\ ~inUser /\ revents = {}
  BY DEF RunsFunctor, Between, ChanInv, ConnInv, Types, ObjectTypes
<1> QED
  BY <1>1, <1>2, <1>3, <1>4, TailOps

LEMMA ConnectEstablishedReclaims ==
  ASSUME ChanInv, ConnInv', ConnectEstablished PROVE ChanInv'
<1>1. /\ ups = 0 /\ created /\ ioUp /\ ~shutBy /\ state = "kConnecting" /\ events = {}
      /\ HasOp(ioQ', "destroyed") <=> HasOp(ioQ, "destroyed")
  BY Popped, PoppedReclaims DEF ConnectEstablished, Untouched, ChanInv, InOrder
<1>2. /\ UNCHANGED <<created, held, serverUp, ioUp, baseQ, revents, upc, shutBy, revived>>
      /\ state' = "kConnected" /\ ups' = 1 /\ inUser'
  BY <1>1 DEF ConnectEstablished, serverVars
<1>3. (registered' <=> index' = "kAdded") /\ inMap' /\ index' # "kNew"
  <2>1. UpdateChannel({"read"}) /\ ChannelTypeOK
    BY <1>1 DEF ConnectEstablished, EnableReading, ChanInv, ConnInv, Types, ObjectTypes
  <2> QED
    BY <1>1, <2>1, UpdateKnown DEF ChanInv
<1>4. Known'
  BY <1>1, <1>2, <1>3 DEF Known
<1>5. InOrder'
  BY <1>1, <1>2, <1>3 DEF ChanInv, InOrder
<1>6. Closing'
  BY <1>1, <1>2 DEF ChanInv, Closing
<1>7. Reclaimed'
  BY <1>1, <1>2 DEF ChanInv, Reclaimed
<1> QED
  BY <1>4, <1>5, <1>6, <1>7 DEF ChanInv

LEMMA ConnectDestroyedReclaims ==
  ASSUME ChanInv, ConnInv', ConnectDestroyed PROVE ChanInv'
<1>1. /\ ioUp /\ ~inUser /\ revents = {} /\ ups = 1 /\ created
      /\ HasOp(ioQ', "send") => HasOp(ioQ, "send")
      /\ SendsFirst(ioQ) => SendsFirst(ioQ') /\ ~HasOp(ioQ', "send")
  BY PoppedReclaims DEF ConnectDestroyed
<1>2. UNCHANGED <<created, held, serverUp, ioUp, baseQ, revents, inUser, upc, ups, wrClosed,
                  shutBy, revived>>
  BY DEF ConnectDestroyed, serverVars
<1>3. PICK ev \in {{}, events} :
        /\ RemoveChannel(ev)
        /\ \/ state' = "kDisconnected"
           \/ ev = events /\ state' = state /\ state # "kConnected"
  BY DEF ConnectDestroyed
<1>4. index' = "kNew" /\ ~registered' /\ ~inMap' /\ events' = ev
  BY <1>1, <1>3 DEF RemoveChannel, CtlDel, ChanInv, Known, ConnInv, Types, ObjectTypes,
     ChannelTypeOK
<1>5. Known'
  BY <1>1, <1>2, <1>4 DEF Known
<1>6. InOrder'
  BY <1>1, <1>2, <1>3, <1>4 DEF ChanInv, InOrder
<1>7. Closing'
  BY <1>1, <1>2, <1>3, <1>4 DEF ChanInv, Closing
<1>8. Reclaimed'
  BY <1>1, <1>2, <1>4 DEF Reclaimed
<1> QED
  BY <1>5, <1>6, <1>7, <1>8 DEF ChanInv

LEMMA RunSendReclaims ==
  ASSUME ChanInv, ConnInv', RunSend
  PROVE  ChanInv' /\ (index = "kNew" => registered' = registered \/ (shutBy /\ ~serverUp))
<1>1. ioUp /\ ups = 1 /\ created /\ HasOp(ioQ, "send") /\ Later(ioQ, Tail(ioQ))
  BY PoppedReclaims DEF RunSend
<1>2. Tail(ioQ) \in Seq(Entries)
  BY Popped DEF RunSend, ChanInv
<1>3. PICK m \in {Head(ioQ).msg, Garbage} : SendInLoop(Bytes(m), Tail(ioQ))
  BY DEF RunSend
<1>4. UNCHANGED <<state, serverVars, revents, inUser, upc, wrClosed, histVars>>
  BY DEF RunSend
<1> QED
  BY <1>1, <1>2, <1>3, <1>4, SendReclaims

LEMMA RunOtherReclaims ==
  ASSUME ChanInv, ConnInv', RunShutdown \/ RunNotification PROVE ChanInv'
<1>1. PICK o \in {"shutdown", "writeComplete", "highWater"} : RunsFunctor(o) /\ ioQ' = Tail(ioQ)
  BY DEF RunShutdown, RunNotification
<1>2. ups = 1 /\ created /\ ~inUser /\ revents = {} /\ Later(ioQ, ioQ')
  BY <1>1, PoppedReclaims
<1>3. UNCHANGED <<channelVars, state, created, held, serverUp, ioUp, baseQ, upc, ups,
                  shutBy, revived, inUser, revents>>
  BY DEF RunShutdown, RunNotification, serverVars, histVars
<1>4. wrClosed => wrClosed'
  <2>1. CASE RunShutdown
    BY <2>1 DEF RunShutdown, ShutdownInLoop
  <2>2. CASE RunNotification
    BY <2>2 DEF RunNotification
  <2> QED
    BY <2>1, <2>2
<1> QED
  BY <1>2, <1>3, <1>4, FrameReclaims

LEMMA UserSendReclaims ==
  ASSUME ChanInv, ConnInv', UserSend
  PROVE  ChanInv' /\ (index = "kNew" => registered' = registered \/ (shutBy /\ ~serverUp))
<1>1. ups = 1 /\ created /\ inUser /\ ioUp
  BY InUse DEF UserSend, ChanInv, ConnInv, Known
<1>2. PICK m \in unsent \cap LoopMsgs :
        IF state = "kConnected"
        THEN SendInLoop(Bytes(m), ioQ)
        ELSE UNCHANGED <<channelVars, ioQ, outBuf, wire, accepted, sockErr>>
  BY DEF UserSend
<1>3. UNCHANGED <<state, serverVars, revents, inUser, upc, wrClosed, histVars>>
  BY DEF UserSend
<1>4. ioQ \in Seq(Entries) /\ Later(ioQ, ioQ)
  BY LaterSelf DEF ChanInv, ConnInv, Types, LoopTypes
<1>5. CASE state = "kConnected"
  <2>1. SendInLoop(Bytes(m), ioQ)
    BY <1>2, <1>5
  <2> QED
    BY <1>1, <1>3, <1>4, <1>5, <2>1, SendReclaims
<1>6. CASE state # "kConnected"
  <2>1. UNCHANGED <<channelVars, ioQ>>
    BY <1>2, <1>6
  <2>2. UNCHANGED <<created, held, serverUp, ioUp, baseQ, ups, shutBy, revived>>
    BY <1>3 DEF serverVars, histVars
  <2>3. (revents' # {} => ioUp /\ index # "kNew") /\ registered' = registered
    BY <1>1, <1>3, <2>1 DEF ChanInv, Known, channelVars
  <2> QED
    BY <1>1, <1>3, <1>4, <2>1, <2>2, <2>3, FrameReclaims
<1> QED
  BY <1>5, <1>6

LEMMA UserOtherReclaims ==
  ASSUME ChanInv, ConnInv', UserShutdown \/ UserReturn PROVE ChanInv'
<1>1. UNCHANGED <<channelVars, created, held, serverUp, ioUp, baseQ, ioQ, upc, ups, shutBy,
                  revived, revents>>
  BY DEF UserShutdown, UserReturn, serverVars, histVars
<1>2. inUser /\ ioUp /\ (revents # {} => index # "kNew") /\ ups = 1
  BY InUse DEF UserShutdown, UserReturn, ChanInv, ConnInv, Known
<1>3. CASE UserShutdown
  <2>1. /\ state = "kConnected" /\ state' = "kDisconnecting" /\ inUser' = inUser
        /\ wrClosed' = (wrClosed \/ "write" \notin events)
    BY <1>3 DEF UserShutdown, ShutdownInLoop
  <2>2. Known'
    BY <1>1, <2>1 DEF ChanInv, Known, channelVars
  <2>3. InOrder'
    BY <1>1, <2>1 DEF ChanInv, InOrder, channelVars
  <2>4. Closing'
    BY <1>1, <2>1 DEF ChanInv, Closing, channelVars
  <2>5. Reclaimed'
    BY <1>1 DEF ChanInv, Reclaimed, channelVars
  <2> QED
    BY <2>2, <2>3, <2>4, <2>5 DEF ChanInv
<1>4. CASE UserReturn
  <2>1. UNCHANGED <<state, wrClosed>> /\ ~inUser'
    BY <1>4 DEF UserReturn
  <2>2. (wrClosed => wrClosed') /\ (revents' # {} => ioUp /\ index # "kNew") /\ Later(ioQ, ioQ')
    BY <1>1, <1>2, <2>1, LaterSelf
  <2>3. UNCHANGED <<channelVars, state, created, held, serverUp, ioUp, baseQ, upc, ups, shutBy,
                    revived>> /\ ioQ' = ioQ
    BY <1>1, <2>1
  <2> QED
    BY <2>1, <2>2, <2>3, FrameReclaims
<1> QED
  BY <1>3, <1>4

LEMMA PollReclaims ==
  ASSUME ChanInv, ConnInv', PollConnection PROVE ChanInv'
<1>1. UNCHANGED <<channelVars, state, created, held, serverUp, ioUp, baseQ, ioQ, upc, ups,
                  shutBy, revived, inUser, wrClosed>> /\ ioUp /\ registered
  BY DEF PollConnection, Between, serverVars, histVars
<1>2. index # "kNew"
  BY <1>1 DEF ChanInv, Known
<1>3. (wrClosed => wrClosed') /\ Later(ioQ, ioQ')
  BY <1>1, LaterSelf
<1> QED
  BY <1>1, <1>2, <1>3, FrameReclaims

\* A dispatched event finds the channel in the poller.
LEMMA Dispatched ==
  ASSUME ChanInv, revents # {}
  PROVE  ioUp /\ ups = 1 /\ created /\ index # "kNew"
BY InUse DEF ChanInv, ConnInv, Known

LEMMA CloseReclaims ==
  ASSUME ChanInv, ConnInv', revents # {}, Close,
         UNCHANGED <<created, held, serverUp, ioUp, ioQ, inUser, upc, ups, wrClosed, shutBy, revived>>
  PROVE  ChanInv'
<1>1. ioUp /\ ups = 1 /\ created /\ index # "kNew"
  BY Dispatched
<1>2. (registered' <=> index' = "kAdded") /\ inMap' /\ index' # "kNew"
  <2>1. UpdateChannel({}) /\ ChannelTypeOK
    BY DEF Close, DisableAll, ChanInv, ConnInv, Types, ObjectTypes
  <2> QED
    BY <1>1, <2>1, UpdateKnown DEF ChanInv
<1>3. state' = "kDisconnected" /\ baseQ' # <<>>
  BY DEF Close, ChanInv, ConnInv, Types, LoopTypes
<1>4. Known'
  BY <1>1, <1>2 DEF ChanInv, Known
<1>5. InOrder'
  BY <1>1, <1>2, <1>3 DEF ChanInv, InOrder
<1>6. Closing'
  BY <1>2, <1>3 DEF ChanInv, Closing
<1>7. Reclaimed'
  BY <1>3 DEF Reclaimed
<1> QED
  BY <1>4, <1>5, <1>6, <1>7 DEF ChanInv

LEMMA EventReclaims ==
  ASSUME ChanInv, ConnInv', CloseCallback \/ ErrorCallback \/ ReadCallback PROVE ChanInv'
<1>1. /\ revents # {}
      /\ UNCHANGED <<created, held, serverUp, ioUp, ioQ, upc, ups, wrClosed, shutBy, revived>>
  BY DEF CloseCallback, ErrorCallback, ReadCallback, Dispatching, serverVars, histVars
<1>2. ioUp /\ ups = 1 /\ created /\ index # "kNew"
  BY <1>1, Dispatched
<1>3. \/ Close /\ inUser' = inUser
      \/ UNCHANGED <<channelVars, state, baseQ>>
  BY DEF CloseCallback, ErrorCallback, ReadCallback, serverVars
<1>4. CASE Close /\ inUser' = inUser
  BY <1>1, <1>4, CloseReclaims
<1>5. CASE UNCHANGED <<channelVars, state, baseQ>>
  BY <1>1, <1>2, <1>5, LaterSelf, FrameReclaims
<1> QED
  BY <1>3, <1>4, <1>5

LEMMA WriteCallbackReclaims ==
  ASSUME ChanInv, ConnInv', WriteCallback PROVE ChanInv'
<1>1. /\ revents # {}
      /\ UNCHANGED <<state, created, held, serverUp, ioUp, baseQ, inUser, upc, ups, shutBy,
                     revived>>
  BY DEF WriteCallback, Dispatching, serverVars, histVars
<1>2. ioUp /\ ups = 1 /\ created /\ index # "kNew"
  BY <1>1, Dispatched
<1>3. AfterDrain \/ UNCHANGED <<channelVars, ioQ, wrClosed>>
  BY DEF WriteCallback
<1>4. CASE UNCHANGED <<channelVars, ioQ, wrClosed>>
  BY <1>1, <1>2, <1>4, LaterSelf, FrameReclaims
<1>5. CASE AfterDrain
  <2>1. Later(ioQ, ioQ')
    BY <1>5, ToldLater DEF AfterDrain, ChanInv, ConnInv, Types, LoopTypes
  <2>2. (registered' <=> index' = "kAdded") /\ inMap' /\ index' # "kNew"
    <3>1. /\ UpdateChannel(events \ {"write"}) /\ ChannelTypeOK
          /\ events \ {"write"} \in SUBSET {"read", "write"}
      BY <1>5 DEF AfterDrain, DisableWriting, ChanInv, ConnInv, Types, ObjectTypes, ChannelTypeOK
    <3> QED
      BY <1>2, <3>1, UpdateKnown DEF ChanInv
  <2>3. wrClosed' = (wrClosed \/ state = "kDisconnecting")
    BY <1>5 DEF AfterDrain
  <2>4. Known'
    BY <1>1, <1>2, <2>2 DEF ChanInv, Known
  <2>5. InOrder'
    BY <1>1, <1>2, <2>1, <2>2 DEF ChanInv, InOrder, Later
  <2>6. Closing'
    BY <1>1, <2>1, <2>2, <2>3 DEF ChanInv, Closing, Later
  <2>7. Reclaimed'
    BY <1>1, <1>2, <2>1 DEF ChanInv, Reclaimed, Later
  <2> QED
    BY <2>4, <2>5, <2>6, <2>7 DEF ChanInv
<1> QED
  BY <1>3, <1>4, <1>5

LEMMA ForeignReclaims ==
  ASSUME ChanInv, ConnInv', Foreign PROVE ChanInv'
<1>1. /\ UNCHANGED <<channelVars, created, held, serverUp, ioUp, baseQ, revents, inUser, ups,
                     wrClosed>>
      /\ ups = 1 /\ created /\ ioQ \in Seq(Entries)
      /\ upc.at = "send" => upc.msg \in Msgs
  <2>1. UNCHANGED <<channelVars, created, held, serverUp, ioUp, baseQ, revents, inUser, ups,
                    wrClosed>>
    BY DEF Foreign, ForeignSend, ForeignSendQueue, ForeignShutdownTest, ForeignShutdownStore,
           ForeignShutdownQueue, DropRef, serverVars, histVars
  <2>2. upc.at # "idle" \/ userRef
    BY DEF Foreign, ForeignSend, ForeignSendQueue, ForeignShutdownTest, ForeignShutdownStore,
           ForeignShutdownQueue, DropRef
  <2> QED
    BY <2>1, <2>2, InUse DEF ChanInv, ConnInv, Types, LoopTypes
<1>2. CASE ForeignSend
  <2>1. /\ ~shutBy /\ upc'.at = "send" /\ UNCHANGED <<state, ioQ, shutBy, revived>>
    BY <1>2 DEF ForeignSend, ChanInv, Closing, histVars
  <2>2. Known'
    BY <1>1, <1>2 DEF ForeignSend, ChanInv, Known, channelVars
  <2>3. InOrder' /\ Reclaimed'
    BY <1>1, <2>1 DEF ChanInv, InOrder, Reclaimed, channelVars
  <2>4. Closing'
    BY <1>1, <2>1 DEF ChanInv, Closing, channelVars
  <2> QED
    BY <2>2, <2>3, <2>4 DEF ChanInv
<1>3. CASE ForeignSendQueue
  <2>1. /\ ~shutBy /\ upc'.at = "idle" /\ UNCHANGED <<state, shutBy, revived>>
        /\ ioQ' = Append(ioQ, SendOp(upc.msg)) /\ upc.msg \in Msgs
    BY <1>1, <1>3 DEF ForeignSendQueue, ChanInv, Closing, histVars, Idle
  <2>2. SendOp(upc.msg) \in Entries /\ SendOp(upc.msg).op = "send"
    BY <2>1, SendIsEntry
  <2> HIDE DEF SendOp
  <2>3. HasOp(ioQ', "destroyed") <=> HasOp(ioQ, "destroyed")
    BY <1>1, <2>1, <2>2, AppendedOps
  <2>4. Known'
    BY <1>1, <2>1 DEF ChanInv, Known, channelVars
  <2>5. InOrder' /\ Reclaimed'
    BY <1>1, <2>1, <2>3 DEF ChanInv, InOrder, Reclaimed, channelVars
  <2>6. Closing'
    BY <1>1, <2>1 DEF ChanInv, Closing, channelVars
  <2> QED
    BY <2>4, <2>5, <2>6 DEF ChanInv
<1>4. CASE ForeignShutdownTest
  <2>1. /\ upc'.at = "store" /\ shutBy' /\ UNCHANGED <<state, ioQ, revived>>
        /\ ioUp /\ state = "kConnected"
    BY <1>4 DEF ForeignShutdownTest
  <2>2. serverUp => SendsFirst(ioQ)
    BY <2>1 DEF ChanInv, InOrder, HasOp, SendsFirst
  <2>3. Known'
    BY <1>1, <2>1 DEF ChanInv, Known, channelVars
  <2>4. InOrder' /\ Reclaimed'
    BY <1>1, <2>1 DEF ChanInv, InOrder, Reclaimed, channelVars
  <2>5. Closing'
    BY <1>1, <2>1, <2>2 DEF ChanInv, InOrder, Closing, channelVars
  <2> QED
    BY <2>3, <2>4, <2>5 DEF ChanInv
<1>5. CASE ForeignShutdownStore
  <2>1. /\ shutBy /\ shutBy' /\ upc'.at = "queue" /\ state' = "kDisconnecting" /\ ioQ' = ioQ
    BY <1>5 DEF ForeignShutdownStore, ChanInv, Closing
  <2>2. Known'
    BY <1>1, <1>5 DEF ForeignShutdownStore, ChanInv, Known, channelVars
  <2>3. InOrder' /\ Reclaimed'
    BY <1>1, <2>1 DEF ChanInv, InOrder, Reclaimed, channelVars
  <2>4. Closing'
    BY <1>1, <2>1 DEF ChanInv, Closing, channelVars
  <2> QED
    BY <2>2, <2>3, <2>4 DEF ChanInv
<1>6. CASE ForeignShutdownQueue
  <2>1. /\ upc.at = "queue" /\ upc'.at = "idle" /\ UNCHANGED <<state, shutBy, revived>>
        /\ ioQ' = Append(ioQ, Op("shutdown"))
    BY <1>6 DEF ForeignShutdownQueue, histVars, Idle
  <2>2. Op("shutdown") \in Entries /\ Op("shutdown").op = "shutdown"
    BY OpIsEntry
  <2> HIDE DEF Op
  <2>3. Later(ioQ, ioQ')
    BY <1>1, <2>1, <2>2, AppendedOps DEF Later
  <2>4. Known'
    BY <1>1, <2>1 DEF ChanInv, Known, channelVars
  <2>5. InOrder' /\ Reclaimed'
    BY <1>1, <2>1, <2>3 DEF ChanInv, InOrder, Reclaimed, Later, channelVars
  <2>6. Closing'
    BY <1>1, <2>1, <2>3 DEF ChanInv, Closing, Later, channelVars
  <2> QED
    BY <2>4, <2>5, <2>6 DEF ChanInv
<1>7. CASE DropRef
  <2>1. UNCHANGED <<state, ioQ, upc, shutBy, revived>>
    BY <1>7 DEF DropRef, histVars
  <2>2. /\ revents' # {} => ioUp /\ index # "kNew"
        /\ inUser' => ioUp
        /\ wrClosed => wrClosed'
    BY <1>1, Dispatched DEF ChanInv, Known
  <2>3. Later(ioQ, ioQ')
    BY <2>1, LaterSelf
  <2> QED
    BY <1>1, <2>1, <2>2, <2>3, FrameReclaims
<1> QED
  BY <1>2, <1>3, <1>4, <1>5, <1>6, <1>7 DEF Foreign

\* Steps that touch neither the channel nor what decides its life.
LEMMA IdleReclaims ==
  ASSUME ChanInv, ConnInv',
         UNCHANGED <<channelVars, state, created, held, serverUp, ioUp, baseQ, ioQ, upc, ups,
                     wrClosed, shutBy, revived, inUser, revents>>
  PROVE  ChanInv'
<1>1. Later(ioQ, ioQ')
  BY LaterSelf
<1>2. /\ revents' # {} => ioUp /\ index # "kNew"
      /\ inUser' => ioUp
      /\ wrClosed => wrClosed'
  BY Dispatched DEF ChanInv, Known
<1>3. UNCHANGED <<channelVars, state, created, held, serverUp, ioUp, baseQ, upc, ups, shutBy,
                  revived>> /\ ioQ' = ioQ
  OBVIOUS
<1> QED
  BY <1>1, <1>2, <1>3, FrameReclaims

LEMMA NextReclaims == ChanInv /\ [Next]_vars => ChanInv'
<1> SUFFICES ASSUME ChanInv, [Next]_vars PROVE ChanInv'
  OBVIOUS
<1>0. ConnInv'
  BY NextInv DEF ChanInv
<1>1. CASE BaseLoop
  BY <1>0, <1>1, NewConnectionReclaims, RemoveConnectionReclaims, DestroyServerReclaims,
     StopIoLoopReclaims DEF BaseLoop
<1>2. CASE Functor
  BY <1>0, <1>2, ConnectEstablishedReclaims, ConnectDestroyedReclaims, RunSendReclaims,
     RunOtherReclaims DEF Functor
<1>3. CASE PollConnection
  BY <1>0, <1>3, PollReclaims
<1>4. CASE Event
  BY <1>0, <1>4, EventReclaims, WriteCallbackReclaims DEF Event
<1>5. CASE UserCode
  BY <1>0, <1>5, UserSendReclaims, UserOtherReclaims DEF UserCode
<1>6. CASE Foreign
  BY <1>0, <1>6, ForeignReclaims
<1>7. CASE Peer \/ UNCHANGED vars
  <2>1. UNCHANGED <<channelVars, state, created, held, serverUp, ioUp, baseQ, ioQ, upc, ups,
                    wrClosed, shutBy, revived, inUser, revents>>
    BY <1>7 DEF Peer, PeerSends, PeerCloses, PeerResets, serverVars, histVars, vars, connVars
  <2> QED
    BY <1>0, <2>1, IdleReclaims
<1> QED
  BY <1>1, <1>2, <1>3, <1>4, <1>5, <1>6, <1>7 DEF Next

LEMMA ChannelInvariance == Spec => []ChanInv
<1>1. Init => ChanInv
  <2>1. Init => Known /\ InOrder /\ Closing /\ Reclaimed
    BY DEF Init, ChannelInit, Known, InOrder, Closing, Reclaimed, HasOp, SendsFirst, Idle
  <2> QED
    BY <2>1, InitInv DEF ChanInv
<1> QED
  BY <1>1, NextReclaims, PTL DEF Spec

\* Whatever is sent and however the ways down race: a TcpConnection that is
\* freed has left the poller's map and the epoll set, and the poller's own
\* assertions hold (TcpConnection::handleClose and connectDestroyed,
\* TcpServer::removeConnection and ~TcpServer, EPollPoller::updateChannel and
\* removeChannel), but for a shutdown() on another thread that ~TcpServer
\* overtakes.
THEOREM NoChannelDangles == Spec => []NoDanglingChannel
<1>1. ASSUME ChanInv PROVE NoDanglingChannel
  <2>1. ioUp => (registered <=> index = "kAdded") /\ (index = "kDeleted" => inMap)
    BY <1>1 DEF ChanInv, Known
  <2>2. ASSUME ~Alive, inMap \/ registered PROVE shutBy /\ ~serverUp
    <3>1. ioUp /\ index # "kNew"
      BY <1>1, <2>2 DEF ChanInv, Known
    <3>2. created
      BY <1>1, <3>1, InUse DEF ChanInv, ConnInv, Young, InOrder
    <3>3. ~held /\ baseQ = <<>> /\ QueuedOps \cap OwningOps = {}
      BY <2>2, <3>2 DEF Alive
    <3>4. ~HasOp(ioQ, "destroyed")
      BY <3>3 DEF QueuedOps, OwningOps, HasOp
    <3> QED
      BY <1>1, <3>1, <3>2, <3>3, <3>4 DEF ChanInv, Reclaimed
  <2> QED
    BY <2>1, <2>2 DEF NoDanglingChannel
<1> QED
  BY <1>1, ChannelInvariance, PTL

\* Whatever is sent and however the ways down race: sendInLoop does not register
\* a channel that connectDestroyed has removed, unless another thread has called
\* shutdown() and the server is gone.
THEOREM RemovedChannelsStayRemoved == Spec => RemovedStaysRemoved
<1>1. ASSUME ChanInv, [Next]_vars, ioUp, index = "kNew", state # "kConnecting"
      PROVE  ~registered' \/ (shutBy /\ ~serverUp)
  <2>0. ConnInv' /\ ~registered
    BY <1>1, NextInv DEF ChanInv, Known
  <2>1. CASE registered' = registered
    BY <2>0, <2>1
  <2>2. CASE RunSend \/ UserSend
    BY <1>1, <2>0, <2>2, RunSendReclaims, UserSendReclaims
  <2>3. CASE ConnectEstablished
    BY <1>1, <2>3, Popped DEF ConnectEstablished, ChanInv, Untouched
  <2>4. CASE ConnectDestroyed
    BY <1>1, <2>0, <2>4 DEF ConnectDestroyed, RemoveChannel
  <2>5. CASE Event
    BY <1>1, <2>5, Dispatched DEF Event, CloseCallback, ErrorCallback, ReadCallback,
       WriteCallback, Dispatching
  <2>6. CASE StopIoLoop
    BY <2>6 DEF StopIoLoop, CtlDel
  <2>7. ASSUME \/ NewConnection \/ RemoveConnectionInLoop \/ DestroyServer \/ RunShutdown
               \/ RunNotification \/ PollConnection \/ UserShutdown \/ UserReturn \/ Foreign
               \/ Peer \/ UNCHANGED vars
        PROVE  registered' = registered
    BY <2>7 DEF NewConnection, RemoveConnectionInLoop, DestroyServer, RunShutdown,
       RunNotification, PollConnection, UserShutdown, UserReturn, Foreign, ForeignSend,
       ForeignSendQueue, ForeignShutdownTest, ForeignShutdownStore, ForeignShutdownQueue, DropRef,
       Peer, PeerSends, PeerCloses, PeerResets, vars, channelVars
  <2> QED
    BY <1>1, <2>1, <2>2, <2>3, <2>4, <2>5, <2>6, <2>7 DEF Next, BaseLoop, Functor, UserCode
<1>2. ChanInv /\ [Next]_vars =>
        [ioUp /\ index = "kNew" /\ state # "kConnecting" => ~registered' \/ (shutBy /\ ~serverUp)]_vars
  BY <1>1
<1> QED
  BY <1>2, ChannelInvariance, PTL DEF Spec, RemovedStaysRemoved

-----------------------------------------------------------------------------
(* What is still to come: a shutdown() and a removal are not forgotten.    *)

\* A shutdown() that has not closed the write side yet is still to be queued,
\* is queued, or is left to handleWrite.
Promised ==
  ioUp /\ state = "kDisconnecting" =>
    wrClosed \/ "write" \in events \/ upc.at = "queue" \/ HasOp(ioQ, "shutdown")

\* Each stage of a connection's life leads to the next: to be established, to
\* read, to be removed by the base loop and by the I/O loop.
Removal ==
  /\ created /\ serverUp /\ ups = 0 => held
  /\ serverUp /\ held => ~HasOp(ioQ, "destroyed")
  /\ created /\ serverUp =>
       IF held
       THEN baseQ # <<>> \/ HasOp(ioQ, "established") \/ ("read" \in events /\ index = "kAdded")
       ELSE HasOp(ioQ, "destroyed") \/ index = "kNew"

LifeInv == ChanInv /\ Promised /\ Removal

\* r has the functors of q that matter here, and asks for no other removal.
Keeps(q, r) ==
  /\ \A o \in {"established", "shutdown"} : HasOp(q, o) => HasOp(r, o)
  /\ HasOp(q, "destroyed") <=> HasOp(r, "destroyed")

\* Steps between those stages.
LEMMA FrameLives ==
  ASSUME LifeInv, UNCHANGED <<events, index, state, held, created, serverUp, ioUp, baseQ, ups>>,
         wrClosed => wrClosed',
         upc.at = "queue" => upc'.at = "queue" \/ HasOp(ioQ', "shutdown"),
         Keeps(ioQ, ioQ')
  PROVE  Promised' /\ Removal'
<1>1. Promised'
  BY DEF LifeInv, Promised, Keeps
<1>2. Removal'
  BY DEF LifeInv, Removal, Keeps
<1> QED
  BY <1>1, <1>2

LEMMA AppendKeeps ==
  ASSUME NEW q \in Seq(Entries), NEW e \in Entries, e.op # "destroyed"
  PROVE  Keeps(q, Append(q, e))
BY AppendedOps DEF Keeps

LEMMA ToldKeeps ==
  ASSUME NEW q \in Seq(Entries), NEW o \in {"writeComplete", "highWater"}
  PROVE  Keeps(q, Append(q, Op(o)))
<1>1. Op(o) \in Entries /\ Op(o).op # "destroyed"
  BY OpIsEntry DEF OwningOps
<1> HIDE DEF Op
<1> QED
  BY <1>1, AppendKeeps

LEMMA NewConnectionLives ==
  ASSUME LifeInv, NewConnection PROVE Promised' /\ Removal'
<1>1. Op("established") \in Entries /\ Op("established").op = "established"
  BY OpIsEntry DEF OwningOps
<1>2. ioQ \in Seq(Entries) /\ ioQ' = Append(ioQ, Op("established"))
  BY DEF NewConnection, LifeInv, ChanInv, ConnInv, Types, LoopTypes
<1>3. ioQ = <<>> /\ state = "kConnecting" /\ state' = state /\ held'
  BY DEF NewConnection, LifeInv, ChanInv, ConnInv, Young, InOrder, Untouched
<1> HIDE DEF Op
<1>4. HasOp(ioQ', "established") /\ ~HasOp(ioQ', "destroyed")
  BY <1>1, <1>2, <1>3, AppendedOps DEF HasOp
<1> QED
  BY <1>3, <1>4 DEF Promised, Removal

LEMMA RemoveConnectionLives ==
  ASSUME LifeInv, RemoveConnectionInLoop PROVE Promised' /\ Removal'
<1>1. HasOp(ioQ', "destroyed")
  BY DestroyQueued DEF RemoveConnectionInLoop, LifeInv, ChanInv
<1>2. ups = 1
  BY InUse DEF RemoveConnectionInLoop, LifeInv, ChanInv, ConnInv, InOrder
<1>3. UNCHANGED <<events, state, ioUp, upc, wrClosed, ups>> /\ ~held'
  BY DEF RemoveConnectionInLoop, channelVars, histVars
<1>4. HasOp(ioQ, "shutdown") => HasOp(ioQ', "shutdown")
  <2>1. Op("destroyed") \in Entries /\ ioQ \in Seq(Entries) /\ ioQ' = Append(ioQ, Op("destroyed"))
    BY OpIsEntry DEF OwningOps, RemoveConnectionInLoop, LifeInv, ChanInv, ConnInv, Types, LoopTypes
  <2> HIDE DEF Op
  <2> QED
    BY <2>1, AppendedOps
<1>5. Promised'
  BY <1>3, <1>4 DEF LifeInv, Promised
<1>6. Removal'
  BY <1>1, <1>2, <1>3 DEF Removal
<1> QED
  BY <1>5, <1>6

LEMMA DestroyServerLives ==
  ASSUME LifeInv, DestroyServer PROVE Promised' /\ Removal'
<1>1. HasOp(ioQ, "shutdown") => HasOp(ioQ', "shutdown")
  <2>1. Op("destroyed") \in Entries /\ ioQ \in Seq(Entries)
    BY OpIsEntry DEF OwningOps, LifeInv, ChanInv, ConnInv, Types, LoopTypes
  <2>2. ioQ' = ioQ \/ ioQ' = Append(ioQ, Op("destroyed"))
    BY DEF DestroyServer
  <2> HIDE DEF Op
  <2> QED
    BY <2>1, <2>2, AppendedOps
<1>2. UNCHANGED <<events, state, ioUp, upc, wrClosed>> /\ ~serverUp'
  BY DEF DestroyServer, channelVars
<1> QED
  BY <1>1, <1>2 DEF LifeInv, Promised, Removal

LEMMA StopIoLoopLives ==
  ASSUME LifeInv, StopIoLoop PROVE Promised' /\ Removal'
BY DEF StopIoLoop, Promised, Removal

\* Running a functor takes that one off the queue.
LEMMA PoppedKeeps ==
  ASSUME LifeInv, NEW o, RunsFunctor(o)
  PROVE  /\ ups = 1 \/ o = "established"
         /\ \A p : p # o => (HasOp(Tail(ioQ), p) <=> HasOp(ioQ, p))
         /\ HasOp(ioQ, o)
BY PoppedReclaims DEF LifeInv

LEMMA ConnectEstablishedLives ==
  ASSUME LifeInv, ConnectEstablished PROVE Promised' /\ Removal'
<1>1. ups = 0 /\ created /\ index = "kNew" /\ events = {} /\ ioQ' = Tail(ioQ)
  BY Popped DEF ConnectEstablished, LifeInv, ChanInv, InOrder, Untouched
<1>2. HasOp(ioQ', "destroyed") <=> HasOp(ioQ, "destroyed")
  BY <1>1, PoppedKeeps DEF ConnectEstablished
<1>3. /\ state' = "kConnected" /\ ups' = ups + 1
      /\ UNCHANGED <<created, held, serverUp>>
  BY DEF ConnectEstablished, serverVars
<1>4. "read" \in events' /\ index' = "kAdded"
  BY <1>1 DEF ConnectEstablished, EnableReading, UpdateChannel
<1>5. created /\ serverUp => held
  BY <1>1 DEF LifeInv, Removal
<1> QED
  BY <1>1, <1>2, <1>3, <1>4, <1>5 DEF LifeInv, Promised, Removal

\* connectDestroyed finds a connection that the server holds no more.
LEMMA ConnectDestroyedLives ==
  ASSUME LifeInv, ConnectDestroyed PROVE Promised' /\ Removal'
<1>1. /\ ups = 1 /\ HasOp(ioQ, "destroyed") /\ ioQ' = Tail(ioQ)
      /\ HasOp(ioQ', "shutdown") <=> HasOp(ioQ, "shutdown")
  BY PoppedKeeps DEF ConnectDestroyed
<1>2. UNCHANGED <<created, held, serverUp, ioUp, upc, ups, wrClosed>>
  BY DEF ConnectDestroyed, serverVars
<1>3. /\ index' = "kNew"
      /\ state' = "kDisconnected" \/ (state' = state /\ events' = events)
  BY DEF ConnectDestroyed, RemoveChannel
<1>4. serverUp => ~held
  BY <1>1 DEF LifeInv, Removal
<1>5. Promised'
  BY <1>1, <1>2, <1>3 DEF LifeInv, Promised
<1>6. Removal'
  BY <1>1, <1>2, <1>3, <1>4 DEF Removal
<1> QED
  BY <1>5, <1>6

\* What sendInLoop does to the queue and the channel.
LEMMA SendLives ==
  ASSUME LifeInv, ChanInv', ups = 1, NEW b, NEW q \in Seq(Entries), SendInLoop(b, q),
         Keeps(ioQ, q), index = "kNew" => registered' = registered \/ (shutBy /\ ~serverUp),
         UNCHANGED <<state, serverVars, upc, wrClosed, histVars>>
  PROVE  Promised' /\ Removal'
<1>1. Keeps(q, ioQ')
  <2>1. Keeps(q, q) /\ Keeps(q, Append(q, Op("writeComplete"))) /\ Keeps(q, Append(q, Op("highWater")))
    BY ToldKeeps DEF Keeps
  <2> HIDE DEF Op, Keeps
  <2>2. ioQ' \in {q, Append(q, Op("writeComplete")), Append(q, Op("highWater"))}
    BY DEF SendInLoop, WriteDirect, Buffer
  <2> QED
    BY <2>1, <2>2
<1>2. Keeps(ioQ, ioQ')
  BY <1>1 DEF Keeps
<1>3. UNCHANGED <<created, held, serverUp, ioUp, baseQ, ups>>
  BY DEF serverVars, histVars
<1>4. UNCHANGED channelVars \/ EnableWriting
  BY SendChannel DEF LifeInv, ChanInv
<1>5. CASE UNCHANGED channelVars
  BY <1>2, <1>3, <1>5, FrameLives DEF channelVars
<1>6. CASE EnableWriting
  <2>1. /\ events' = events \cup {"write"}
        /\ index = "kNew" => index' = "kAdded"
        /\ index = "kAdded" => index' = "kAdded"
    BY <1>6 DEF EnableWriting, UpdateChannel
  <2>2. index = "kNew" => ~serverUp
    <3>1. ASSUME index = "kNew", serverUp PROVE FALSE
      <4>1. ioUp /\ ~registered /\ ioUp'
        BY <1>3, <3>1 DEF LifeInv, ChanInv, Known
      <4>2. registered'
        BY <2>1, <3>1, <4>1 DEF ChanInv, Known
      <4> QED
        BY <3>1, <4>1, <4>2
    <3> QED
      BY <3>1
  <2>3. Promised'
    BY <1>2, <1>3, <2>1 DEF LifeInv, Promised, Keeps
  <2>4. Removal'
    BY <1>2, <1>3, <2>1, <2>2 DEF LifeInv, Removal, Keeps
  <2> QED
    BY <2>3, <2>4
<1> QED
  BY <1>4, <1>5, <1>6

LEMMA RunSendLives ==
  ASSUME LifeInv, ChanInv', RunSend PROVE Promised' /\ Removal'
<1>1. ups = 1 /\ Keeps(ioQ, Tail(ioQ))
  BY PoppedKeeps DEF RunSend, Keeps
<1>2. Tail(ioQ) \in Seq(Entries)
  BY Popped DEF RunSend, LifeInv, ChanInv
<1>3. PICK m \in {Head(ioQ).msg, Garbage} : SendInLoop(Bytes(m), Tail(ioQ))
  BY DEF RunSend
<1>4. UNCHANGED <<state, serverVars, upc, wrClosed, histVars>>
  BY DEF RunSend
<1>5. index = "kNew" => registered' = registered \/ (shutBy /\ ~serverUp)
  BY RunSendReclaims DEF LifeInv, ChanInv
<1> QED
  BY <1>1, <1>2, <1>3, <1>4, <1>5, SendLives

LEMMA UserSendLives ==
  ASSUME LifeInv, ChanInv', UserSend PROVE Promised' /\ Removal'
<1>1. ups = 1 /\ ioQ \in Seq(Entries) /\ Keeps(ioQ, ioQ)
  BY InUse DEF UserSend, LifeInv, ChanInv, ConnInv, Types, LoopTypes, Keeps
<1>2. UNCHANGED <<state, serverVars, upc, wrClosed, histVars>>
  BY DEF UserSend
<1>3. index = "kNew" => registered' = registered \/ (shutBy /\ ~serverUp)
  BY UserSendReclaims DEF LifeInv, ChanInv
<1>4. PICK m \in unsent \cap LoopMsgs :
        IF state = "kConnected"
        THEN SendInLoop(Bytes(m), ioQ)
        ELSE UNCHANGED <<channelVars, ioQ, outBuf, wire, accepted, sockErr>>
  BY DEF UserSend
<1>5. CASE state = "kConnected"
  <2>1. SendInLoop(Bytes(m), ioQ)
    BY <1>4, <1>5
  <2> QED
    BY <1>1, <1>2, <1>3, <2>1, SendLives
<1>6. CASE state # "kConnected"
  BY <1>1, <1>2, <1>4, <1>6, FrameLives DEF channelVars, serverVars, histVars
<1> QED
  BY <1>5, <1>6

\* shutdownInLoop closes the write side, or handleWrite has still to write.
LEMMA RunShutdownLives ==
  ASSUME LifeInv, RunShutdown PROVE Promised' /\ Removal'
<1>1. \A o : o # "shutdown" => (HasOp(ioQ', o) <=> HasOp(ioQ, o))
  BY PoppedKeeps DEF RunShutdown
<1>2. /\ UNCHANGED <<events, index, held, created, serverUp, baseQ, ups>>
      /\ wrClosed' = (wrClosed \/ "write" \notin events)
  BY DEF RunShutdown, ShutdownInLoop, channelVars, serverVars, histVars
<1> QED
  BY <1>1, <1>2 DEF LifeInv, Promised, Removal

LEMMA UserShutdownLives ==
  ASSUME LifeInv, UserShutdown PROVE Promised' /\ Removal'
BY DEF UserShutdown, ShutdownInLoop, channelVars, serverVars, histVars, LifeInv, Promised, Removal

LEMMA RunNotificationLives ==
  ASSUME LifeInv, RunNotification PROVE Promised' /\ Removal'
<1>1. PICK o \in {"writeComplete", "highWater"} : RunsFunctor(o) /\ ioQ' = Tail(ioQ)
  BY DEF RunNotification
<1>2. Keeps(ioQ, ioQ')
  BY <1>1, PoppedKeeps DEF Keeps
<1> QED
  BY <1>2, FrameLives DEF RunNotification, channelVars, serverVars, histVars

\* handleClose asks the base loop for the removal.
LEMMA CloseLives ==
  ASSUME LifeInv, Close, index # "kNew",
         UNCHANGED <<created, held, serverUp, ioQ, ups>>
  PROVE  Promised' /\ Removal'
<1>1. state' = "kDisconnected" /\ baseQ' # <<>>
  BY DEF Close, LifeInv, ChanInv, ConnInv, Types, LoopTypes
<1> QED
  BY <1>1 DEF LifeInv, Promised, Removal

LEMMA EventLives ==
  ASSUME LifeInv, CloseCallback \/ ErrorCallback \/ ReadCallback PROVE Promised' /\ Removal'
<1>1. index # "kNew"
  BY Dispatched DEF CloseCallback, ErrorCallback, ReadCallback, Dispatching, LifeInv
<1>2. UNCHANGED <<created, held, serverUp, ioUp, ioQ, upc, ups, wrClosed>>
  BY DEF CloseCallback, ErrorCallback, ReadCallback, serverVars, histVars
<1>3. Close \/ UNCHANGED <<channelVars, state, baseQ>>
  BY DEF CloseCallback, ErrorCallback, ReadCallback, serverVars
<1>4. CASE Close
  BY <1>1, <1>2, <1>4, CloseLives
<1>5. CASE UNCHANGED <<channelVars, state, baseQ>>
  BY <1>2, <1>5, FrameLives DEF channelVars, Keeps
<1> QED
  BY <1>3, <1>4, <1>5

\* handleWrite keeps the channel reading, and closes the write side with the
\* last byte of a connection that is being shut down.
LEMMA WriteCallbackLives ==
  ASSUME LifeInv, WriteCallback PROVE Promised' /\ Removal'
<1>1. index # "kNew"
  BY Dispatched DEF WriteCallback, Dispatching, LifeInv
<1>2. UNCHANGED <<state, created, held, serverUp, ioUp, baseQ, upc, ups>>
  BY DEF WriteCallback, serverVars, histVars
<1>3. AfterDrain \/ UNCHANGED <<channelVars, ioQ, wrClosed>>
  BY DEF WriteCallback
<1>4. CASE UNCHANGED <<channelVars, ioQ, wrClosed>>
  BY <1>2, <1>4, FrameLives DEF channelVars, Keeps
<1>5. CASE AfterDrain
  <2>1. Keeps(ioQ, ioQ')
    BY <1>5, ToldKeeps DEF AfterDrain, LifeInv, ChanInv, ConnInv, Types, LoopTypes
  <2>2. /\ "read" \in events /\ index = "kAdded" => "read" \in events' /\ index' = "kAdded"
        /\ wrClosed' = (wrClosed \/ state = "kDisconnecting")
    BY <1>5 DEF AfterDrain, DisableWriting, UpdateChannel
  <2>3. Promised'
    BY <1>2, <2>2 DEF Promised
  <2>4. Removal'
    BY <1>1, <1>2, <2>1, <2>2 DEF LifeInv, Removal, Keeps
  <2> QED
    BY <2>3, <2>4
<1> QED
  BY <1>3, <1>4, <1>5

LEMMA ForeignLives ==
  ASSUME LifeInv, Foreign PROVE Promised' /\ Removal'
<1>1. /\ UNCHANGED <<events, index, held, created, serverUp, ioUp, baseQ, ups, wrClosed>>
      /\ ioQ \in Seq(Entries) /\ (upc.at = "send" => upc.msg \in Msgs)
  BY DEF Foreign, ForeignSend, ForeignSendQueue, ForeignShutdownTest, ForeignShutdownStore,
         ForeignShutdownQueue, DropRef, channelVars, serverVars, histVars,
         LifeInv, ChanInv, ConnInv, Types, LoopTypes
<1>2. CASE ForeignSend \/ ForeignShutdownTest \/ DropRef
  <2>1. ioQ' = ioQ /\ state' = state /\ (upc.at = "queue" => upc'.at = "queue")
    BY <1>2 DEF ForeignSend, ForeignShutdownTest, DropRef
  <2> QED
    BY <1>1, <2>1, FrameLives DEF Keeps
<1>3. CASE ForeignSendQueue
  <2>1. upc.at = "send" /\ state' = state /\ ioQ' = Append(ioQ, SendOp(upc.msg))
    BY <1>3 DEF ForeignSendQueue
  <2>2. SendOp(upc.msg) \in Entries /\ SendOp(upc.msg).op = "send"
    BY <1>1, <2>1, SendIsEntry
  <2> HIDE DEF SendOp
  <2>3. Keeps(ioQ, ioQ')
    BY <1>1, <2>1, <2>2, AppendKeeps
  <2> QED
    BY <1>1, <2>1, <2>3, FrameLives
<1>4. CASE ForeignShutdownStore
  <2>1. ioQ' = ioQ /\ upc'.at = "queue"
    BY <1>4 DEF ForeignShutdownStore
  <2> QED
    BY <1>1, <2>1 DEF LifeInv, Promised, Removal
<1>5. CASE ForeignShutdownQueue
  <2>1. state' = state /\ ioQ' = Append(ioQ, Op("shutdown"))
    BY <1>5 DEF ForeignShutdownQueue
  <2>2. Op("shutdown") \in Entries /\ Op("shutdown").op = "shutdown"
    BY OpIsEntry
  <2> HIDE DEF Op
  <2>3. Keeps(ioQ, ioQ') /\ HasOp(ioQ', "shutdown")
    BY <1>1, <2>1, <2>2, AppendKeeps, AppendedOps
  <2> QED
    BY <1>1, <2>1, <2>3, FrameLives
<1> QED
  BY <1>2, <1>3, <1>4, <1>5 DEF Foreign

LEMMA NextLives == LifeInv /\ [Next]_vars => LifeInv'
<1> SUFFICES ASSUME LifeInv, [Next]_vars PROVE LifeInv'
  OBVIOUS
<1>0. ChanInv'
  BY NextReclaims DEF LifeInv
<1>1. CASE BaseLoop
  BY <1>0, <1>1, NewConnectionLives, RemoveConnectionLives, DestroyServerLives,
     StopIoLoopLives DEF BaseLoop, LifeInv
<1>2. CASE Functor
  BY <1>0, <1>2, ConnectEstablishedLives, ConnectDestroyedLives, RunSendLives,
     RunShutdownLives, RunNotificationLives DEF Functor, LifeInv
<1>3. CASE Event
  BY <1>0, <1>3, EventLives, WriteCallbackLives DEF Event, LifeInv
<1>4. CASE UserSend \/ UserShutdown
  BY <1>0, <1>4, UserSendLives, UserShutdownLives DEF LifeInv
<1>5. CASE Foreign
  BY <1>0, <1>5, ForeignLives DEF LifeInv
<1>6. CASE PollConnection \/ UserReturn \/ Peer \/ UNCHANGED vars
  <2>1. UNCHANGED <<events, index, state, held, created, serverUp, ioUp, baseQ, ups, ioQ, upc,
                    wrClosed>>
    BY <1>6 DEF PollConnection, UserReturn, Peer, PeerSends, PeerCloses, PeerResets,
       channelVars, serverVars, histVars, vars, connVars
  <2> QED
    BY <1>0, <2>1, FrameLives DEF Keeps, LifeInv
<1> QED
  BY <1>1, <1>2, <1>3, <1>4, <1>5, <1>6 DEF Next, UserCode

LEMMA LifeInvariance == Spec => []LifeInv
<1>1. Init => LifeInv
  <2>1. Init => ChanInv
    <3>1. Init => Known /\ InOrder /\ Closing /\ Reclaimed
      BY DEF Init, ChannelInit, Known, InOrder, Closing, Reclaimed, HasOp, SendsFirst, Idle
    <3> QED
      BY <3>1, InitInv DEF ChanInv
  <2>2. Init => Promised /\ Removal
    BY DEF Init, Promised, Removal
  <2> QED
    BY <2>1, <2>2 DEF LifeInv
<1> QED
  BY <1>1, NextLives, PTL DEF Spec

\* TcpConnection::shutdown, shutdownInLoop and handleWrite: while a connection
\* that is being shut down is in the epoll set, its FIN was sent, or shutdown()
\* is about to queue shutdownInLoop, or that is queued, or there is data left
\* and EPOLLOUT set, so that handleWrite will send it after the last byte.  With
\* fairness this is what makes ShutdownCompletes true.
ShutdownIsPending ==
  state = "kDisconnecting" /\ registered /\ ~wrClosed =>
    \/ upc.at = "queue" \/ "shutdown" \in QueuedOps
    \/ "write" \in interest /\ (outBuf # <<>> \/ revived)

THEOREM ShutdownIsNotForgotten == Spec => []ShutdownIsPending
<1>1. ASSUME LifeInv, state = "kDisconnecting", registered, ~wrClosed
      PROVE  \/ upc.at = "queue" \/ "shutdown" \in QueuedOps
             \/ "write" \in interest /\ (outBuf # <<>> \/ revived)
  <2>1. ioUp /\ interest = events
    BY <1>1 DEF LifeInv, ChanInv, Known, ConnInv, Linked
  <2>2. "write" \in events \/ upc.at = "queue" \/ HasOp(ioQ, "shutdown")
    BY <1>1, <2>1 DEF LifeInv, Promised
  <2>3. "write" \in events => outBuf # <<>> \/ revived
    BY <1>1 DEF LifeInv, ChanInv, ConnInv, Stream, Up
  <2> QED
    BY <2>1, <2>2, <2>3 DEF HasOp, QueuedOps
<1>2. LifeInv => ShutdownIsPending
  BY <1>1 DEF ShutdownIsPending
<1> QED
  BY <1>2, LifeInvariance, PTL

\* TcpServer::newConnection, TcpConnection::connectEstablished, handleRead and
\* handleClose, TcpServer::removeConnectionInLoop, connectDestroyed: as long as
\* the server lives, a connection it holds is to be established, has EPOLLIN set
\* so that the peer's end will be noticed, or is to be removed; and one that it
\* has let go of is to be destroyed or has left the poller.  With fairness this
\* is what makes PeerCloseReclaims true.
RemovalIsPending ==
  created /\ serverUp =>
    IF held
    THEN baseQ # <<>> \/ "established" \in QueuedOps \/ "read" \in interest
    ELSE "destroyed" \in QueuedOps \/ (~inMap /\ ~registered)

THEOREM RemovalIsNotForgotten == Spec => []RemovalIsPending
<1>1. ASSUME LifeInv, created, serverUp
      PROVE  IF held
             THEN baseQ # <<>> \/ "established" \in QueuedOps \/ "read" \in interest
             ELSE "destroyed" \in QueuedOps \/ (~inMap /\ ~registered)
  <2>1. /\ ioUp
        /\ index = "kAdded" => interest = events
        /\ index = "kNew" => ~inMap /\ ~registered
    BY <1>1 DEF LifeInv, ChanInv, Known, ConnInv, Linked
  <2>2. \A o : HasOp(ioQ, o) => o \in QueuedOps
    BY DEF HasOp, QueuedOps
  <2> QED
    BY <1>1, <2>1, <2>2 DEF LifeInv, Removal
<1>2. LifeInv => RemovalIsPending
  BY <1>1 DEF RemovalIsPending
<1> QED
  BY <1>2, LifeInvariance, PTL
=============================================================================
