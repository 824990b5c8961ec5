--------------------------- MODULE TcpConnection ---------------------------
(***************************************************************************)
(* The life of one TcpConnection of a TcpServer with I/O threads: created  *)
(* by the base loop, established, used and closed by its I/O loop, used    *)
(* from other threads through send and shutdown, and destroyed through     *)
(* both loops.  The loops are ordered executors (see EventLoop): ioQ and   *)
(* baseQ are their queues of functors.                                     *)
(*                                                                         *)
(* Steps of the I/O loop's thread are atomic where they only touch the     *)
(* loop's own state; a foreign thread's call is split at its test of       *)
(* state_, its store and its queueInLoop.  A byte of message m is written  *)
(* m; a message is MsgLen bytes long.                                      *)
(***************************************************************************)
EXTENDS Naturals, Sequences, Channel

CONSTANTS LoopMsgs,        \* messages sent by callbacks, on the I/O thread
          ForeignMsgs,     \* messages sent by another thread
          MsgLen,          \* bytes in a message
          MaxIn,           \* chunks the peer sends
          HighWater,       \* highWaterMark_, in bytes
          Garbage          \* a byte read from a freed message buffer

Msgs == LoopMsgs \cup ForeignMsgs

ASSUME MsgAssumption == /\ MsgLen \in Nat \ {0}
                        /\ HighWater \in Nat \ {0}
                        /\ MaxIn \in Nat
                        /\ LoopMsgs \cap ForeignMsgs = {}
                        /\ Garbage \notin Msgs

VARIABLES state,     \* state_
          created,   \* newConnection has made the object
          held,      \* TcpServer::connections_ holds it
          serverUp,  \* the TcpServer exists and the base loop runs
          ioUp,      \* the I/O loop exists
          ioQ,       \* functors queued in the I/O loop
          baseQ,     \* removeConnectionInLoop functors queued in the base loop
          revents,   \* callbacks handleEventWithGuard has still to make
          inUser,    \* the I/O thread is in the application's callback
          userRef,   \* the application stored a shared_ptr to it
          upc,       \* the foreign thread's position in send or shutdown
          unsent,    \* messages nobody has sent
          outBuf,    \* outputBuffer_
          wire,      \* bytes the kernel accepted
          accepted,  \* history: bytes sendInLoop accepted
          wrClosed,  \* shutdown(SHUT_WR) was called
          peer,      \* "open", "closed" (FIN received) or "reset"
          sockErr,   \* SO_ERROR is pending
          rcv, sent, \* chunks in the receive buffer; chunks the peer has sent
          ups, downs, \* connectionCallback_ calls, connected and disconnected
          shutBy,    \* history: another thread has called shutdown()
          revived    \* history: shutdown() stored kDisconnecting over kDisconnected

connVars == <<state, created, held, serverUp, ioUp, ioQ, baseQ, revents, inUser,
              userRef, upc, unsent, outBuf, wire, accepted, wrClosed, peer,
              sockErr, rcv, sent, ups, downs, shutBy, revived>>
vars == <<channelVars, connVars>>

serverVars == <<created, held, serverUp, ioUp, baseQ>>
netVars == <<peer, sockErr, rcv, sent>>
histVars == <<ups, downs, shutBy, revived>>
dataVars == <<outBuf, wire, accepted, unsent>>

None == "none"
Op(o) == [op |-> o, msg |-> None]
SendOp(m) == [op |-> "send", msg |-> m]
Idle == [at |-> "idle", msg |-> None]

\* Functors that hold a shared_ptr to the connection; send and shutdown are
\* bound to a raw this.
OwningOps == {"established", "destroyed", "writeComplete", "highWater"}

QueuedOps == {ioQ[i].op : i \in DOMAIN ioQ}

\* Somebody holds a shared_ptr: the object exists.  During handleEvent and the
\* callbacks it is the guard made from tie_, or the running functor.
Alive == created /\ (\/ held \/ userRef \/ inUser \/ revents # {} \/ baseQ # <<>>
                     \/ QueuedOps \cap OwningOps # {})

TypeOK ==
  /\ ChannelTypeOK
  /\ state \in {"kConnecting", "kConnected", "kDisconnecting", "kDisconnected"}
  /\ {created, held, serverUp, ioUp, inUser, userRef, wrClosed, sockErr}
       \subseteq BOOLEAN
  /\ \A i \in DOMAIN ioQ :
       ioQ[i].op \in OwningOps \cup {"send", "shutdown"}
  /\ \A i \in DOMAIN baseQ : baseQ[i] = "remove"
  /\ revents \in SUBSET {"close", "error", "read", "write"}
  /\ upc.at \in {"idle", "send", "store", "queue"}
  /\ unsent \subseteq Msgs
  /\ \A s \in {outBuf, wire, accepted} :
       \A i \in DOMAIN s : s[i] \in Msgs \cup {Garbage}
  /\ peer \in {"open", "closed", "reset"}
  /\ rcv \in 0..MaxIn /\ sent \in 0..MaxIn
  /\ ups \in Nat /\ downs \in Nat /\ {shutBy, revived} \subseteq BOOLEAN

Init ==
  /\ ChannelInit
  /\ state = "kConnecting"
  /\ created = FALSE /\ held = FALSE /\ serverUp = TRUE /\ ioUp = TRUE
  /\ ioQ = <<>> /\ baseQ = <<>>
  /\ revents = {} /\ inUser = FALSE
  /\ userRef = FALSE /\ upc = Idle
  /\ unsent = Msgs
  /\ outBuf = <<>> /\ wire = <<>> /\ accepted = <<>>
  /\ wrClosed = FALSE
  /\ peer = "open" /\ sockErr = FALSE /\ rcv = 0 /\ sent = 0
  /\ ups = 0 /\ downs = 0 /\ shutBy = FALSE /\ revived = FALSE

-----------------------------------------------------------------------------
(* The base loop: TcpServer.                                               *)

\* newConnection: the object is made, entered in connections_, and the I/O
\* loop told to establish it.
NewConnection ==
  /\ serverUp /\ ~created
  /\ created' = TRUE
  /\ held' = TRUE
  /\ ioQ' = Append(ioQ, Op("established"))
  /\ UNCHANGED <<channelVars, state, serverUp, ioUp, baseQ, revents, inUser, userRef,
                 upc, dataVars, wrClosed, netVars, histVars>>

\* removeConnectionInLoop: erased from connections_, and the I/O loop told to
\* destroy it.
RemoveConnectionInLoop ==
  /\ serverUp /\ baseQ # <<>>
  /\ baseQ' = Tail(baseQ)
  /\ held' = FALSE
  /\ ioQ' = Append(ioQ, Op("destroyed"))
  /\ UNCHANGED <<channelVars, state, created, serverUp, ioUp, revents, inUser,
                 userRef, upc, dataVars, wrClosed, netVars, histVars>>

\* ~TcpServer, after the base loop has stopped: its queue is never run again.
DestroyServer ==
  /\ serverUp
  /\ serverUp' = FALSE
  /\ held' = FALSE
  /\ ioQ' = IF held THEN Append(ioQ, Op("destroyed")) ELSE ioQ
  /\ UNCHANGED <<channelVars, state, created, ioUp, baseQ, revents, inUser,
                 userRef, upc, dataVars, wrClosed, netVars, histVars>>

\* The rest of ~TcpServer: the EventLoopThreads quit and join their loops, and
\* with a loop go its poller and the functors it has not run.  Other threads
\* are done with the connection by then.
StopIoLoop ==
  /\ ~serverUp /\ ioUp
  /\ ~inUser /\ revents = {} /\ upc = Idle
  /\ ioUp' = FALSE
  /\ ioQ' = <<>>
  /\ inMap' = FALSE
  /\ CtlDel
  /\ UNCHANGED <<events, index, state, created, held, serverUp, baseQ, revents,
                 inUser, userRef, upc, dataVars, wrClosed, netVars, histVars>>

-----------------------------------------------------------------------------
(* sendInLoop and shutdownInLoop, on the I/O thread.  q is the loop's      *)
(* queue as the call finds it.                                             *)

Bytes(m) == [i \in 1..MsgLen |-> m]

\* Mutant of StopsSending: no test of the state.
SendAlways == FALSE

\* sendInLoop gives up only on a connection that is down.
StopsSending == state = "kDisconnected"

\* Mutant of Buffer: EPOLLOUT is not asked for.
BufferUnwatched(b, q) ==
  /\ outBuf' = outBuf \o b
  /\ ioQ' = q
  /\ UNCHANGED channelVars

\* The bytes b that the kernel did not take are buffered, the high-water
\* callback queued when the mark is crossed, and EPOLLOUT asked for.
Buffer(b, q) ==
  /\ outBuf' = outBuf \o b
  /\ ioQ' = IF /\ Len(outBuf) + Len(b) >= HighWater
               /\ Len(outBuf) < HighWater
            THEN Append(q, Op("highWater")) ELSE q
  /\ IF "write" \in events THEN UNCHANGED channelVars ELSE EnableWriting

\* A direct write(): it fails with EPIPE or ECONNRESET, or takes k bytes (none
\* when it would block).
WriteDirect(b, q) ==
  \/ /\ wrClosed \/ peer = "reset"
     /\ sockErr' = FALSE
     /\ ioQ' = q
     /\ UNCHANGED <<channelVars, outBuf, wire, accepted>>
  \/ /\ ~wrClosed /\ peer # "reset"
     /\ accepted' = accepted \o b
     /\ UNCHANGED sockErr
     /\ \E k \in 0..Len(b) :
          /\ wire' = wire \o SubSeq(b, 1, k)
          /\ IF k = Len(b)
             THEN ioQ' = Append(q, Op("writeComplete")) /\ UNCHANGED <<channelVars, outBuf>>
             ELSE Buffer(SubSeq(b, k + 1, Len(b)), q)

\* Mutant of SendInLoop: it writes directly whatever is still buffered.
SendOvertakes(b, q) ==
  IF StopsSending
  THEN ioQ' = q /\ UNCHANGED <<channelVars, outBuf, wire, accepted, sockErr>>
  ELSE WriteDirect(b, q)

SendInLoop(b, q) ==
  IF StopsSending
  THEN ioQ' = q /\ UNCHANGED <<channelVars, outBuf, wire, accepted, sockErr>>
  ELSE IF "write" \notin events /\ outBuf = <<>>
  THEN WriteDirect(b, q)
  ELSE /\ Buffer(b, q)
       /\ accepted' = accepted \o b
       /\ UNCHANGED <<wire, sockErr>>

\* shutdownInLoop: while data is being written the FIN waits (handleWrite).
ShutdownInLoop == wrClosed' = (wrClosed \/ "write" \notin events)

-----------------------------------------------------------------------------
(* The application's callbacks, on the I/O thread.                         *)

\* conn->send(m)
UserSend ==
  /\ inUser
  /\ \E m \in unsent \cap LoopMsgs :
       /\ unsent' = unsent \ {m}
       /\ IF state = "kConnected"
          THEN SendInLoop(Bytes(m), ioQ)
          ELSE UNCHANGED <<channelVars, ioQ, outBuf, wire, accepted, sockErr>>
  /\ UNCHANGED <<state, serverVars, revents, inUser, userRef, upc, wrClosed,
                 peer, rcv, sent, histVars>>

\* conn->shutdown()
UserShutdown ==
  /\ inUser
  /\ state = "kConnected"
  /\ state' = "kDisconnecting"
  /\ ShutdownInLoop
  /\ UNCHANGED <<channelVars, serverVars, ioQ, revents, inUser, userRef, upc,
                 dataVars, netVars, histVars>>

UserReturn ==
  /\ inUser
  /\ inUser' = FALSE
  /\ UNCHANGED <<channelVars, state, serverVars, ioQ, revents, userRef, upc,
                 dataVars, wrClosed, netVars, histVars>>

-----------------------------------------------------------------------------
(* Functors of the I/O loop.  They run between two polls, never inside a   *)
(* callback.                                                               *)

Between == ioUp /\ ~inUser /\ revents = {}

RunsFunctor(o) == Between /\ ioQ # <<>> /\ Head(ioQ).op = o

\* connectEstablished; the connection callback stores the connection.
ConnectEstablished ==
  /\ RunsFunctor("established")
  /\ ioQ' = Tail(ioQ)
  /\ state' = "kConnected"
  /\ EnableReading
  /\ ups' = ups + 1
  /\ inUser' = TRUE
  /\ userRef' = TRUE
  /\ UNCHANGED <<serverVars, revents, upc, dataVars, wrClosed, netVars, downs, shutBy, revived>>

\* Mutant of ConnectDestroyed: the disconnected callback in every state.
DestroyedAlwaysCallsBack ==
  /\ RunsFunctor("destroyed")
  /\ ioQ' = Tail(ioQ)
  /\ state' = "kDisconnected"
  /\ downs' = downs + 1
  /\ RemoveChannel({})
  /\ UNCHANGED <<serverVars, revents, inUser, userRef, upc, dataVars, wrClosed,
                 netVars, ups, shutBy, revived>>

\* connectDestroyed: a connection that is still up is taken down first.
ConnectDestroyed ==
  /\ RunsFunctor("destroyed")
  /\ ioQ' = Tail(ioQ)
  /\ \/ /\ state = "kConnected"
        /\ state' = "kDisconnected"
        /\ downs' = downs + 1
        /\ RemoveChannel({})
     \/ /\ state # "kConnected"
        /\ RemoveChannel(events)
        /\ UNCHANGED <<state, downs>>
  /\ UNCHANGED <<serverVars, revents, inUser, userRef, upc, dataVars, wrClosed,
                 netVars, ups, shutBy, revived>>

\* A sendInLoop queued by another thread.  Its buffer belonged to a string of
\* that thread, which may be gone: the bytes are the message's or garbage.
RunSend ==
  /\ RunsFunctor("send")
  /\ \E m \in {Head(ioQ).msg, Garbage} : SendInLoop(Bytes(m), Tail(ioQ))
  /\ UNCHANGED <<state, serverVars, revents, inUser, userRef, upc, unsent,
                 wrClosed, peer, rcv, sent, histVars>>

RunShutdown ==
  /\ RunsFunctor("shutdown")
  /\ ioQ' = Tail(ioQ)
  /\ ShutdownInLoop
  /\ UNCHANGED <<channelVars, state, serverVars, revents, inUser, userRef, upc,
                 dataVars, netVars, histVars>>

\* The application's write-complete and high-water callbacks.
RunNotification ==
  /\ RunsFunctor("writeComplete") \/ RunsFunctor("highWater")
  /\ ioQ' = Tail(ioQ)
  /\ UNCHANGED <<channelVars, state, serverVars, revents, inUser, userRef, upc,
                 dataVars, wrClosed, netVars, histVars>>

-----------------------------------------------------------------------------
(* Events of the connection's fd.                                          *)

\* What epoll reports: IN and OUT as asked for (out: the kernel has room), HUP
\* when both directions are shut, ERR while SO_ERROR is set.
Reported(out) ==
  LET in  == "read" \in interest /\ (rcv > 0 \/ peer # "open")
      hup == peer = "reset" \/ (peer = "closed" /\ wrClosed)
  IN  (IF hup /\ ~in THEN {"close"} ELSE {}) \cup
      (IF sockErr THEN {"error"} ELSE {}) \cup
      (IF in THEN {"read"} ELSE {}) \cup
      (IF out /\ "write" \in interest THEN {"write"} ELSE {})

\* The callbacks handleEventWithGuard will make, in the order close, error,
\* read, write.
PollConnection ==
  /\ Between /\ registered
  /\ \E out \in BOOLEAN : revents' = Reported(out)
  /\ revents' # {}
  /\ UNCHANGED <<channelVars, state, serverVars, ioQ, inUser, userRef, upc,
                 dataVars, wrClosed, netVars, histVars>>

Rank == [close |-> 1, error |-> 2, read |-> 3, write |-> 4]
Dispatching(c) ==
  /\ ~inUser /\ c \in revents
  /\ \A d \in revents : Rank[c] <= Rank[d]
  /\ revents' = revents \ {c}

\* Mutant of Close: TcpServer::removeConnection is not called.
CloseForgetsServer ==
  /\ state' = "kDisconnected"
  /\ DisableAll
  /\ downs' = downs + 1
  /\ UNCHANGED baseQ

\* handleClose: the state, the events, the application's callback, and
\* TcpServer::removeConnection (the base loop's queue outlives the server).
Close ==
  /\ state' = "kDisconnected"
  /\ DisableAll
  /\ downs' = downs + 1
  /\ baseQ' = Append(baseQ, "remove")

CloseCallback ==
  /\ Dispatching("close")
  /\ Close
  /\ UNCHANGED <<created, held, serverUp, ioUp, ioQ, inUser, userRef, upc,
                 dataVars, wrClosed, netVars, ups, shutBy, revived>>

\* handleError: getsockopt(SO_ERROR) clears the error; nothing else happens.
ErrorCallback ==
  /\ Dispatching("error")
  /\ sockErr' = FALSE
  /\ UNCHANGED <<channelVars, state, serverVars, ioQ, inUser, userRef, upc,
                 dataVars, wrClosed, peer, rcv, sent, histVars>>

\* handleRead: data, an error or the end of the stream.
ReadCallback ==
  /\ Dispatching("read")
  /\ \/ /\ rcv > 0
        /\ rcv' = 0
        /\ inUser' = TRUE
        /\ UNCHANGED <<channelVars, state, baseQ, sockErr, downs>>
     \/ /\ rcv = 0 /\ sockErr
        /\ sockErr' = FALSE
        /\ UNCHANGED <<channelVars, state, baseQ, inUser, rcv, downs>>
     \/ /\ rcv = 0 /\ ~sockErr
        /\ Close
        /\ UNCHANGED <<inUser, sockErr, rcv>>
  /\ UNCHANGED <<created, held, serverUp, ioUp, ioQ, userRef, upc, dataVars,
                 wrClosed, peer, sent, ups, shutBy, revived>>

\* Mutant of AfterDrain: the write side stays open after the last byte.
DrainForgetsShutdown ==
  /\ DisableWriting
  /\ ioQ' = Append(ioQ, Op("writeComplete"))
  /\ UNCHANGED wrClosed

\* handleWrite emptied the buffer: EPOLLOUT off, the write-complete callback
\* queued, and a shutdown() that waited for the data carried out.
AfterDrain ==
  /\ DisableWriting
  /\ ioQ' = Append(ioQ, Op("writeComplete"))
  /\ wrClosed' = (wrClosed \/ state = "kDisconnecting")

\* handleWrite: k bytes leave the buffer, or the write fails.
WriteCallback ==
  /\ Dispatching("write")
  /\ \/ /\ "write" \in events /\ ~wrClosed /\ peer # "reset"
        /\ \E k \in 1..Len(outBuf) :
             /\ wire' = wire \o SubSeq(outBuf, 1, k)
             /\ outBuf' = SubSeq(outBuf, k + 1, Len(outBuf))
             /\ IF k = Len(outBuf) THEN AfterDrain
                ELSE UNCHANGED <<channelVars, ioQ, wrClosed>>
        /\ UNCHANGED sockErr
     \/ /\ "write" \in events /\ (wrClosed \/ peer = "reset")
        /\ sockErr' = FALSE
        /\ UNCHANGED <<channelVars, ioQ, wrClosed, wire, outBuf>>
     \/ /\ "write" \notin events
        /\ UNCHANGED <<channelVars, ioQ, wrClosed, wire, outBuf, sockErr>>
  /\ UNCHANGED <<state, serverVars, inUser, userRef, upc, accepted, unsent,
                 peer, rcv, sent, histVars>>

-----------------------------------------------------------------------------
(* Another thread that holds a shared_ptr (it keeps it while it is inside  *)
(* a call and while a functor with the raw this is queued).                *)

\* send(): the test of state_.
ForeignSend ==
  /\ ioUp /\ userRef /\ upc.at = "idle" /\ state = "kConnected"
  /\ \E m \in unsent \cap ForeignMsgs :
       /\ unsent' = unsent \ {m}
       /\ upc' = [at |-> "send", msg |-> m]
  /\ UNCHANGED <<channelVars, state, serverVars, ioQ, revents, inUser, userRef,
                 outBuf, wire, accepted, wrClosed, netVars, histVars>>

\* send(): runInLoop queues sendInLoop.
ForeignSendQueue ==
  /\ upc.at = "send"
  /\ ioQ' = Append(ioQ, SendOp(upc.msg))
  /\ upc' = Idle
  /\ UNCHANGED <<channelVars, state, serverVars, revents, inUser, userRef,
                 dataVars, wrClosed, netVars, histVars>>

\* shutdown(): the test of state_, the store, the queueInLoop.
ForeignShutdownTest ==
  /\ ioUp /\ userRef /\ upc.at = "idle" /\ state = "kConnected"
  /\ upc' = [at |-> "store", msg |-> None]
  /\ shutBy' = TRUE
  /\ UNCHANGED <<channelVars, state, serverVars, ioQ, revents, inUser, userRef,
                 dataVars, wrClosed, netVars, ups, downs, revived>>

ForeignShutdownStore ==
  /\ upc.at = "store"
  /\ state' = "kDisconnecting"
  /\ revived' = (revived \/ state = "kDisconnected")
  /\ upc' = [at |-> "queue", msg |-> None]
  /\ UNCHANGED <<channelVars, serverVars, ioQ, revents, inUser, userRef,
                 dataVars, wrClosed, netVars, ups, downs, shutBy>>

ForeignShutdownQueue ==
  /\ upc.at = "queue"
  /\ ioQ' = Append(ioQ, Op("shutdown"))
  /\ upc' = Idle
  /\ UNCHANGED <<channelVars, state, serverVars, revents, inUser, userRef,
                 dataVars, wrClosed, netVars, histVars>>

\* The foreign thread lets go of the connection.
DropRef ==
  /\ userRef /\ upc.at = "idle"
  /\ QueuedOps \cap {"send", "shutdown"} = {}
  /\ userRef' = FALSE
  /\ UNCHANGED <<channelVars, state, serverVars, ioQ, revents, inUser, upc,
                 dataVars, wrClosed, netVars, histVars>>

-----------------------------------------------------------------------------
(* The peer.                                                               *)

PeerSends ==
  /\ created /\ peer = "open" /\ sent < MaxIn
  /\ sent' = sent + 1
  /\ rcv' = rcv + 1
  /\ UNCHANGED <<channelVars, state, serverVars, ioQ, revents, inUser, userRef,
                 upc, dataVars, wrClosed, peer, sockErr, histVars>>

PeerCloses ==
  /\ created /\ peer = "open"
  /\ peer' = "closed"
  /\ UNCHANGED <<channelVars, state, serverVars, ioQ, revents, inUser, userRef,
                 upc, dataVars, wrClosed, sockErr, rcv, sent, histVars>>

PeerResets ==
  /\ created /\ peer # "reset"
  /\ peer' = "reset"
  /\ sockErr' = TRUE
  /\ rcv' = 0
  /\ UNCHANGED <<channelVars, state, serverVars, ioQ, revents, inUser, userRef,
                 upc, dataVars, wrClosed, sent, histVars>>

-----------------------------------------------------------------------------
BaseLoop == NewConnection \/ RemoveConnectionInLoop \/ DestroyServer \/ StopIoLoop
Functor == ConnectEstablished \/ ConnectDestroyed \/ RunSend \/ RunShutdown \/ RunNotification
Event == CloseCallback \/ ErrorCallback \/ ReadCallback \/ WriteCallback
UserCode == UserSend \/ UserShutdown \/ UserReturn
Foreign == \/ ForeignSend \/ ForeignSendQueue \/ ForeignShutdownTest
           \/ ForeignShutdownStore \/ ForeignShutdownQueue \/ DropRef
Peer == PeerSends \/ PeerCloses \/ PeerResets

Next == BaseLoop \/ Functor \/ PollConnection \/ Event \/ UserCode \/ Foreign \/ Peer

\* Every loop keeps running its functors and dispatching events, callbacks
\* return, a foreign thread finishes a call it began and lets go eventually.
\* A peer that has not reset the connection keeps reading, so EPOLLOUT comes
\* up again and again (the strong fairness).
Fairness ==
  /\ WF_vars(RemoveConnectionInLoop)
  /\ WF_vars(Functor)
  /\ WF_vars(PollConnection)
  /\ SF_vars(PollConnection /\ "write" \in revents')
  /\ WF_vars(Event)
  /\ WF_vars(UserReturn)
  /\ WF_vars(ForeignSendQueue \/ ForeignShutdownStore \/ ForeignShutdownQueue)
  /\ SF_vars(DropRef)

Spec == Init /\ [][Next]_vars /\ Fairness

-----------------------------------------------------------------------------
(* Properties.                                                             *)

\* The application hears "connected" at most once and "disconnected" at most
\* once, in that order, however close events, connectDestroyed from
\* removeConnection and connectDestroyed from ~TcpServer race.  The exception
\* is a shutdown() on another thread that tested state_ before a close and
\* stores kDisconnecting after it: the closed connection then counts as up.
CallbacksPaired == TypeOK /\ ups <= 1 /\ (downs <= ups \/ revived)

\* A TcpConnection that is gone has left no Channel pointer behind in the
\* poller's map or in the epoll set, and the poller's own assertions hold: a
\* kDeleted channel is still in the map.  The exception needs both a shutdown()
\* on another thread and ~TcpServer: connectDestroyed leaves a kDisconnecting
\* state alone, and a send queued behind it registers the channel again.
NoDanglingChannel ==
  /\ ~Alive => (~inMap /\ ~registered) \/ (shutBy /\ ~serverUp)
  /\ ioUp => (registered <=> index = "kAdded")
  /\ ioUp /\ index = "kDeleted" => inMap

\* The bytes the kernel got and the bytes still buffered are, in this order,
\* what sendInLoop accepted: nothing is lost, duplicated or overtaken by the
\* switch between direct writes and the output buffer.  And the FIN follows the
\* last of them: the write side is not closed over data that is buffered, unless
\* the connection has been closed, when the data is lost anyway.
StreamInOrder ==
  /\ wire \o outBuf = accepted
  /\ wrClosed /\ state # "kDisconnected" /\ ~revived => outBuf = <<>>

\* Buffered data of a connection that is up is watched for EPOLLOUT, so that
\* handleWrite will drain it (with the exception of CallbacksPaired).
BufferedDataIsWatched ==
  /\ ioUp /\ index # "kNew"
  /\ state # "kDisconnected" /\ ~revived
  /\ outBuf # <<>>
  => "write" \in interest

\* When the peer has gone the connection is torn down and freed, as long as
\* the server lives.
PeerCloseReclaims == (created /\ peer # "open") ~> (~Alive \/ ~serverUp)

\* A shutdown() gets its FIN out, or the connection goes down and is freed.
ShutdownCompletes ==
  state = "kDisconnecting" ~>
    (wrClosed \/ state = "kDisconnected" \/ ~Alive \/ ~serverUp)

\* A channel that connectDestroyed has removed is not registered again by a
\* sendInLoop that comes later, although sendInLoop only refuses a
\* kDisconnected connection and a kDisconnecting one may be destroyed too.  The
\* exception: ~TcpServer destroys it while a shutdown() of another thread is under
\* way or has stored kDisconnecting, and a send was queued before.  A shutdown()
\* that is stored over kDisconnected, with the server there, is no excuse.
RemovedStaysRemoved ==
  [][ioUp /\ index = "kNew" /\ state # "kConnecting" => ~registered' \/ (shutBy /\ ~serverUp)]_vars
=============================================================================
