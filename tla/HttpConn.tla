------------------------------ MODULE HttpConn ------------------------------
(***************************************************************************)
(* The web server: the epoll thread of main(), the workers of its thread   *)
(* pool, and one descriptor with its slot users[fd], which serves one      *)
(* connection after the other.  EPOLLONESHOT is to keep the threads out of *)
(* each other's way.  A system call that other threads or the peer can     *)
(* observe is a step; what a handler computes in between is joined to it.  *)
(*                                                                         *)
(* The peer is an HTTP client without pipelining.  A request arrives in    *)
(* two fragments; a response is HeadLen units of m_write_buf and, if it is *)
(* a file, FileLen units of the mapping.  The model ends in the state in   *)
(* which the slot first gets a second user (clash): a thread enters while  *)
(* another one is inside, or a connection gets the slot while a handler of *)
(* the previous one is inside or on its way.  What follows is a data race. *)
(***************************************************************************)
EXTENDS Naturals, Sequences

CONSTANTS Workers,  \* threads of the pool
          MaxConn,  \* connections that get the descriptor, one after the other
          MaxReq,   \* requests on one of them
          HeadLen,  \* units of a response head (or of a whole error response)
          FileLen,  \* units of a file
          SndBuf    \* units the kernel's send buffer holds

ASSUME CountAssumption == MaxConn \in Nat /\ MaxReq \in Nat
\* The head of a response is smaller than any send buffer of the kernel.
ASSUME SizeAssumption == /\ HeadLen \in Nat \ {0} /\ FileLen \in Nat \ {0}
                         /\ SndBuf \in Nat /\ HeadLen <= SndBuf

VARIABLES
  conns,      \* connections accepted so far
  isopen,     \* the descriptor is open
  armed,      \* epoll: "no" (not registered), "off" (disabled), "in" or "out"
  rcvq,       \* fragments the server has not received yet
  sent,       \* fragments the peer has sent
  fin,        \* the peer has closed
  sndq,       \* units in the kernel's send buffer
  wire,       \* units the peer has received
  m_sockfd,   \* users[fd].m_sockfd is the descriptor (and not -1)
  m_read_index,
  m_linger,
  m_file,     \* m_file_address is mapped
  m_iv,       \* offset and rest of the head and of the file
  bytes_to_send,
  bytes_have_send,
  events,     \* what epoll_wait returned for the descriptor
  tasks,      \* handlers queued in the thread pool
  wpc,        \* where each worker is
  answers,    \* history: kind and keep-alive of the responses made so far
  due,        \* history: their units, one response after the other
  clash       \* the slot got a second user

slotVars == <<m_sockfd, m_read_index, m_linger, m_file, m_iv, bytes_to_send,
              bytes_have_send>>
peerVars == <<rcvq, sent, fin, sndq, wire>>
history == <<answers, due>>
vars == <<conns, isopen, armed, peerVars, slotVars, events, tasks, wpc, history, clash>>

TypeOK ==
  /\ conns \in 0..MaxConn /\ isopen \in BOOLEAN
  /\ armed \in {"no", "off", "in", "out"}
  /\ rcvq \in Nat /\ sent \in Nat /\ fin \in BOOLEAN
  /\ m_sockfd \in BOOLEAN /\ m_read_index \in Nat
  /\ m_linger \in BOOLEAN /\ m_file \in BOOLEAN
  /\ events \in SUBSET {"hup", "in", "out"}
  /\ tasks \in Seq({"read", "write"})
  /\ wpc \in [Workers -> {"idle", "read", "process", "armin", "armout", "write",
                          "sent", "tail", "close", "closing"}]
  /\ clash \in BOOLEAN

\* main() before the first connection; every slot has been constructed.
Init ==
  /\ conns = 0 /\ isopen = FALSE /\ armed = "no"
  /\ rcvq = 0 /\ sent = 0 /\ fin = FALSE /\ sndq = <<>> /\ wire = <<>>
  /\ m_sockfd = FALSE /\ m_read_index = 0 /\ m_linger = FALSE /\ m_file = FALSE
  /\ m_iv = [head |-> <<0, 0>>, file |-> <<0, 0>>]
  /\ bytes_to_send = 0 /\ bytes_have_send = 0
  /\ events = {} /\ tasks = <<>>
  /\ wpc = [w \in Workers |-> "idle"]
  /\ answers = <<>> /\ due = <<>> /\ clash = FALSE

\* A worker is inside a handler of the slot; a handler is on its way to it.
InUse == \E w \in Workers : wpc[w] # "idle"
OnItsWay == events # {} \/ tasks # <<>>

-----------------------------------------------------------------------------
(* Responses.                                                              *)

Unit(k, part, i) == <<k, part, i>>
UnitsOf(k, part, from, n) == [i \in 1..n |-> Unit(k, part, from + i)]

\* The whole response to request k.
Response(k, kind) ==
  UnitsOf(k, "head", 0, HeadLen)
    \o (IF kind = "file" THEN UnitsOf(k, "file", 0, FileLen) ELSE <<>>)

-----------------------------------------------------------------------------
(* Parts of the slot's handlers.                                           *)

\* init(): the members start over.  A file that is still mapped is forgotten.
Reset ==
  /\ m_read_index' = 0 /\ m_linger' = FALSE /\ m_file' = FALSE
  /\ bytes_to_send' = 0 /\ bytes_have_send' = 0
  /\ UNCHANGED m_iv

\* Mutant of RemoveFd: the descriptor leaves epoll and is never closed.
RemoveFdOnly == isopen' = isopen /\ armed' = "no"

\* removefd: the kernel drops what the peer sends from now on.
RemoveFd == isopen' = FALSE /\ armed' = "no"

\* Mutant of Rearm: the events stay disabled.
RearmNothing(ev) == armed' = armed

\* modfd and reset_oneshot.
Rearm(ev) == armed' = IF isopen THEN ev ELSE armed

Goto(w, place) == wpc' = [wpc EXCEPT ![w] = place]

-----------------------------------------------------------------------------
(* main(): the epoll thread.                                               *)

\* accept and init(connfd): the slot gets the descriptor and is registered.
Accept ==
  /\ ~clash /\ ~isopen /\ conns < MaxConn
  /\ conns' = conns + 1
  /\ isopen' = TRUE /\ armed' = "in"
  /\ m_sockfd' = TRUE
  /\ rcvq' = 0 /\ sent' = 0 /\ fin' = FALSE /\ sndq' = <<>> /\ wire' = <<>>
  /\ answers' = <<>> /\ due' = <<>>
  /\ clash' = (InUse \/ OnItsWay)
  /\ UNCHANGED <<m_read_index, m_linger, m_file, m_iv, bytes_to_send,
                 bytes_have_send, events, tasks, wpc>>

Ready == (IF fin THEN {"hup"} ELSE {})
         \cup (IF armed = "in" /\ (rcvq > 0 \/ fin) THEN {"in"} ELSE {})
         \cup (IF armed = "out" /\ Len(sndq) < SndBuf THEN {"out"} ELSE {})

\* Mutant of EpollWait: registered without EPOLLONESHOT.
EpollWaitAgain ==
  /\ ~clash /\ isopen /\ armed \in {"in", "out"}
  /\ events = {} /\ Ready # {}
  /\ events' = Ready
  /\ UNCHANGED <<conns, isopen, armed, peerVars, slotVars, tasks, wpc, history, clash>>

\* epoll_wait returns the descriptor and, with EPOLLONESHOT, disables it.
EpollWait ==
  /\ ~clash /\ isopen /\ armed \in {"in", "out"}
  /\ events = {} /\ Ready # {}
  /\ events' = Ready
  /\ armed' = "off"
  /\ UNCHANGED <<conns, isopen, peerVars, slotVars, tasks, wpc, history, clash>>

\* EPOLLRDHUP, EPOLLHUP or EPOLLERR: close_conn on the epoll thread.
DispatchClose ==
  /\ ~clash /\ "hup" \in events
  /\ events' = {}
  /\ clash' = InUse
  /\ IF m_sockfd
     THEN RemoveFd /\ m_sockfd' = FALSE /\ Reset
     ELSE UNCHANGED <<isopen, armed, slotVars>>
  /\ UNCHANGED <<conns, peerVars, tasks, wpc, history>>

\* EPOLLIN before EPOLLOUT: a handler is committed to the thread pool.
DispatchTask ==
  /\ ~clash /\ events # {} /\ "hup" \notin events
  /\ events' = {}
  /\ tasks' = Append(tasks, IF "in" \in events THEN "read" ELSE "write")
  /\ UNCHANGED <<conns, isopen, armed, peerVars, slotVars, wpc, history, clash>>

-----------------------------------------------------------------------------
(* The workers: handle_read.                                               *)

\* The thread pool runs the next handler.
TakeTask(w) ==
  /\ ~clash /\ wpc[w] = "idle" /\ tasks # <<>>
  /\ tasks' = Tail(tasks)
  /\ clash' = InUse
  /\ Goto(w, Head(tasks))
  /\ UNCHANGED <<conns, isopen, armed, peerVars, slotVars, events, history>>

\* read(): recv until nothing is left.  A 0 removes the descriptor at once,
\* handle_read then calls close_conn; a reset connection fails, and so does a
\* slot that has been closed since the event.
Recv(w) ==
  /\ ~clash /\ wpc[w] = "read"
  /\ IF m_sockfd /\ rcvq > 0
     THEN /\ m_read_index' = m_read_index + rcvq
          /\ rcvq' = 0
          /\ UNCHANGED <<isopen, armed, wpc>>
     ELSE /\ \/ ~m_sockfd /\ UNCHANGED <<isopen, armed>> /\ Goto(w, "close")
             \/ m_sockfd /\ fin /\ (RemoveFd \/ UNCHANGED <<isopen, armed>>) /\ Goto(w, "close")
             \/ m_sockfd /\ ~fin /\ UNCHANGED <<isopen, armed>> /\ Goto(w, "process")
          /\ UNCHANGED <<m_read_index, rcvq>>
  /\ UNCHANGED <<conns, sent, fin, sndq, wire, m_sockfd, m_linger, m_file, m_iv,
                 bytes_to_send, bytes_have_send, events, tasks, history, clash>>

\* Mutant of Complete: an empty line at the end of the buffer is not seen.
CompleteTooLate == m_read_index > 2

\* process_read has found the empty line that ends the head of the request.
Complete == m_read_index >= 2

\* process: NO_REQUEST.
AwaitMore(w) ==
  /\ ~clash /\ wpc[w] = "process" /\ ~Complete
  /\ Goto(w, "armin")
  /\ UNCHANGED <<conns, isopen, armed, peerVars, slotVars, events, tasks, history, clash>>

\* process: a response of the given kind is prepared.
Prepare(w, kind) ==
  /\ ~clash /\ wpc[w] = "process" /\ Complete
  /\ m_linger' \in BOOLEAN
  /\ m_file' = (kind = "file")
  /\ m_iv' = [head |-> <<0, HeadLen>>,
              file |-> <<0, IF kind = "file" THEN FileLen ELSE 0>>]
  /\ bytes_to_send' = HeadLen + (IF kind = "file" THEN FileLen ELSE 0)
  /\ answers' = Append(answers, [kind |-> kind, keep |-> m_linger'])
  /\ due' = due \o Response(Len(answers) + 1, kind)
  /\ Goto(w, "armout")
  /\ UNCHANGED <<conns, isopen, armed, peerVars, m_sockfd, m_read_index,
                 bytes_have_send, events, tasks, clash>>

\* process: process_write makes no response of an empty file; close_conn.
PrepareNothing(w) ==
  /\ ~clash /\ wpc[w] = "process" /\ Complete
  /\ Goto(w, "close")
  /\ UNCHANGED <<conns, isopen, armed, peerVars, slotVars, events, tasks, history, clash>>

\* modfd at the end of process, and after EAGAIN in write.
Modfd(w) ==
  /\ ~clash /\ wpc[w] \in {"armin", "armout"}
  /\ Rearm(IF wpc[w] = "armin" THEN "in" ELSE "out")
  /\ Goto(w, "idle")
  /\ UNCHANGED <<conns, isopen, peerVars, slotVars, events, tasks, history, clash>>

-----------------------------------------------------------------------------
(* The workers: handle_write.                                              *)

Room == SndBuf - Len(sndq)
LeastOf(a, b) == IF a <= b THEN a ELSE b

\* The first n units that the two iovecs describe.
FromHead(n) == LeastOf(n, m_iv.head[2])
Gathered(n) ==
  UnitsOf(Len(answers), "head", m_iv.head[1], FromHead(n))
    \o UnitsOf(Len(answers), "file", m_iv.file[1], n - FromHead(n))

\* Mutant of Advance: the file's iovec is moved by what this call wrote of
\* both.
AdvanceByCall(n, have) ==
  m_iv' = IF have >= m_iv.head[2]
          THEN [head |-> <<m_iv.head[1], 0>>, file |-> <<n, bytes_to_send - n>>]
          ELSE [m_iv EXCEPT !.head = <<have, m_iv.head[2] - n>>]

\* The iovecs after a writev of n units, have in all: the head's is compared
\* with everything sent, so it is taken for finished too soon if it needs more
\* than two calls.
Advance(n, have) ==
  m_iv' = IF have >= m_iv.head[2]
          THEN [head |-> <<m_iv.head[1], 0>>,
                file |-> <<have - HeadLen, bytes_to_send - n>>]
          ELSE [m_iv EXCEPT !.head = <<have, m_iv.head[2] - n>>]

\* writev takes what fits.
Writev(w) ==
  /\ ~clash /\ wpc[w] = "write" /\ Room > 0
  /\ LET n == LeastOf(Room, bytes_to_send)
         have == bytes_have_send + n
     IN /\ sndq' = sndq \o Gathered(n)
        /\ Advance(n, have)
        /\ bytes_have_send' = have
        /\ bytes_to_send' = bytes_to_send - n
  /\ Goto(w, IF bytes_to_send' = 0 THEN "sent" ELSE "write")
  /\ UNCHANGED <<conns, isopen, armed, rcvq, sent, fin, wire, m_sockfd, m_read_index,
                 m_linger, m_file, events, tasks, history, clash>>

\* writev: EAGAIN.
WouldBlock(w) ==
  /\ ~clash /\ wpc[w] = "write" /\ Room = 0
  /\ Goto(w, "armout")
  /\ UNCHANGED <<conns, isopen, armed, peerVars, slotVars, events, tasks, history, clash>>

\* writev fails because the peer has gone: unmap, then close_conn.
WriteFails(w) ==
  /\ ~clash /\ wpc[w] = "write" /\ fin
  /\ m_file' = FALSE
  /\ Goto(w, "close")
  /\ UNCHANGED <<conns, isopen, armed, peerVars, m_sockfd, m_read_index, m_linger, m_iv,
                 bytes_to_send, bytes_have_send, events, tasks, history, clash>>

\* Everything is written: unmap and reset_oneshot, before the slot is reset.
ResponseSent(w) ==
  /\ ~clash /\ wpc[w] = "sent"
  /\ m_file' = FALSE
  /\ Rearm("in")
  /\ Goto(w, "tail")
  /\ UNCHANGED <<conns, isopen, peerVars, m_sockfd, m_read_index, m_linger, m_iv,
                 bytes_to_send, bytes_have_send, events, tasks, history, clash>>

\* A kept connection is reset, another one closed.
Finish(w) ==
  /\ ~clash /\ wpc[w] = "tail"
  /\ IF m_linger
     THEN Reset /\ Goto(w, "idle") /\ UNCHANGED m_sockfd
     ELSE Goto(w, "close") /\ UNCHANGED slotVars
  /\ UNCHANGED <<conns, isopen, armed, peerVars, events, tasks, history, clash>>

\* close_conn: removefd; a descriptor that recv has removed is removed again.
CloseConn(w) ==
  /\ ~clash /\ wpc[w] = "close"
  /\ IF m_sockfd
     THEN RemoveFd /\ Goto(w, "closing")
     ELSE Goto(w, "idle") /\ UNCHANGED <<isopen, armed>>
  /\ UNCHANGED <<conns, peerVars, slotVars, events, tasks, history, clash>>

\* close_conn: m_sockfd = -1 and init().
ClearSlot(w) ==
  /\ ~clash /\ wpc[w] = "closing"
  /\ m_sockfd' = FALSE
  /\ Reset
  /\ Goto(w, "idle")
  /\ UNCHANGED <<conns, isopen, armed, peerVars, events, tasks, history, clash>>

-----------------------------------------------------------------------------
(* The peer.                                                               *)

\* All responses to the requests sent have been received.
Served == sent = 2 * Len(answers) /\ wire = due

\* The last of them said that the connection is kept.
Kept == answers # <<>> => answers[Len(answers)].keep

\* A fragment: the second of a request, or the first of the next one when the
\* previous response is complete and kept the connection.
PeerSends ==
  /\ ~clash /\ isopen /\ ~fin
  /\ sent < 2 * MaxReq
  /\ sent % 2 = 1 \/ (Served /\ Kept)
  /\ sent' = sent + 1
  /\ rcvq' = rcvq + 1
  /\ UNCHANGED <<conns, isopen, armed, fin, sndq, wire, slotVars, events, tasks, wpc,
                 history, clash>>

PeerCloses ==
  /\ ~clash /\ isopen /\ ~fin
  /\ fin' = TRUE
  /\ UNCHANGED <<conns, isopen, armed, rcvq, sent, sndq, wire, slotVars, events, tasks,
                 wpc, history, clash>>

\* The network delivers a unit.
Deliver ==
  /\ ~clash /\ sndq # <<>>
  /\ wire' = Append(wire, Head(sndq))
  /\ sndq' = Tail(sndq)
  /\ UNCHANGED <<conns, isopen, armed, rcvq, sent, fin, slotVars, events, tasks, wpc,
                 history, clash>>

-----------------------------------------------------------------------------
EpollThread == Accept \/ EpollWait \/ DispatchClose \/ DispatchTask

HandleRead(w) == \/ Recv(w) \/ AwaitMore(w) \/ PrepareNothing(w)
                 \/ \E kind \in {"file", "error"} : Prepare(w, kind)

HandleWrite(w) == Writev(w) \/ WouldBlock(w) \/ WriteFails(w) \/ ResponseSent(w) \/ Finish(w)

Worker(w) == TakeTask(w) \/ HandleRead(w) \/ HandleWrite(w) \/ Modfd(w)
             \/ CloseConn(w) \/ ClearSlot(w)

Next == \/ EpollThread
        \/ \E w \in Workers : Worker(w)
        \/ PeerSends \/ PeerCloses \/ Deliver

\* The epoll thread and the workers go on and the network delivers.  Nobody
\* has to connect, to send or to close.
Fairness ==
  /\ WF_vars(EpollWait \/ DispatchClose \/ DispatchTask)
  /\ WF_vars(\E w \in Workers : Worker(w))
  /\ WF_vars(Deliver)

Spec == Init /\ [][Next]_vars /\ Fairness

-----------------------------------------------------------------------------
(* Properties.                                                             *)

Inside(w) == wpc[w] # "idle"
\* What a worker does after it has enabled the descriptor again, or to close.
Leaving(w) == wpc[w] \in {"tail", "close", "closing"}
Enabled == armed \in {"in", "out"}

\* The right to use the slot: until the first clash the descriptor is enabled
\* in epoll, or reported, or its handler queued, or a worker is inside, and
\* only one of these at a time except for a worker that is leaving.  An open
\* connection always has one of them: it is never left disabled with nobody
\* to enable it, which would hang it for ever.
OneUser ==
  /\ TypeOK
  /\ ~clash =>
       /\ \A v, w \in Workers : Inside(v) /\ Inside(w) => v = w
       /\ ~(Enabled /\ OnItsWay) /\ ~(events # {} /\ tasks # <<>>)
       /\ Len(tasks) <= 1
       /\ \A w \in Workers : Inside(w) /\ (Enabled \/ OnItsWay) => Leaving(w)
       /\ isopen => Enabled \/ OnItsWay \/ InUse

\* EPOLLONESHOT does keep a second thread out of the handlers until the first
\* one has enabled the descriptor again or closes it: a clash needs a worker
\* that is leaving, or a connection accepted into the slot while an event of
\* the previous one is on its way.
ClashOnlyAtTheEnd ==
  [][clash' => (\E w \in Workers : Leaving(w)) \/ (Accept /\ OnItsWay)]_vars

\* The peer gets the responses whole, in order and none before its request:
\* what it has received, what the kernel holds and what the iovecs still
\* describe is the stream of the responses, across partial writes and EAGAIN.
ResponsesInOrder ==
  isopen /\ ~clash =>
    /\ wire \o sndq \o Gathered(bytes_to_send) = due
    /\ 2 * Len(answers) <= sent

\* A complete request is answered in full, unless the connection is closed.
RequestAnswered ==
  (isopen /\ sent > 0 /\ sent % 2 = 0) ~> (Served \/ ~isopen \/ fin \/ clash)

\* A connection the peer has closed is closed.
PeerCloseReclaims == (isopen /\ fin) ~> (~isopen \/ clash)

\* "Keep different threads from handling the same communication."
OneHandler == ~clash
=============================================================================
