--------------------------- MODULE ConnectionPool ---------------------------
(***************************************************************************)
(* The MySQL connection pool: client threads that borrow and return        *)
(* connections, the producer thread and the scanner thread, with one mutex *)
(* and one condition variable.  A critical section without a wait in it is *)
(* one step; the scanner's loop, which keeps the mutex, is one step for    *)
(* each connection.  Time is a clock that ticks up to MaxNow.              *)
(***************************************************************************)
EXTENDS Naturals, Sequences, FiniteSets

CONSTANTS Clients,       \* threads that use the pool
          Conns,         \* addresses of Connection objects
          InitSize,      \* m_initSize
          MaxSize,       \* m_maxSize
          MaxIdleTime,   \* m_maxIdleTime, in ticks
          MaxNow         \* bound of the clock

ASSUME SizeAssumption == /\ InitSize \in Nat
                         /\ MaxSize \in Nat
                         /\ InitSize <= MaxSize
ASSUME ConnsAssumption == IsFiniteSet(Conns)
ASSUME TimeAssumption == MaxIdleTime \in Nat /\ MaxNow \in Nat

VARIABLES queue,     \* m_connectionQue
          cnt,       \* m_connectionCnt
          at,        \* each client: "idle", "test" (of the queue, with the
                     \* mutex), "wait" (in cv.wait_for) or "use"
          holds,     \* the connection of a client that is at "use"
          producer,  \* "awake" or "asleep" (in cv.wait)
          scanning,  \* the scanner holds the mutex
          scanAt,    \* when the scanner's sleep ends
          live,      \* Connection objects that exist
          stamp,     \* m_alivetime of each
          now        \* the clock

vars == <<queue, cnt, at, holds, producer, scanning, scanAt, live, stamp,
          now>>

scanVars == <<scanning, scanAt>>

Queued == {queue[i] : i \in DOMAIN queue}
Users == {c \in Clients : at[c] = "use"}
Lent == {holds[c] : c \in Users}

TypeOK ==
  /\ queue \in Seq(Conns)
  /\ cnt \in Nat
  /\ at \in [Clients -> {"idle", "test", "wait", "use"}]
  /\ holds \in [Clients -> Conns]
  /\ producer \in {"awake", "asleep"}
  /\ scanning \in BOOLEAN
  /\ scanAt \in Nat
  /\ live \in SUBSET Conns
  /\ stamp \in [Conns -> Nat]
  /\ now \in Nat

\* The constructor has filled the queue; the threads start.
Init ==
  /\ cnt = InitSize
  /\ queue \in [1..InitSize -> Conns]
  /\ \A i, j \in 1..InitSize : queue[i] = queue[j] => i = j
  /\ live = Queued
  /\ at = [c \in Clients |-> "idle"]
  /\ holds \in [Clients -> Conns]
  /\ producer = "awake"
  /\ scanning = FALSE
  /\ scanAt = MaxIdleTime
  /\ now = 0
  /\ stamp = [p \in Conns |-> 0]

Aged(p) == now - stamp[p] >= MaxIdleTime

\* cv.notify_all(): the waiting clients and the producer.
WokenClients == [c \in Clients |-> IF at[c] = "wait" THEN "test" ELSE at[c]]

-----------------------------------------------------------------------------
(* getConnection and the deleter of the shared_ptr it returns.             *)

Call(c) ==
  /\ at[c] = "idle"
  /\ at' = [at EXCEPT ![c] = "test"]
  /\ UNCHANGED <<queue, cnt, holds, producer, scanVars, live, stamp, now>>

\* The queue has a connection: take the front and notify everybody.
Take(c) ==
  /\ ~scanning
  /\ at[c] = "test" /\ queue # <<>>
  /\ holds' = [holds EXCEPT ![c] = Head(queue)]
  /\ queue' = Tail(queue)
  /\ at' = [WokenClients EXCEPT ![c] = "use"]
  /\ producer' = "awake"
  /\ UNCHANGED <<cnt, scanVars, live, stamp, now>>

\* The queue is empty: cv.wait_for.
Wait(c) ==
  /\ ~scanning
  /\ at[c] = "test" /\ queue = <<>>
  /\ at' = [at EXCEPT ![c] = "wait"]
  /\ UNCHANGED <<queue, cnt, holds, producer, scanVars, live, stamp, now>>

\* wait_for times out (or wakes spuriously): the loop tests the queue again,
\* also when the queue is still empty (the "return nullptr" is commented out).
TimeOut(c) ==
  /\ at[c] = "wait"
  /\ at' = [at EXCEPT ![c] = "test"]
  /\ UNCHANGED <<queue, cnt, holds, producer, scanVars, live, stamp, now>>

\* Mutant of Return: the idle time is not refreshed.
ReturnStale(c) ==
  /\ ~scanning
  /\ at[c] = "use"
  /\ at' = [at EXCEPT ![c] = "idle"]
  /\ queue' = Append(queue, holds[c])
  /\ UNCHANGED <<cnt, holds, producer, scanVars, live, stamp, now>>

\* Mutant of Return: shared_ptr's default deleter.
ReturnDeletes(c) ==
  /\ ~scanning
  /\ at[c] = "use"
  /\ at' = [at EXCEPT ![c] = "idle"]
  /\ live' = live \ {holds[c]}
  /\ UNCHANGED <<queue, cnt, holds, producer, scanVars, stamp, now>>

\* The deleter: the connection goes back to the queue; nobody is notified.
Return(c) ==
  /\ ~scanning
  /\ at[c] = "use"
  /\ at' = [at EXCEPT ![c] = "idle"]
  /\ stamp' = [stamp EXCEPT ![holds[c]] = now]
  /\ queue' = Append(queue, holds[c])
  /\ UNCHANGED <<cnt, holds, producer, scanVars, live, now>>

-----------------------------------------------------------------------------
(* produceConnectionTask                                                   *)

\* The queue is not empty: cv.wait.
ProducerWaits ==
  /\ ~scanning
  /\ producer = "awake" /\ queue # <<>>
  /\ producer' = "asleep"
  /\ UNCHANGED <<queue, cnt, at, holds, scanVars, live, stamp, now>>

MayProduce == cnt < MaxSize

\* The queue is empty: a new connection, unless there are MaxSize, and notify.
\* Whether connect() succeeded is not looked at.
Produce ==
  /\ ~scanning
  /\ producer = "awake" /\ queue = <<>>
  /\ \/ /\ MayProduce
        /\ \E p \in Conns \ live :
             /\ live' = live \cup {p}
             /\ queue' = <<p>>
             /\ stamp' = [stamp EXCEPT ![p] = now]
        /\ cnt' = cnt + 1
     \/ /\ ~MayProduce
        /\ UNCHANGED <<queue, cnt, live, stamp>>
  /\ at' = WokenClients
  /\ UNCHANGED <<holds, producer, scanVars, now>>

\* A spurious wakeup of cv.wait.
ProducerWakes ==
  /\ producer = "asleep"
  /\ producer' = "awake"
  /\ UNCHANGED <<queue, cnt, at, holds, scanVars, live, stamp, now>>

-----------------------------------------------------------------------------
(* scannerConnectionTask                                                   *)

\* sleep_for(maxIdleTime) is over: lock.
ScanBegin ==
  /\ ~scanning /\ now >= scanAt
  /\ scanning' = TRUE
  /\ UNCHANGED <<scanAt, queue, cnt, at, holds, producer, live, stamp, now>>

\* Mutant of Surplus: one connection too few is kept.
SurplusOrEqual == cnt >= InitSize

\* More connections than the pool keeps.
Surplus == cnt > InitSize

FrontAged == queue # <<>> /\ Aged(Head(queue))

\* One round of the loop: the front has been idle too long.
ScanDelete ==
  /\ scanning
  /\ Surplus /\ FrontAged
  /\ queue' = Tail(queue)
  /\ cnt' = cnt - 1
  /\ live' = live \ {Head(queue)}
  /\ UNCHANGED <<at, holds, producer, scanVars, stamp, now>>

\* The loop ends, at the latest at the first connection that is young enough.
ScanEnd ==
  /\ scanning
  /\ ~(Surplus /\ FrontAged)
  /\ scanning' = FALSE
  /\ scanAt' = now + MaxIdleTime
  /\ UNCHANGED <<queue, cnt, at, holds, producer, live, stamp, now>>

Tick ==
  /\ now < MaxNow
  /\ now' = now + 1
  /\ UNCHANGED <<queue, cnt, at, holds, producer, scanVars, live, stamp>>

-----------------------------------------------------------------------------
Client(c) == Call(c) \/ Take(c) \/ Wait(c) \/ TimeOut(c) \/ Return(c)
Producer == ProducerWaits \/ Produce \/ ProducerWakes
Scanner == ScanBegin \/ ScanDelete \/ ScanEnd

Next == (\E c \in Clients : Client(c)) \/ Producer \/ Scanner \/ Tick

\* The pool's own threads run, the mutex goes round, timeouts fire.
PoolFairness ==
  /\ \A c \in Clients : WF_vars(Take(c)) /\ WF_vars(Wait(c)) /\ WF_vars(TimeOut(c))
  /\ WF_vars(ProducerWaits \/ Produce)
  /\ WF_vars(ScanDelete \/ ScanEnd)

Spec == Init /\ [][Next]_vars /\ PoolFairness

\* In addition every client gives back what it borrows.
SpecReturning == Spec /\ \A c \in Clients : SF_vars(Return(c))

-----------------------------------------------------------------------------
(* Properties.                                                             *)

QueueDistinct == \A i, j \in DOMAIN queue : queue[i] = queue[j] => i = j
LentDistinct == \A c, d \in Users : holds[c] = holds[d] => c = d

\* Each existing connection is in the queue once or lent to one client, never
\* both, a deleted one is neither, and m_connectionCnt counts them.
Accounting ==
  /\ TypeOK
  /\ QueueDistinct
  /\ LentDistinct
  /\ Queued \cap Lent = {}
  /\ Queued \cup Lent = live
  /\ cnt = Cardinality(live)

\* However clients, producer and scanner interleave, the pool never exceeds
\* maxSize and the scanner never takes it below initSize.
SizeBounded == InitSize <= cnt /\ cnt <= MaxSize

\* "If the front has not exceeded the idle time the others certainly have
\* not": the queue is ordered by idle time, so that the scanner may stop at
\* the first connection that is young enough.
OrderedByIdleTime ==
  \A i, j \in DOMAIN queue : i <= j => stamp[queue[i]] <= stamp[queue[j]]

\* The pool is sound: accounted for, and within its sizes.
PoolSound == Accounting /\ SizeBounded

\* What the scanner leaves: no surplus connection that was idle too long.
ScanIsComplete ==
  [][ScanEnd /\ Surplus => \A i \in DOMAIN queue : ~Aged(queue[i])]_vars

\* While clients give back what they borrow the pool keeps serving: a client
\* can only wait for ever while others are served again and again.
PoolNeverStuck ==
  \A c \in Clients :
    <>[](at[c] \in {"test", "wait"}) => []<>(\E d \in Clients : at[d] = "use")
=============================================================================
