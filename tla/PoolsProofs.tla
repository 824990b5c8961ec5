---------------------------- MODULE PoolsProofs ----------------------------
(***************************************************************************)
(* Proofs about the two pools, which share no state.                       *)
(*                                                                         *)
(* ConnectionPool, for any number of clients and connections and any sizes *)
(* and times: the accounting of connections, the bounds on their number,   *)
(* the order of the queue, what a scan leaves and whom a client waits for. *)
(*                                                                         *)
(* ThreadPool, for any set of workers, clients and tasks and both ways to  *)
(* notify: no task is left with every worker asleep, and tasks are taken   *)
(* in order, each once.                                                    *)
(***************************************************************************)
EXTENDS ConnectionPool, ThreadPool, SequenceTheorems, FiniteSetTheorems, TLAPS

\* No connection has become idle in the future.
StampsPast == \A p \in Conns : stamp[p] <= now

\* The inductive invariant.
PoolInv == Accounting /\ SizeBounded /\ OrderedByIdleTime /\ StampsPast

-----------------------------------------------------------------------------
(* The queue as a sequence.                                                *)

\* Popping the front shifts the rest of a sequence by one place.
LEMMA TailShifts ==
  ASSUME NEW S, NEW s \in Seq(S), s # <<>>
  PROVE  /\ Tail(s) \in Seq(S)
         /\ DOMAIN s = 1..Len(s) /\ Len(s) \in Nat \ {0}
         /\ DOMAIN Tail(s) = 1..(Len(s) - 1)
         /\ \A i \in DOMAIN Tail(s) : i + 1 \in DOMAIN s /\ Tail(s)[i] = s[i + 1]
         /\ 1 \in DOMAIN s /\ Head(s) = s[1] /\ s[1] \in S
<1>1. Len(s) \in Nat \ {0} /\ DOMAIN s = 1..Len(s)
  BY EmptySeq
<1>2. Tail(s) \in Seq(S) /\ Len(Tail(s)) = Len(s) - 1
  OBVIOUS
<1>3. DOMAIN Tail(s) = 1..(Len(s) - 1)
  BY <1>2
<1>4. ASSUME NEW i \in DOMAIN Tail(s)
      PROVE  i + 1 \in DOMAIN s /\ Tail(s)[i] = s[i + 1]
  BY <1>1, <1>3
<1>5. 1 \in DOMAIN s /\ Head(s) = s[1] /\ s[1] \in S
  BY <1>1
<1> QED
  BY <1>1, <1>2, <1>3, <1>4, <1>5

\* Taking the front connection takes exactly that one out of the queue.
LEMMA PopQueue ==
  ASSUME TypeOK, QueueDistinct, queue # <<>>, queue' = Tail(queue)
  PROVE  /\ queue' \in Seq(Conns)
         /\ QueueDistinct'
         /\ Head(queue) \in Queued /\ Head(queue) \in Conns
         /\ Queued' = Queued \ {Head(queue)}
<1> DEFINE n == Len(queue)
<1>1. /\ DOMAIN queue = 1..n /\ n \in Nat \ {0}
      /\ DOMAIN queue' = 1..(n - 1)
      /\ \A i \in DOMAIN queue' : i + 1 \in DOMAIN queue /\ queue'[i] = queue[i + 1]
      /\ 1 \in DOMAIN queue /\ Head(queue) = queue[1] /\ queue[1] \in Conns
      /\ queue' \in Seq(Conns)
  BY TailShifts DEF TypeOK
<1>2. QueueDistinct'
  <2> SUFFICES ASSUME NEW i \in DOMAIN queue', NEW j \in DOMAIN queue',
                      queue'[i] = queue'[j]
               PROVE  i = j
    BY DEF QueueDistinct
  <2>1. i + 1 = j + 1
    BY <1>1 DEF QueueDistinct
  <2> QED
    BY <1>1, <2>1
<1>3. \A p \in Queued' : p \in Queued /\ p # Head(queue)
  <2> SUFFICES ASSUME NEW i \in DOMAIN queue'
               PROVE  queue'[i] \in Queued /\ queue'[i] # Head(queue)
    BY DEF Queued
  <2>1. i + 1 # 1 /\ i + 1 \in DOMAIN queue
    BY <1>1
  <2> QED
    BY <1>1, <2>1 DEF Queued, QueueDistinct
<1>4. \A p \in Queued : p # Head(queue) => p \in Queued'
  <2> SUFFICES ASSUME NEW i \in DOMAIN queue, queue[i] # queue[1]
               PROVE  queue[i] \in Queued'
    BY <1>1 DEF Queued
  <2>1. i - 1 \in DOMAIN queue' /\ (i - 1) + 1 = i
    BY <1>1
  <2> QED
    BY <1>1, <2>1 DEF Queued
<1> QED
  BY <1>1, <1>2, <1>3, <1>4 DEF Queued

\* Pushing a connection that is not queued keeps the queue free of duplicates.
LEMMA PushQueue ==
  ASSUME TypeOK, QueueDistinct, NEW p \in Conns, p \notin Queued,
         queue' = Append(queue, p)
  PROVE  /\ queue' \in Seq(Conns)
         /\ QueueDistinct'
         /\ Queued' = Queued \cup {p}
         /\ DOMAIN queue' = 1..(Len(queue) + 1)
         /\ \A i \in DOMAIN queue :
              queue'[i] = queue[i] /\ i \in DOMAIN queue' /\ i < Len(queue) + 1
         /\ queue'[Len(queue) + 1] = p
<1> DEFINE n == Len(queue)
<1>1. queue \in Seq(Conns) /\ n \in Nat /\ DOMAIN queue = 1..n
  BY DEF TypeOK
<1>2. /\ queue' \in Seq(Conns)
      /\ DOMAIN queue' = 1..(n + 1)
      /\ \A i \in 1..n : queue'[i] = queue[i]
      /\ queue'[n + 1] = p
  BY <1>1
<1>3. \A i \in DOMAIN queue' : i \in DOMAIN queue \/ i = n + 1
  BY <1>1, <1>2
<1>4. \A i \in DOMAIN queue : i \in DOMAIN queue' /\ i # n + 1 /\ i < n + 1
  BY <1>1, <1>2
<1>5. n + 1 \in DOMAIN queue'
  BY <1>1, <1>2
<1>6. Queued' = Queued \cup {p}
  BY <1>1, <1>2, <1>3, <1>4, <1>5 DEF Queued
<1>7. QueueDistinct'
  BY <1>1, <1>2, <1>3 DEF QueueDistinct, Queued
<1> QED
  BY <1>1, <1>2, <1>4, <1>6, <1>7

-----------------------------------------------------------------------------
(* Types.                                                                  *)

LEMMA InitType == Init => TypeOK
<1> SUFFICES ASSUME Init PROVE TypeOK
  OBVIOUS
<1>1. queue \in Seq(Conns) /\ cnt \in Nat
  BY SizeAssumption DEF Init
<1>2. live \in SUBSET Conns
  BY DEF Init, Queued
<1>3. scanAt \in Nat /\ now \in Nat /\ stamp \in [Conns -> Nat]
  BY TimeAssumption DEF Init
<1> QED
  BY <1>1, <1>2, <1>3 DEF Init, TypeOK

LEMMA NextType == TypeOK /\ QueueDistinct /\ cnt >= InitSize /\ [Next]_vars => TypeOK'
<1> SUFFICES ASSUME TypeOK, QueueDistinct, cnt >= InitSize, [Next]_vars
             PROVE  TypeOK'
  OBVIOUS
<1> USE DEF TypeOK
<1>1. WokenClients \in [Clients -> {"idle", "test", "wait", "use"}]
  BY DEF WokenClients
<1>2. ASSUME NEW c \in Clients, Call(c) PROVE TypeOK'
  BY <1>2 DEF Call, scanVars
<1>3. ASSUME NEW c \in Clients, Take(c) PROVE TypeOK'
  <2>1. queue' \in Seq(Conns) /\ Head(queue) \in Conns
    BY <1>3, PopQueue DEF Take
  <2>2. holds' \in [Clients -> Conns]
    BY <1>3, <2>1 DEF Take
  <2>3. at' \in [Clients -> {"idle", "test", "wait", "use"}]
    BY <1>1, <1>3 DEF Take
  <2> QED
    BY <1>3, <2>1, <2>2, <2>3 DEF Take, scanVars
<1>4. ASSUME NEW c \in Clients, Wait(c) PROVE TypeOK'
  BY <1>4 DEF Wait, scanVars
<1>5. ASSUME NEW c \in Clients, TimeOut(c) PROVE TypeOK'
  BY <1>5 DEF TimeOut, scanVars
<1>6. ASSUME NEW c \in Clients, Return(c) PROVE TypeOK'
  <2>1. queue' \in Seq(Conns)
    BY <1>6 DEF Return
  <2>2. stamp' \in [Conns -> Nat]
    BY <1>6 DEF Return
  <2>3. at' \in [Clients -> {"idle", "test", "wait", "use"}]
    BY <1>6 DEF Return
  <2> QED
    BY <1>6, <2>1, <2>2, <2>3 DEF Return, scanVars
<1>7. CASE ProducerWaits
  BY <1>7 DEF ProducerWaits, scanVars
<1>8. CASE Produce
  <2>1. at' \in [Clients -> {"idle", "test", "wait", "use"}]
    BY <1>1, <1>8 DEF Produce
  <2>2. CASE MayProduce
    <3>1. PICK p \in Conns \ live :
            /\ live' = live \cup {p}
            /\ queue' = <<p>>
            /\ stamp' = [stamp EXCEPT ![p] = now]
      BY <1>8, <2>2 DEF Produce
    <3>2. queue' \in Seq(Conns) /\ cnt' \in Nat /\ stamp' \in [Conns -> Nat]
      BY <1>8, <2>2, <3>1 DEF Produce
    <3> QED
      BY <1>8, <2>1, <3>1, <3>2 DEF Produce, scanVars
  <2>3. CASE ~MayProduce
    BY <1>8, <2>1, <2>3 DEF Produce, scanVars
  <2> QED
    BY <2>2, <2>3
<1>9. CASE ProducerWakes
  BY <1>9 DEF ProducerWakes, scanVars
<1>10. CASE ScanBegin
  BY <1>10 DEF ScanBegin
<1>11. CASE ScanDelete
  <2>1. queue' \in Seq(Conns)
    BY <1>11, PopQueue DEF ScanDelete, FrontAged
  <2>2. cnt' \in Nat
    BY <1>11, SizeAssumption DEF ScanDelete, Surplus
  <2> QED
    BY <1>11, <2>1, <2>2 DEF ScanDelete, scanVars
<1>12. CASE ScanEnd
  <2>1. scanAt' \in Nat
    BY <1>12, TimeAssumption DEF ScanEnd
  <2>2. scanning' \in BOOLEAN
    BY <1>12 DEF ScanEnd
  <2> QED
    BY <1>12, <2>1, <2>2 DEF ScanEnd
<1>13. CASE Tick
  BY <1>13 DEF Tick, scanVars
<1>14. CASE UNCHANGED vars
  BY <1>14 DEF vars
<1> QED
  BY <1>2, <1>3, <1>4, <1>5, <1>6, <1>7, <1>8, <1>9, <1>10, <1>11, <1>12,
     <1>13, <1>14 DEF Next, Client, Producer, Scanner

-----------------------------------------------------------------------------
(* The accounting.                                                         *)

LEMMA InitPoolInv == Init => PoolInv
<1> SUFFICES ASSUME Init PROVE PoolInv
  OBVIOUS
<1>1. TypeOK
  BY InitType
<1>2. DOMAIN queue = 1..InitSize
  BY DEF Init
<1>3. QueueDistinct
  BY <1>2 DEF Init, QueueDistinct
<1>4. Users = {} /\ Lent = {}
  BY DEF Init, Users, Lent
<1>5. IsFiniteSet(live) /\ Cardinality(live) = InitSize
  <2>1. queue \in Bijection(1..InitSize, live)
    BY <1>2, <1>3 DEF Init, Queued, QueueDistinct, Bijection, Injection,
                       Surjection, IsInjective
  <2>2. IsFiniteSet(1..InitSize) /\ Cardinality(1..InitSize) = InitSize
    BY FS_Interval, SizeAssumption
  <2> QED
    BY <2>1, <2>2, FS_Bijection DEF ExistsBijection
<1>6. Accounting
  BY <1>1, <1>3, <1>4, <1>5 DEF Init, Accounting, LentDistinct
<1>7. OrderedByIdleTime /\ StampsPast
  BY <1>1 DEF Init, OrderedByIdleTime, StampsPast, TypeOK
<1> QED
  BY <1>6, <1>7, SizeAssumption DEF PoolInv, SizeBounded, Init

\* A step that changes neither the queue, the borrowers, the connections nor
\* the clock keeps the invariant.
LEMMA QuietStep ==
  ASSUME PoolInv, TypeOK', Users' = Users,
         UNCHANGED <<queue, cnt, holds, live, stamp, now>>
  PROVE  PoolInv'
BY DEF PoolInv, Accounting, QueueDistinct, LentDistinct, Queued, Lent,
       SizeBounded, OrderedByIdleTime, StampsPast

\* Waking the waiting clients borrows and returns nothing.
LEMMA WakingLends ==
  ASSUME TypeOK
  PROVE  \A c \in Clients : WokenClients[c] = "use" <=> at[c] = "use"
BY DEF TypeOK, WokenClients

LEMMA TakeStep ==
  ASSUME PoolInv, TypeOK', NEW c \in Clients, Take(c)
  PROVE  PoolInv'
<1> DEFINE p == Head(queue)
<1> USE DEF Take
<1>1. TypeOK /\ QueueDistinct /\ LentDistinct
  BY DEF PoolInv, Accounting
<1>2. /\ QueueDistinct' /\ p \in Queued /\ Queued' = Queued \ {p}
  BY <1>1, PopQueue
<1>3. Users' = Users \cup {c} /\ c \notin Users
  BY <1>1, WakingLends DEF Users, TypeOK
<1>4. holds'[c] = p /\ \A d \in Users : holds'[d] = holds[d]
  BY <1>1, <1>3 DEF TypeOK, Users
<1>5. Lent' = Lent \cup {p}
  BY <1>3, <1>4 DEF Lent
<1>6. p \notin Lent
  BY <1>2 DEF PoolInv, Accounting
<1>7. LentDistinct'
  BY <1>1, <1>3, <1>4, <1>6 DEF LentDistinct, Lent
<1>8. Accounting'
  BY <1>2, <1>5, <1>6, <1>7 DEF PoolInv, Accounting
<1>9. OrderedByIdleTime'
  <2> SUFFICES ASSUME NEW i \in DOMAIN queue', NEW j \in DOMAIN queue', i <= j
               PROVE  stamp[queue'[i]] <= stamp[queue'[j]]
    BY DEF OrderedByIdleTime
  <2>1. /\ i \in Nat /\ j \in Nat
        /\ i + 1 \in DOMAIN queue /\ j + 1 \in DOMAIN queue
        /\ queue'[i] = queue[i + 1] /\ queue'[j] = queue[j + 1]
    BY <1>1, TailShifts DEF TypeOK
  <2> QED
    BY <2>1 DEF PoolInv, OrderedByIdleTime
<1> QED
  BY <1>8, <1>9 DEF PoolInv, SizeBounded, StampsPast

LEMMA ReturnStep ==
  ASSUME PoolInv, TypeOK', NEW c \in Clients, Return(c)
  PROVE  PoolInv'
<1> DEFINE p == holds[c]
<1> USE DEF Return
<1>1. TypeOK /\ QueueDistinct /\ LentDistinct
  BY DEF PoolInv, Accounting
<1>2. c \in Users /\ p \in Lent /\ p \notin Queued /\ p \in Conns
  BY <1>1 DEF Users, Lent, PoolInv, Accounting, TypeOK
<1>3. /\ QueueDistinct' /\ Queued' = Queued \cup {p}
      /\ DOMAIN queue' = 1..(Len(queue) + 1)
      /\ \A i \in DOMAIN queue :
           queue'[i] = queue[i] /\ i \in DOMAIN queue' /\ i < Len(queue) + 1
      /\ queue'[Len(queue) + 1] = p
  BY <1>1, <1>2, PushQueue
<1>4. Users' = Users \ {c}
  BY <1>1 DEF Users, TypeOK
<1>5. LentDistinct'
  BY <1>1, <1>4 DEF LentDistinct
<1>6. Lent' = Lent \ {p}
  BY <1>1, <1>2, <1>4 DEF Lent, LentDistinct
<1>7. Accounting'
  BY <1>2, <1>3, <1>5, <1>6 DEF PoolInv, Accounting
<1>8. StampsPast'
  BY <1>1 DEF PoolInv, StampsPast, TypeOK
<1>9. OrderedByIdleTime'
  <2> SUFFICES ASSUME NEW i \in DOMAIN queue', NEW j \in DOMAIN queue', i <= j
               PROVE  stamp'[queue'[i]] <= stamp'[queue'[j]]
    BY DEF OrderedByIdleTime
  <2>1. Len(queue) \in Nat /\ DOMAIN queue = 1..Len(queue)
    BY <1>1 DEF TypeOK
  <2>2. stamp'[p] = now /\ \A k \in DOMAIN queue : stamp'[queue[k]] = stamp[queue[k]]
    BY <1>1, <1>2 DEF TypeOK, Queued
  <2>3. CASE j \in DOMAIN queue
    <3>1. i \in DOMAIN queue
      BY <1>3, <2>1, <2>3
    <3> QED
      BY <1>3, <2>2, <2>3, <3>1 DEF PoolInv, OrderedByIdleTime
  <2>4. CASE j = Len(queue) + 1
    <3>1. queue'[i] \in Conns /\ stamp'[queue'[j]] = now
      BY <1>3, <2>2, <2>4 DEF TypeOK
    <3> QED
      BY <3>1, <1>8 DEF StampsPast
  <2> QED
    BY <1>3, <2>1, <2>3, <2>4
<1> QED
  BY <1>7, <1>8, <1>9 DEF PoolInv, SizeBounded

LEMMA ProduceStep ==
  ASSUME PoolInv, TypeOK', Produce
  PROVE  PoolInv'
<1> USE DEF Produce
<1>1. TypeOK /\ QueueDistinct /\ LentDistinct /\ queue = <<>>
  BY DEF PoolInv, Accounting
<1>2. Users' = Users
  BY <1>1, WakingLends DEF Users
<1>3. CASE ~MayProduce
  BY <1>1, <1>2, <1>3, QuietStep
<1>4. CASE MayProduce
  <2>1. PICK p \in Conns \ live :
          /\ live' = live \cup {p}
          /\ queue' = <<p>>
          /\ stamp' = [stamp EXCEPT ![p] = now]
    BY <1>4
  <2>2. Queued = {} /\ Lent = live
    <3>1. DOMAIN queue = {}
      BY <1>1
    <3>2. Queued = {}
      BY <3>1 DEF Queued
    <3>3. Queued \cup Lent = live
      BY DEF PoolInv, Accounting
    <3> QED
      BY <3>2, <3>3
  <2>3. DOMAIN queue' = {1} /\ queue'[1] = p
    BY <2>1
  <2>4. Queued' = {p} /\ QueueDistinct'
    BY <2>3 DEF Queued, QueueDistinct
  <2>5. Lent' = Lent /\ LentDistinct'
    BY <1>1, <1>2 DEF Lent, LentDistinct
  <2>6. cnt' = Cardinality(live')
    <3>1. IsFiniteSet(live)
      BY <1>1, ConnsAssumption, FS_Subset DEF TypeOK
    <3> QED
      BY <1>4, <2>1, <3>1, FS_AddElement DEF PoolInv, Accounting
  <2>7. Accounting'
    BY <2>1, <2>2, <2>4, <2>5, <2>6 DEF Accounting
  <2>8. SizeBounded'
    BY <1>1, <1>4, SizeAssumption DEF PoolInv, SizeBounded, MayProduce, TypeOK
  <2>9. StampsPast' /\ OrderedByIdleTime'
    BY <1>1, <2>1, <2>3 DEF PoolInv, StampsPast, OrderedByIdleTime, TypeOK
  <2> QED
    BY <2>7, <2>8, <2>9 DEF PoolInv
<1> QED
  BY <1>3, <1>4

LEMMA DeleteStep ==
  ASSUME PoolInv, TypeOK', ScanDelete
  PROVE  PoolInv'
<1> DEFINE p == Head(queue)
<1> USE DEF ScanDelete, FrontAged
<1>1. TypeOK /\ QueueDistinct /\ LentDistinct
  BY DEF PoolInv, Accounting
<1>2. QueueDistinct' /\ p \in Queued /\ p \in Conns /\ Queued' = Queued \ {p}
  BY <1>1, PopQueue
<1>3. Lent' = Lent /\ LentDistinct'
  BY <1>1 DEF Lent, LentDistinct, Users
<1>4. cnt' = Cardinality(live')
  <2>1. IsFiniteSet(live) /\ p \in live
    BY <1>1, <1>2, ConnsAssumption, FS_Subset DEF TypeOK, PoolInv, Accounting
  <2> QED
    BY <2>1, FS_RemoveElement DEF PoolInv, Accounting
<1>5. Accounting'
  BY <1>2, <1>3, <1>4 DEF PoolInv, Accounting
<1>6. SizeBounded'
  BY <1>1, SizeAssumption DEF PoolInv, SizeBounded, Surplus, TypeOK
<1>7. OrderedByIdleTime'
  <2> SUFFICES ASSUME NEW i \in DOMAIN queue', NEW j \in DOMAIN queue', i <= j
               PROVE  stamp[queue'[i]] <= stamp[queue'[j]]
    BY DEF OrderedByIdleTime
  <2>1. /\ i \in Nat /\ j \in Nat
        /\ i + 1 \in DOMAIN queue /\ j + 1 \in DOMAIN queue
        /\ queue'[i] = queue[i + 1] /\ queue'[j] = queue[j + 1]
    BY <1>1, TailShifts DEF TypeOK
  <2> QED
    BY <2>1 DEF PoolInv, OrderedByIdleTime
<1> QED
  BY <1>5, <1>6, <1>7 DEF PoolInv, StampsPast

LEMMA NextPoolInv == PoolInv /\ [Next]_vars => PoolInv'
<1> SUFFICES ASSUME PoolInv, [Next]_vars PROVE PoolInv'
  OBVIOUS
<1>1. TypeOK /\ QueueDistinct /\ cnt >= InitSize
  BY SizeAssumption DEF PoolInv, Accounting, SizeBounded, TypeOK
<1>2. TypeOK'
  BY <1>1, NextType
<1>3. ASSUME NEW c \in Clients, Client(c) PROVE PoolInv'
  <2>1. CASE Call(c) \/ Wait(c) \/ TimeOut(c)
    <3>1. Users' = Users
      BY <1>1, <2>1 DEF Call, Wait, TimeOut, Users, TypeOK
    <3> QED
      BY <1>2, <2>1, <3>1, QuietStep DEF Call, Wait, TimeOut
  <2>2. CASE Take(c)
    BY <1>2, <2>2, TakeStep
  <2>3. CASE Return(c)
    BY <1>2, <2>3, ReturnStep
  <2> QED
    BY <1>3, <2>1, <2>2, <2>3 DEF Client
<1>4. CASE Producer
  <2>1. CASE ProducerWaits \/ ProducerWakes
    BY <1>2, <2>1, QuietStep DEF ProducerWaits, ProducerWakes, Users
  <2> QED
    BY <1>2, <1>4, <2>1, ProduceStep DEF Producer
<1>5. CASE Scanner
  <2>1. CASE ScanBegin \/ ScanEnd
    BY <1>2, <2>1, QuietStep DEF ScanBegin, ScanEnd, Users
  <2> QED
    BY <1>2, <1>5, <2>1, DeleteStep DEF Scanner
<1>6. CASE Tick
  <2>1. StampsPast'
    BY <1>1, <1>6 DEF PoolInv, StampsPast, Tick, TypeOK
  <2>2. Accounting'
    BY <1>2, <1>6 DEF PoolInv, Accounting, QueueDistinct, LentDistinct, Queued,
                      Lent, Users, Tick
  <2> QED
    BY <1>6, <2>1, <2>2 DEF PoolInv, SizeBounded, OrderedByIdleTime, Tick
<1>7. CASE UNCHANGED vars
  BY <1>2, <1>7, QuietStep DEF vars, Users
<1> QED
  BY <1>3, <1>4, <1>5, <1>6, <1>7 DEF Next

LEMMA PoolInvariance == Spec => []PoolInv
<1>1. Init => PoolInv
  BY InitPoolInv
<1>2. PoolInv /\ [Next]_vars => PoolInv'
  BY NextPoolInv
<1> QED
  BY <1>1, <1>2, PTL DEF Spec

\* However clients, producer and scanner interleave, a connection is queued
\* once or lent to one client, m_connectionCnt counts the live ones, and their
\* number stays between initSize and maxSize.
THEOREM PoolAccounts == Spec => []PoolSound
<1>1. PoolInv => PoolSound
  BY DEF PoolInv, PoolSound
<1> QED
  BY <1>1, PoolInvariance, PTL

\* The queue is ordered by the time its connections became idle.
THEOREM PoolOrdered == Spec => []OrderedByIdleTime
<1>1. PoolInv => OrderedByIdleTime
  BY DEF PoolInv
<1> QED
  BY <1>1, PoolInvariance, PTL

\* The scanner may stop at the first young connection: with the queue in order
\* no surplus connection behind it was idle too long.
THEOREM ScanComplete == Spec => ScanIsComplete
<1>1. ASSUME PoolInv, ScanEnd, Surplus, NEW i \in DOMAIN queue
      PROVE  ~Aged(queue[i])
  <2>1. TypeOK
    BY <1>1 DEF PoolInv, Accounting
  <2>2. queue # <<>> /\ i >= 1 /\ 1 \in DOMAIN queue /\ Head(queue) = queue[1]
    BY <1>1, <2>1, TailShifts, EmptySeq DEF TypeOK
  <2>3. ~Aged(queue[1])
    BY <1>1, <2>2 DEF ScanEnd, FrontAged
  <2>4. /\ stamp[queue[1]] <= stamp[queue[i]]
        /\ stamp[queue[1]] \in Nat /\ stamp[queue[i]] \in Nat
    BY <1>1, <2>1, <2>2 DEF PoolInv, OrderedByIdleTime, TypeOK
  <2> QED
    BY <2>1, <2>3, <2>4, TimeAssumption DEF Aged, TypeOK
<1>2. PoolInv => [ScanEnd /\ Surplus => \A i \in DOMAIN queue : ~Aged(queue[i])]_vars
  BY <1>1
<1> QED
  BY <1>2, PoolInvariance, PTL DEF ScanIsComplete

-----------------------------------------------------------------------------
(* What a waiting client waits for.                                        *)

\* getConnection: the connections of a pool whose queue is empty are lent, at
\* least one unless the pool was configured with none, so that whoever waits
\* waits for a client that will return one; with fairness this is what makes
\* PoolNeverStuck true.
EmptyPoolIsLent == queue = <<>> /\ InitSize >= 1 => Users # {}

THEOREM NobodyWaitsForNobody == Spec => []EmptyPoolIsLent
<1>1. ASSUME PoolSound, queue = <<>>, InitSize >= 1, Users = {}
      PROVE  FALSE
  <2>1. Queued = {} /\ Lent = {}
    BY <1>1 DEF Queued, Lent
  <2>2. Cardinality(live) = 0
    BY <1>1, <2>1, FS_EmptySet DEF PoolSound, Accounting
  <2> QED
    BY <1>1, <2>2, SizeAssumption DEF PoolSound, Accounting, SizeBounded
<1>2. PoolSound => EmptyPoolIsLent
  BY <1>1 DEF EmptyPoolIsLent
<1> QED
  BY <1>2, PoolAccounts, PTL

-----------------------------------------------------------------------------
(* Types.                                                                  *)

LEMMA InitThreadsInv == PoolInit => ThreadsInv
<1> SUFFICES ASSUME PoolInit PROVE ThreadsInv
  OBVIOUS
<1>1. PoolTypeOK
  <2>1. stop \in BOOLEAN /\ m_exit \in BOOLEAN
    BY DEF PoolInit
  <2>2. /\ tasks \in Seq(Tasks) /\ pushed \in Seq(Tasks) /\ started \in Seq(Tasks)
        /\ wpc \in [Workers -> {"lock", "tested", "wait", "run", "done"}]
        /\ cpc \in [Committers -> {"idle", "push", "notify"}]
    BY DEF PoolInit
  <2> QED
    BY <2>1, <2>2 DEF PoolInit, PoolTypeOK
<1>2. TakenInOrder
  BY DEF PoolInit, TakenInOrder
<1>3. tasks = <<>> /\ \A w \in Workers : wpc[w] = "lock"
  BY DEF PoolInit
<1>4. NoIdleWithWork
  BY <1>3 DEF NoIdleWithWork
<1> QED
  BY <1>1, <1>2, <1>3, <1>4 DEF ThreadsInv

\* Waking sleepers keeps the type and everybody who was awake.
LEMMA WakeType ==
  ASSUME PoolTypeOK, NEW S \in SUBSET Workers, Wake(S)
  PROVE  /\ wpc' \in [Workers -> {"lock", "tested", "wait", "run", "done"}]
         /\ \A w \in Workers : wpc'[w] = IF w \in S THEN "lock" ELSE wpc[w]
BY DEF PoolTypeOK, Wake

LEMMA NotifyWakes ==
  ASSUME NEW c \in Committers, Notify(c)
  PROVE  \E S \in SUBSET Waiting : Wake(S) /\ (Waiting # {} => S # {})
BY DEF Notify

LEMMA NextThreadsType == PoolTypeOK /\ [PoolNext]_poolVars => PoolTypeOK'
<1> SUFFICES ASSUME PoolTypeOK, [PoolNext]_poolVars PROVE PoolTypeOK'
  OBVIOUS
<1> USE DEF PoolTypeOK, clientVars, history
<1>1. stop \in BOOLEAN /\ m_exit \in BOOLEAN
  OBVIOUS
<1>2. ASSUME NEW c \in Committers, CheckStop(c) PROVE PoolTypeOK'
  <2>1. task' \in [Committers -> Tasks]
    BY <1>2 DEF CheckStop, Fresh
  <2>2. cpc' \in [Committers -> {"idle", "push", "notify"}]
    BY <1>2 DEF CheckStop
  <2> QED
    BY <1>2, <2>1, <2>2 DEF CheckStop
<1>3. ASSUME NEW c \in Committers, Push(c) PROVE PoolTypeOK'
  <2>1. tasks' \in Seq(Tasks) /\ pushed' \in Seq(Tasks)
    BY <1>3 DEF Push
  <2>2. cpc' \in [Committers -> {"idle", "push", "notify"}]
    BY <1>3 DEF Push
  <2> QED
    BY <1>3, <2>1, <2>2 DEF Push
<1>4. ASSUME NEW c \in Committers, Notify(c) PROVE PoolTypeOK'
  <2>1. wpc' \in [Workers -> {"lock", "tested", "wait", "run", "done"}]
    BY <1>4, NotifyWakes, WakeType DEF Waiting
  <2>2. cpc' \in [Committers -> {"idle", "push", "notify"}]
    BY <1>4 DEF Notify
  <2> QED
    BY <1>4, <2>1, <2>2 DEF Notify
<1>5. CASE Shutdown \/ Restart
  <2>1. stop' \in BOOLEAN
    BY <1>5 DEF Shutdown, Restart
  <2> QED
    BY <1>5, <2>1 DEF Shutdown, Restart
<1>6. ASSUME NEW w \in Workers, Leave(w) \/ FinishTask(w) \/ SpuriousWakeup(w)
      PROVE  PoolTypeOK'
  <2>1. wpc' \in [Workers -> {"lock", "tested", "wait", "run", "done"}]
    BY <1>6 DEF Leave, FinishTask, SpuriousWakeup
  <2> QED
    BY <1>6, <2>1 DEF Leave, FinishTask, SpuriousWakeup
<1>7. ASSUME NEW w \in Workers, TakeTask(w) PROVE PoolTypeOK'
  <2>1. tasks' \in Seq(Tasks) /\ Head(tasks) \in Tasks
    BY <1>7 DEF TakeTask
  <2>2. started' \in Seq(Tasks)
    BY <1>7, <2>1 DEF TakeTask
  <2>3. wpc' \in [Workers -> {"lock", "tested", "wait", "run", "done"}]
    BY <1>7 DEF TakeTask
  <2> QED
    BY <1>7, <2>1, <2>2, <2>3 DEF TakeTask
<1>8. ASSUME NEW w \in Workers, TestFails(w) \/ Sleep(w) PROVE PoolTypeOK'
  <2>1. wpc' \in [Workers -> {"lock", "tested", "wait", "run", "done"}]
    BY <1>8 DEF TestFails, Sleep
  <2>2. lock' \in Workers \cup {NoOne}
    BY <1>8 DEF TestFails, Sleep
  <2> QED
    BY <1>8, <2>1, <2>2 DEF TestFails, Sleep
<1>9. CASE Destroy \/ SetExit
  <2>1. stop' \in BOOLEAN /\ m_exit' \in BOOLEAN
    BY <1>1, <1>9 DEF Destroy, SetExit
  <2> QED
    BY <1>9, <2>1 DEF Destroy, SetExit
<1>10. CASE NotifyExit
  <2>1. wpc' \in [Workers -> {"lock", "tested", "wait", "run", "done"}]
    BY <1>10, WakeType DEF NotifyExit, Waiting
  <2> QED
    BY <1>10, <2>1 DEF NotifyExit
<1>11. CASE Join
  BY <1>11 DEF Join
<1>12. CASE UNCHANGED poolVars
  BY <1>12 DEF poolVars
<1> QED
  BY <1>2, <1>3, <1>4, <1>5, <1>6, <1>7, <1>8, <1>9, <1>10, <1>11, <1>12
     DEF PoolNext, Committer, Worker, Destructor

-----------------------------------------------------------------------------
(* The order of the tasks.                                                 *)

LEMMA OrderStep == PoolTypeOK /\ TakenInOrder /\ [PoolNext]_poolVars => TakenInOrder'
<1> SUFFICES ASSUME PoolTypeOK, started \o tasks = pushed, [PoolNext]_poolVars
             PROVE  started' \o tasks' = pushed'
  BY DEF TakenInOrder
<1> USE DEF PoolTypeOK
<1>1. ASSUME NEW c \in Committers, Push(c) PROVE started' \o tasks' = pushed'
  <2>1. tasks' = Append(tasks, task[c]) /\ pushed' = Append(pushed, task[c])
        /\ started' = started
    BY <1>1 DEF Push
  <2>2. /\ Append(tasks, task[c]) = tasks \o <<task[c]>>
        /\ Append(started \o tasks, task[c]) = (started \o tasks) \o <<task[c]>>
    BY AppendIsConcat, ConcatProperties
  <2>3. started \o (tasks \o <<task[c]>>) = (started \o tasks) \o <<task[c]>>
    BY ConcatAssociative, <<task[c]>> \in Seq(Tasks)
  <2> QED
    BY <2>1, <2>2, <2>3
<1>2. ASSUME NEW w \in Workers, TakeTask(w) PROVE started' \o tasks' = pushed'
  <2>1. tasks # <<>> /\ tasks' = Tail(tasks) /\ started' = Append(started, Head(tasks))
        /\ pushed' = pushed
    BY <1>2 DEF TakeTask
  <2> DEFINE h == Head(tasks)
             rest == Tail(tasks)
  <2>2. h \in Tasks /\ <<h>> \in Seq(Tasks) /\ rest \in Seq(Tasks)
    BY <2>1
  <2>3. tasks = <<h>> \o rest
    BY <2>1
  <2>4. Append(started, h) = started \o <<h>>
    BY <2>2, AppendIsConcat
  <2>5. (started \o <<h>>) \o rest = started \o (<<h>> \o rest)
    BY <2>2, ConcatAssociative
  <2> QED
    BY <2>1, <2>3, <2>4, <2>5
<1>3. CASE UNCHANGED <<started, tasks, pushed>>
  BY <1>3
<1> QED
  BY <1>1, <1>2, <1>3
     DEF PoolNext, Committer, Worker, Destructor, CheckStop, Notify, Shutdown,
         Restart,
         Leave, TestFails, Sleep, FinishTask, SpuriousWakeup, Destroy, SetExit,
         NotifyExit, Join, poolVars, history

-----------------------------------------------------------------------------
(* No task waits while everybody sleeps.                                   *)

\* A worker that has tested the predicate still holds the mutex and the queue
\* is still empty.
Tested == \A w \in Workers : wpc[w] = "tested" => lock = w /\ tasks = <<>>
Gone == \A w \in Workers : wpc[w] = "done" => m_exit

LEMMA GoneStep == PoolTypeOK /\ Gone /\ [PoolNext]_poolVars => Gone'
<1> SUFFICES ASSUME PoolTypeOK, Gone, [PoolNext]_poolVars PROVE Gone'
  OBVIOUS
<1> USE DEF PoolTypeOK, Gone
<1>1. ASSUME NEW c \in Committers, Notify(c) PROVE Gone'
  BY <1>1, NotifyWakes, WakeType DEF Notify, Waiting
<1>2. CASE NotifyExit
  BY <1>2, WakeType DEF NotifyExit, Waiting
<1>3. ASSUME NEW w \in Workers, Worker(w) \/ SpuriousWakeup(w) PROVE Gone'
  BY <1>3 DEF Worker, Leave, TakeTask, TestFails, Sleep, FinishTask, SpuriousWakeup
<1>4. CASE UNCHANGED wpc /\ (m_exit => m_exit')
  BY <1>4
<1>5. (\E c \in Committers : CheckStop(c) \/ Push(c)) \/ Shutdown \/ Restart
         \/ Destroy \/ SetExit \/ Join \/ UNCHANGED poolVars
      => UNCHANGED wpc /\ (m_exit => m_exit')
  BY DEF CheckStop, Push, Shutdown, Restart, Destroy, SetExit, Join, poolVars
<1> QED
  BY <1>1, <1>2, <1>3, <1>4, <1>5 DEF PoolNext, Committer, Destructor

LEMMA TestedStep == PoolTypeOK /\ Tested /\ [PoolNext]_poolVars => Tested'
<1> SUFFICES ASSUME PoolTypeOK, Tested, [PoolNext]_poolVars PROVE Tested'
  OBVIOUS
<1> USE WorkersAssumption DEF PoolTypeOK, Tested
<1>1. ASSUME NEW c \in Committers, Notify(c) PROVE Tested'
  BY <1>1, NotifyWakes, WakeType DEF Notify, Waiting
<1>2. CASE NotifyExit
  BY <1>2, WakeType DEF NotifyExit, Waiting
<1>3. ASSUME NEW w \in Workers, Worker(w) \/ SpuriousWakeup(w) PROVE Tested'
  BY <1>3 DEF Worker, Leave, TakeTask, TestFails, Sleep, FinishTask, SpuriousWakeup
<1>4. ASSUME NEW c \in Committers, Push(c) PROVE Tested'
  BY <1>4 DEF Push
<1>5. CASE UNCHANGED <<wpc, lock, tasks>>
  BY <1>5
<1> QED
  BY <1>1, <1>2, <1>3, <1>4, <1>5
     DEF PoolNext, Committer, Destructor, CheckStop, Shutdown, Restart, Destroy,
         SetExit, Join, poolVars

Awake == \E w \in Workers : wpc[w] \in {"lock", "run"}
NotifyComes == \E c \in Committers : cpc[c] = "notify"

LEMMA IdleStep ==
  PoolTypeOK /\ Tested /\ Gone /\ NoIdleWithWork /\ [PoolNext]_poolVars
    => NoIdleWithWork'
<1> SUFFICES ASSUME PoolTypeOK, Tested, Gone, NoIdleWithWork, [PoolNext]_poolVars,
                    tasks' # <<>>, ~m_exit'
             PROVE  Awake' \/ NotifyComes'
  BY DEF NoIdleWithWork, Awake, NotifyComes
<1> USE WorkersAssumption DEF PoolTypeOK
<1>1. ASSUME NEW c \in Committers, Push(c) PROVE NotifyComes'
  BY <1>1 DEF Push, NotifyComes
<1>2. ASSUME NEW c \in Committers, Notify(c) PROVE Awake'
  <2>1. PICK S \in SUBSET Waiting : Wake(S) /\ (Waiting # {} => S # {})
    BY <1>2, NotifyWakes
  <2>2. \A w \in Workers : wpc'[w] = IF w \in S THEN "lock" ELSE wpc[w]
    BY <2>1, WakeType DEF Waiting
  <2>3. CASE Waiting # {}
    BY <2>1, <2>2, <2>3 DEF Awake, Waiting
  <2>4. CASE Waiting = {}
    <3>1. PICK w \in Workers : TRUE
      OBVIOUS
    <3>2. tasks # <<>> /\ ~m_exit
      BY <1>2 DEF Notify, history
    <3>3. wpc[w] \in {"lock", "run"}
      BY <2>4, <3>2 DEF Tested, Gone, Waiting
    <3> QED
      BY <2>2, <3>3 DEF Awake
  <2> QED
    BY <2>3, <2>4
<1>3. ASSUME NEW w \in Workers, TakeTask(w) \/ FinishTask(w) \/ SpuriousWakeup(w)
      PROVE  Awake'
  BY <1>3 DEF TakeTask, FinishTask, SpuriousWakeup, Awake
<1>4. ASSUME NEW w \in Workers, Leave(w) \/ TestFails(w) PROVE FALSE
  BY <1>4 DEF Leave, TestFails
<1>5. ASSUME NEW w \in Workers, Sleep(w) PROVE FALSE
  BY <1>5 DEF Sleep, Tested
<1>6. CASE NotifyExit
  <2>1. UNCHANGED <<tasks, m_exit, cpc>> /\ Wake(Waiting)
    BY <1>6 DEF NotifyExit, clientVars
  <2>2. Awake \/ NotifyComes
    BY <2>1 DEF NoIdleWithWork, Awake, NotifyComes
  <2>3. Awake => Awake'
    BY <2>1, WakeType DEF Waiting, Awake
  <2> QED
    BY <2>1, <2>2, <2>3 DEF NotifyComes
<1>7. ASSUME NEW c \in Committers, CheckStop(c) PROVE Awake' \/ NotifyComes'
  BY <1>7 DEF CheckStop, NoIdleWithWork, Awake, NotifyComes, history
<1>8. CASE UNCHANGED <<wpc, cpc, tasks>> /\ ~m_exit
  BY <1>8 DEF NoIdleWithWork, Awake, NotifyComes
<1>9. Shutdown \/ Restart \/ Destroy \/ SetExit \/ Join \/ UNCHANGED poolVars
      => UNCHANGED <<wpc, cpc, tasks>> /\ ~m_exit
  BY DEF Shutdown, Restart, Destroy, SetExit, Join, poolVars, clientVars
<1> QED
  BY <1>1, <1>2, <1>3, <1>4, <1>5, <1>6, <1>7, <1>8, <1>9
     DEF PoolNext, Committer, Worker, Destructor

-----------------------------------------------------------------------------

LEMMA ThreadsInvariance ==
  PoolSpec => []ThreadsInv
<1>1. PoolInit => ThreadsInv
  BY InitThreadsInv
<1>2. ThreadsInv /\ [PoolNext]_poolVars => ThreadsInv'
  <2> SUFFICES ASSUME ThreadsInv, [PoolNext]_poolVars PROVE ThreadsInv'
    OBVIOUS
  <2>1. PoolTypeOK /\ Tested /\ Gone /\ NoIdleWithWork /\ TakenInOrder
    BY DEF ThreadsInv, Tested, Gone
  <2>2. PoolTypeOK' /\ Tested' /\ Gone' /\ NoIdleWithWork' /\ TakenInOrder'
    BY <2>1, NextThreadsType, TestedStep, GoneStep, IdleStep, OrderStep
  <2> QED
    BY <2>2 DEF ThreadsInv, Tested, Gone
<1> QED
  BY <1>1, <1>2, PTL DEF PoolSpec

\* No lost notification: a queued task always has a worker awake for it, or a
\* notify on its way, for any number of workers and either kind of notify.
THEOREM PoolNeverIdleWithWork ==
  PoolSpec => []NoIdleWithWork
<1>1. ThreadsInv => NoIdleWithWork
  BY DEF ThreadsInv
<1> QED
  BY <1>1, ThreadsInvariance, PTL

\* Tasks are taken in the order of their commits, each once, none lost.
THEOREM PoolTakesInOrder ==
  PoolSpec => []TakenInOrder
<1>1. ThreadsInv => TakenInOrder
  BY DEF ThreadsInv
<1> QED
  BY <1>1, ThreadsInvariance, PTL
=============================================================================
