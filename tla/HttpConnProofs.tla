--------------------------- MODULE HttpConnProofs ---------------------------
(***************************************************************************)
(* Proofs about module HttpConn for any number of workers, connections and *)
(* requests, and responses and send buffers of any size: EPOLLONESHOT      *)
(* hands the slot from one user to the next until the first clash, the     *)
(* first clash can come only where a worker has enabled the descriptor or  *)
(* is closing it, and only after the last request; until then the peer     *)
(* gets its responses whole and in order.  The invariant (HttpInv) says    *)
(* where the slot is (UserInv, Located) and, per place, what its members   *)
(* hold of the response under way (Requested, Written).  A whole request   *)
(* is answered or somebody has the next step to make (AnswerInv).          *)
(***************************************************************************)
EXTENDS HttpConn, SequenceTheorems, TLAPS

Places == {"idle", "read", "process", "armin", "armout", "write",
           "sent", "tail", "close", "closing"}

-----------------------------------------------------------------------------
(* Types.                                                                  *)

LEMMA InitType == Init => TypeOK
<1> SUFFICES ASSUME Init PROVE TypeOK
  OBVIOUS
<1>1. conns \in 0..MaxConn /\ rcvq \in Nat /\ sent \in Nat /\ m_read_index \in Nat
  BY CountAssumption DEF Init
<1>2. isopen \in BOOLEAN /\ fin \in BOOLEAN /\ m_sockfd \in BOOLEAN
  BY DEF Init
<1>3. m_linger \in BOOLEAN /\ m_file \in BOOLEAN /\ clash \in BOOLEAN
  BY DEF Init
<1>4. tasks \in Seq({"read", "write"})
  BY DEF Init
<1> QED
  BY <1>1, <1>2, <1>3, <1>4 DEF Init, TypeOK

LEMMA GotoType ==
  ASSUME TypeOK, NEW w \in Workers, NEW place \in Places, Goto(w, place)
  PROVE  /\ wpc' \in [Workers -> Places]
         /\ wpc'[w] = place
         /\ \A v \in Workers : v # w => wpc'[v] = wpc[v]
BY DEF TypeOK, Goto, Places

LEMMA ResetType ==
  ASSUME Reset
  PROVE  m_read_index' \in Nat /\ m_linger' \in BOOLEAN /\ m_file' \in BOOLEAN
<1>1. m_read_index' \in Nat
  BY DEF Reset
<1>2. m_linger' \in BOOLEAN /\ m_file' \in BOOLEAN
  BY DEF Reset
<1> QED
  BY <1>1, <1>2

LEMMA RearmType ==
  ASSUME TypeOK, NEW ev \in {"in", "out"}, Rearm(ev)
  PROVE  armed' \in {"no", "off", "in", "out"}
BY DEF TypeOK, Rearm

\* Every step keeps the types.
LEMMA NextType == TypeOK /\ [Next]_vars => TypeOK'
<1> SUFFICES ASSUME TypeOK, [Next]_vars PROVE TypeOK'
  OBVIOUS
<1> USE DEF slotVars, peerVars, Places
<1>1. CASE Accept
  <2>1. conns' \in 0..MaxConn /\ rcvq' \in Nat /\ sent' \in Nat
    BY <1>1, CountAssumption DEF Accept, TypeOK
  <2>2. isopen' \in BOOLEAN /\ fin' \in BOOLEAN /\ m_sockfd' \in BOOLEAN
    BY <1>1 DEF Accept
  <2>3. clash' \in BOOLEAN
    BY <1>1 DEF Accept, InUse, OnItsWay
  <2> QED
    BY <1>1, <2>1, <2>2, <2>3 DEF Accept, TypeOK
<1>2. CASE EpollWait
  BY <1>2 DEF EpollWait, TypeOK, Ready
<1>3. CASE DispatchClose
  <2>1. m_read_index' \in Nat /\ m_linger' \in BOOLEAN /\ m_file' \in BOOLEAN
    BY <1>3, ResetType DEF DispatchClose, TypeOK
  <2>2. isopen' \in BOOLEAN /\ armed' \in {"no", "off", "in", "out"}
    BY <1>3 DEF DispatchClose, RemoveFd, TypeOK
  <2>3. m_sockfd' \in BOOLEAN /\ clash' \in BOOLEAN
    BY <1>3 DEF DispatchClose, InUse, TypeOK
  <2> QED
    BY <1>3, <2>1, <2>2, <2>3 DEF DispatchClose, TypeOK
<1>4. CASE DispatchTask
  BY <1>4 DEF DispatchTask, TypeOK
<1>5. ASSUME NEW w \in Workers, TakeTask(w) PROVE TypeOK'
  <2>1. Head(tasks) \in {"read", "write"} /\ Tail(tasks) \in Seq({"read", "write"})
    BY <1>5 DEF TakeTask, TypeOK
  <2>2. wpc' \in [Workers -> Places]
    BY <1>5, <2>1, GotoType DEF TakeTask
  <2> QED
    BY <1>5, <2>1, <2>2 DEF TakeTask, TypeOK, InUse
<1>6. ASSUME NEW w \in Workers, Recv(w) PROVE TypeOK'
  <2>1. wpc' \in [Workers -> Places]
    BY <1>6, GotoType DEF Recv, TypeOK
  <2>2. isopen' \in BOOLEAN /\ armed' \in {"no", "off", "in", "out"}
    BY <1>6 DEF Recv, RemoveFd, TypeOK
  <2>3. m_read_index' \in Nat /\ rcvq' \in Nat
    BY <1>6 DEF Recv, TypeOK
  <2> QED
    BY <1>6, <2>1, <2>2, <2>3 DEF Recv, TypeOK
<1>7. ASSUME NEW w \in Workers, AwaitMore(w) \/ PrepareNothing(w) PROVE TypeOK'
  <2>1. wpc' \in [Workers -> Places]
    BY <1>7, GotoType DEF AwaitMore, PrepareNothing
  <2> QED
    BY <1>7, <2>1 DEF AwaitMore, PrepareNothing, TypeOK
<1>8. ASSUME NEW w \in Workers, NEW kind \in {"file", "error"}, Prepare(w, kind)
      PROVE  TypeOK'
  <2>1. wpc' \in [Workers -> Places]
    BY <1>8, GotoType DEF Prepare
  <2>2. m_file' \in BOOLEAN /\ m_linger' \in BOOLEAN
    BY <1>8 DEF Prepare
  <2> QED
    BY <1>8, <2>1, <2>2 DEF Prepare, TypeOK
<1>9. ASSUME NEW w \in Workers, Modfd(w) PROVE TypeOK'
  <2>1. wpc' \in [Workers -> Places]
    BY <1>9, GotoType DEF Modfd
  <2>2. armed' \in {"no", "off", "in", "out"}
    BY <1>9 DEF Modfd, Rearm, TypeOK
  <2> QED
    BY <1>9, <2>1, <2>2 DEF Modfd, TypeOK
<1>10. ASSUME NEW w \in Workers, Writev(w) PROVE TypeOK'
  <2>1. wpc' \in [Workers -> Places]
    BY <1>10, GotoType DEF Writev
  <2> QED
    BY <1>10, <2>1 DEF Writev, TypeOK
<1>11. ASSUME NEW w \in Workers, WouldBlock(w) \/ WriteFails(w) PROVE TypeOK'
  <2>1. wpc' \in [Workers -> Places]
    BY <1>11, GotoType DEF WouldBlock, WriteFails
  <2>2. m_file' \in BOOLEAN
    BY <1>11 DEF WouldBlock, WriteFails, TypeOK
  <2> QED
    BY <1>11, <2>1, <2>2 DEF WouldBlock, WriteFails, TypeOK
<1>12. ASSUME NEW w \in Workers, ResponseSent(w) PROVE TypeOK'
  <2>1. wpc' \in [Workers -> Places]
    BY <1>12, GotoType DEF ResponseSent
  <2>2. armed' \in {"no", "off", "in", "out"}
    BY <1>12, RearmType DEF ResponseSent
  <2> QED
    BY <1>12, <2>1, <2>2 DEF ResponseSent, TypeOK
<1>13. ASSUME NEW w \in Workers, Finish(w) \/ ClearSlot(w) PROVE TypeOK'
  <2>1. wpc' \in [Workers -> Places]
    BY <1>13, GotoType DEF Finish, ClearSlot
  <2>2. m_sockfd' \in BOOLEAN
    BY <1>13 DEF Finish, ClearSlot, TypeOK
  <2>3. m_read_index' \in Nat /\ m_linger' \in BOOLEAN /\ m_file' \in BOOLEAN
    BY <1>13, ResetType DEF Finish, ClearSlot, TypeOK
  <2> QED
    BY <1>13, <2>1, <2>2, <2>3 DEF Finish, ClearSlot, TypeOK
<1>14. ASSUME NEW w \in Workers, CloseConn(w) PROVE TypeOK'
  <2>1. wpc' \in [Workers -> Places]
    BY <1>14, GotoType DEF CloseConn
  <2>2. isopen' \in BOOLEAN /\ armed' \in {"no", "off", "in", "out"}
    BY <1>14 DEF CloseConn, RemoveFd, TypeOK
  <2> QED
    BY <1>14, <2>1, <2>2 DEF CloseConn, TypeOK
<1>15. CASE PeerSends \/ PeerCloses \/ Deliver
  <2>1. rcvq' \in Nat /\ sent' \in Nat
    BY <1>15 DEF PeerSends, PeerCloses, Deliver, TypeOK
  <2>2. fin' \in BOOLEAN
    BY <1>15 DEF PeerSends, PeerCloses, Deliver, TypeOK
  <2> QED
    BY <1>15, <2>1, <2>2 DEF PeerSends, PeerCloses, Deliver, TypeOK
<1>16. CASE UNCHANGED vars
  BY <1>16 DEF vars, TypeOK
<1> QED
  BY <1>1, <1>2, <1>3, <1>4, <1>5, <1>6, <1>7, <1>8, <1>9, <1>10, <1>11, <1>12,
     <1>13, <1>14, <1>15, <1>16
  DEF Next, EpollThread, Worker, HandleRead, HandleWrite

-----------------------------------------------------------------------------
(* One user at a time.                                                     *)

\* What OneUser says of the slot's users until the first clash.
Exclusive ==
  /\ \A v, w \in Workers : Inside(v) /\ Inside(w) => v = w
  /\ ~(Enabled /\ OnItsWay) /\ ~(events # {} /\ tasks # <<>>)
  /\ Len(tasks) <= 1
  /\ \A w \in Workers : Inside(w) /\ (Enabled \/ OnItsWay) => Leaving(w)
  /\ isopen => Enabled \/ OnItsWay \/ InUse

\* An open descriptor is the slot's, a worker that clears the slot has closed
\* the descriptor, and one that has enabled it knows that it is enabled,
\* reported, queued or closed.
Owned ==
  /\ isopen => m_sockfd
  /\ \A w \in Workers : wpc[w] = "closing" => ~isopen
  /\ \A w \in Workers : wpc[w] = "tail" /\ isopen => Enabled \/ OnItsWay

UserInv == TypeOK /\ (~clash => Exclusive /\ Owned)

LEMMA InitUser == Init => UserInv
<1> SUFFICES ASSUME Init PROVE UserInv
  OBVIOUS
<1>1. TypeOK
  BY InitType
<1>2. \A w \in Workers : wpc[w] = "idle"
  BY DEF Init
<1>3. Exclusive
  BY <1>2 DEF Init, Exclusive, Inside, Enabled, OnItsWay
<1>4. Owned
  BY <1>2 DEF Init, Owned
<1> QED
  BY <1>1, <1>3, <1>4 DEF UserInv

\* A step that ends without a clash keeps the slot in one hand.
LEMMA NextUser ==
  ASSUME UserInv, [Next]_vars, ~clash'
  PROVE  Exclusive' /\ Owned'
<1> USE DEF slotVars, peerVars, Places
<1>t. TypeOK
  BY DEF UserInv
<1>w. wpc \in [Workers -> Places] /\ tasks \in Seq({"read", "write"})
  BY <1>t DEF TypeOK
<1>1. CASE Accept
  <2>1. Exclusive /\ Owned /\ ~isopen
    BY <1>1 DEF Accept, UserInv
  <2>2. \A w \in Workers : wpc[w] = "idle" /\ wpc'[w] = "idle"
    BY <1>1 DEF Accept, InUse
  <2>3. events' = {} /\ tasks' = <<>> /\ armed' = "in" /\ m_sockfd'
    BY <1>1 DEF Accept, OnItsWay
  <2> QED
    BY <2>2, <2>3 DEF Exclusive, Owned, Inside, InUse, OnItsWay, Enabled
<1>2. CASE EpollWait
  <2>1. Exclusive /\ Owned /\ Enabled
    BY <1>2 DEF EpollWait, UserInv, Enabled
  <2>2. events' # {} /\ armed' = "off" /\ tasks' = tasks /\ tasks = <<>>
    BY <1>2, <2>1 DEF EpollWait, Exclusive, OnItsWay
  <2>3. wpc' = wpc /\ isopen' = isopen /\ m_sockfd' = m_sockfd
    BY <1>2 DEF EpollWait
  <2> QED
    BY <2>1, <2>2, <2>3 DEF Exclusive, Owned, Inside, Leaving, OnItsWay, Enabled
<1>3. CASE DispatchClose
  <2>1. Exclusive /\ Owned /\ events # {}
    BY <1>3 DEF DispatchClose, UserInv
  <2>2. \A w \in Workers : wpc[w] = "idle" /\ wpc'[w] = "idle"
    BY <1>3 DEF DispatchClose, InUse
  <2>3. events' = {} /\ tasks' = tasks /\ tasks = <<>>
    BY <1>3, <2>1 DEF DispatchClose, Exclusive
  <2>4. ~isopen'
    BY <1>3, <2>1 DEF DispatchClose, RemoveFd, Owned
  <2> QED
    BY <2>2, <2>3, <2>4 DEF Exclusive, Owned, Inside, OnItsWay
<1>4. CASE DispatchTask
  <2>1. Exclusive /\ Owned /\ events # {} /\ tasks = <<>>
    BY <1>4 DEF DispatchTask, UserInv, Exclusive
  <2>2. events' = {} /\ tasks' # <<>> /\ Len(tasks') <= 1
    BY <1>4, <2>1 DEF DispatchTask
  <2>3. wpc' = wpc /\ isopen' = isopen /\ m_sockfd' = m_sockfd /\ armed' = armed
    BY <1>4 DEF DispatchTask
  <2> QED
    BY <2>1, <2>2, <2>3 DEF Exclusive, Owned, Inside, Leaving, OnItsWay, Enabled
<1>5. ASSUME NEW w \in Workers, TakeTask(w) PROVE Exclusive' /\ Owned'
  <2>1. Exclusive /\ Owned /\ tasks # <<>> /\ events = {} /\ ~Enabled
    BY <1>5 DEF TakeTask, UserInv, Exclusive, OnItsWay
  <2>2. \A v \in Workers : wpc[v] = "idle"
    BY <1>5 DEF TakeTask, InUse
  <2>3. Head(tasks) \in {"read", "write"} /\ tasks' = <<>>
    BY <1>5, <1>w, <2>1 DEF TakeTask, Exclusive
  <2>4. wpc'[w] \in {"read", "write"} /\ \A v \in Workers : v # w => wpc'[v] = "idle"
    BY <1>5, <1>t, <2>2, <2>3, GotoType DEF TakeTask
  <2>5. events' = {} /\ ~Enabled' /\ isopen' = isopen /\ m_sockfd' = m_sockfd
    BY <1>5, <2>1 DEF TakeTask, Enabled
  <2> QED
    BY <2>1, <2>3, <2>4, <2>5
    DEF Exclusive, Owned, Inside, InUse, OnItsWay, Enabled
<1>6. ASSUME NEW w \in Workers, HandleRead(w) PROVE Exclusive' /\ Owned'
  <2>1. Exclusive /\ Owned /\ wpc[w] \in {"read", "process"}
    BY <1>6 DEF HandleRead, Recv, AwaitMore, PrepareNothing, Prepare, UserInv
  <2>2. ~Enabled /\ ~OnItsWay
    BY <2>1 DEF Exclusive, Inside, Leaving
  <2>3. /\ wpc'[w] \in {"read", "process", "armin", "armout", "close"}
        /\ \A v \in Workers : v # w => wpc'[v] = wpc[v]
    BY <1>6, <1>t, <2>1, GotoType
    DEF HandleRead, Recv, AwaitMore, PrepareNothing, Prepare
  <2>4. events' = events /\ tasks' = tasks /\ m_sockfd' = m_sockfd
    BY <1>6 DEF HandleRead, Recv, AwaitMore, PrepareNothing, Prepare
  <2>5. ~Enabled' /\ (isopen' => isopen)
    BY <1>6, <2>2
    DEF HandleRead, Recv, AwaitMore, PrepareNothing, Prepare, RemoveFd, Enabled
  <2> QED
    BY <2>1, <2>2, <2>3, <2>4, <2>5
    DEF Exclusive, Owned, Inside, InUse, OnItsWay
<1>7. ASSUME NEW w \in Workers, Writev(w) \/ WouldBlock(w) \/ WriteFails(w)
      PROVE  Exclusive' /\ Owned'
  <2>1. Exclusive /\ Owned /\ wpc[w] = "write"
    BY <1>7 DEF Writev, WouldBlock, WriteFails, UserInv
  <2>2. ~Enabled /\ ~OnItsWay
    BY <2>1 DEF Exclusive, Inside, Leaving
  <2>3. /\ wpc'[w] \in {"write", "sent", "armout", "close"}
        /\ \A v \in Workers : v # w => wpc'[v] = wpc[v]
    BY <1>7, <1>t, GotoType DEF Writev, WouldBlock, WriteFails
  <2>4. /\ events' = events /\ tasks' = tasks /\ m_sockfd' = m_sockfd
        /\ isopen' = isopen /\ armed' = armed
    BY <1>7 DEF Writev, WouldBlock, WriteFails
  <2> QED
    BY <2>1, <2>2, <2>3, <2>4
    DEF Exclusive, Owned, Inside, InUse, OnItsWay, Enabled
<1>8. ASSUME NEW w \in Workers, Modfd(w) PROVE Exclusive' /\ Owned'
  <2>1. Exclusive /\ Owned /\ wpc[w] \in {"armin", "armout"}
    BY <1>8 DEF Modfd, UserInv
  <2>2. ~Enabled /\ ~OnItsWay
    BY <2>1 DEF Exclusive, Inside, Leaving
  <2>3. \A v \in Workers : wpc'[v] = "idle"
    BY <1>8, <1>t, <1>w, <2>1, GotoType DEF Modfd, Exclusive, Inside
  <2>4. /\ events' = events /\ tasks' = tasks /\ m_sockfd' = m_sockfd
        /\ isopen' = isopen /\ (isopen => armed' \in {"in", "out"})
    BY <1>8 DEF Modfd, Rearm
  <2> QED
    BY <2>1, <2>2, <2>3, <2>4
    DEF Exclusive, Owned, Inside, InUse, OnItsWay, Enabled
<1>9. ASSUME NEW w \in Workers, ResponseSent(w) PROVE Exclusive' /\ Owned'
  <2>1. Exclusive /\ Owned /\ wpc[w] = "sent"
    BY <1>9 DEF ResponseSent, UserInv
  <2>2. ~Enabled /\ ~OnItsWay
    BY <2>1 DEF Exclusive, Inside, Leaving
  <2>3. wpc'[w] = "tail" /\ \A v \in Workers : v # w => wpc'[v] = wpc[v]
    BY <1>9, <1>t, GotoType DEF ResponseSent
  <2>4. /\ events' = events /\ tasks' = tasks /\ m_sockfd' = m_sockfd
        /\ isopen' = isopen /\ (isopen => armed' = "in")
    BY <1>9 DEF ResponseSent, Rearm
  <2> QED
    BY <2>1, <2>2, <2>3, <2>4
    DEF Exclusive, Owned, Inside, InUse, Leaving, OnItsWay, Enabled
<1>10. ASSUME NEW w \in Workers, Finish(w) PROVE Exclusive' /\ Owned'
  <2>1. Exclusive /\ Owned /\ wpc[w] = "tail"
    BY <1>10 DEF Finish, UserInv
  <2>2. wpc'[w] \in {"idle", "close"} /\ \A v \in Workers : v # w => wpc'[v] = wpc[v]
    BY <1>10, <1>t, GotoType DEF Finish
  <2>3. /\ events' = events /\ tasks' = tasks /\ m_sockfd' = m_sockfd
        /\ isopen' = isopen /\ armed' = armed
    BY <1>10 DEF Finish
  <2> QED
    BY <2>1, <2>2, <2>3
    DEF Exclusive, Owned, Inside, InUse, Leaving, OnItsWay, Enabled
<1>11. ASSUME NEW w \in Workers, CloseConn(w) \/ ClearSlot(w) PROVE Exclusive' /\ Owned'
  <2>1. Exclusive /\ Owned /\ wpc[w] \in {"close", "closing"}
    BY <1>11 DEF CloseConn, ClearSlot, UserInv
  <2>2. /\ wpc'[w] \in {"idle", "closing"}
        /\ \A v \in Workers : v # w => wpc'[v] = wpc[v]
    BY <1>11, <1>t, GotoType DEF CloseConn, ClearSlot
  <2>3. events' = events /\ tasks' = tasks /\ ~isopen' /\ (Enabled' => Enabled)
    BY <1>11, <2>1 DEF CloseConn, ClearSlot, RemoveFd, Owned, Enabled
  <2> QED
    BY <2>1, <2>2, <2>3
    DEF Exclusive, Owned, Inside, InUse, Leaving, OnItsWay
<1>12. CASE PeerSends \/ PeerCloses \/ Deliver \/ UNCHANGED vars
  <2>1. Exclusive /\ Owned
    BY <1>12 DEF PeerSends, PeerCloses, Deliver, vars, UserInv
  <2>2. /\ events' = events /\ tasks' = tasks /\ m_sockfd' = m_sockfd
        /\ isopen' = isopen /\ armed' = armed /\ wpc' = wpc
    BY <1>12 DEF PeerSends, PeerCloses, Deliver, vars
  <2> QED
    BY <2>1, <2>2 DEF Exclusive, Owned, Inside, InUse, Leaving, OnItsWay, Enabled
<1> QED
  BY <1>1, <1>2, <1>3, <1>4, <1>5, <1>6, <1>7, <1>8, <1>9, <1>10, <1>11, <1>12
  DEF Next, EpollThread, Worker, HandleWrite

\* For any number of workers, connections and requests: until the first clash
\* the slot is in one hand, and an open connection is in somebody's.
THEOREM OneUserInvariance == Spec => []OneUser
<1>1. UserInv /\ [Next]_vars => UserInv'
  BY NextType, NextUser DEF UserInv
<1>2. UserInv => OneUser
  BY DEF UserInv, Exclusive, OneUser
<1> QED
  BY InitUser, <1>1, <1>2, PTL DEF Spec

\* For any number of workers: on an open connection a second thread comes in
\* only when the first one has enabled the descriptor again or is closing it.
THEOREM ClashWhileOpen ==
  Spec => [][clash' /\ isopen => \E w \in Workers : Leaving(w)]_vars
<1>1. UserInv /\ [Next]_vars => UserInv'
  BY NextType, NextUser DEF UserInv
<1>2. ASSUME UserInv, [Next]_vars
      PROVE  [clash' /\ isopen => \E w \in Workers : Leaving(w)]_vars
  <2> SUFFICES ASSUME Next, ~clash, clash', isopen PROVE \E w \in Workers : Leaving(w)
    <3>1. Next => ~clash
      BY DEF Next, EpollThread, Accept, EpollWait, DispatchClose, DispatchTask, Worker,
         TakeTask, HandleRead, Recv, AwaitMore, PrepareNothing, Prepare, HandleWrite,
         Writev, WouldBlock, WriteFails, ResponseSent, Finish, Modfd, CloseConn,
         ClearSlot, PeerSends, PeerCloses, Deliver
    <3> QED
      BY <1>2, <3>1
  <2>1. Exclusive
    BY <1>2 DEF UserInv
  <2>2. InUse /\ OnItsWay
    BY DEF Next, EpollThread, Accept, EpollWait, DispatchClose, DispatchTask, Worker,
       TakeTask, HandleRead, Recv, AwaitMore, PrepareNothing, Prepare, HandleWrite,
       Writev, WouldBlock, WriteFails, ResponseSent, Finish, Modfd, CloseConn,
       ClearSlot, PeerSends, PeerCloses, Deliver, OnItsWay
  <2> QED
    BY <2>1, <2>2 DEF Exclusive, InUse, Inside
<1> QED
  BY InitUser, <1>1, <1>2, PTL DEF Spec

-----------------------------------------------------------------------------
(* Units.                                                                  *)

Units == Nat \X {"head", "file"} \X Nat

LEMMA UnitsTyped ==
  ASSUME NEW k \in Nat, NEW part \in {"head", "file"}, NEW from \in Nat, NEW n \in Nat
  PROVE  /\ UnitsOf(k, part, from, n) \in Seq(Units)
         /\ Len(UnitsOf(k, part, from, n)) = n
         /\ n = 0 => UnitsOf(k, part, from, n) = <<>>
<1>1. \A i \in 1..n : Unit(k, part, from + i) \in Units
  BY DEF Unit, Units
<1>2. UnitsOf(k, part, from, n) \in Seq(Units) /\ Len(UnitsOf(k, part, from, n)) = n
  BY <1>1, IsASeq DEF UnitsOf
<1> QED
  BY <1>2, EmptySeq

\* What is left of a run of units after the first of them.
LEMMA UnitsSplit ==
  ASSUME NEW k \in Nat, NEW part \in {"head", "file"}, NEW from \in Nat,
         NEW m \in Nat, NEW n \in Nat
  PROVE  UnitsOf(k, part, from, m + n) = UnitsOf(k, part, from, m) \o UnitsOf(k, part, from + m, n)
<1> DEFINE a == UnitsOf(k, part, from, m)
           b == UnitsOf(k, part, from + m, n)
           c == UnitsOf(k, part, from, m + n)
<1>1. /\ a \in Seq(Units) /\ Len(a) = m /\ b \in Seq(Units) /\ Len(b) = n
      /\ c \in Seq(Units) /\ Len(c) = m + n
  <2>1. from + m \in Nat /\ m + n \in Nat
    OBVIOUS
  <2>2. \A f, l \in Nat : /\ UnitsOf(k, part, f, l) \in Seq(Units)
                          /\ Len(UnitsOf(k, part, f, l)) = l
    BY UnitsTyped
  <2> QED
    BY <2>1, <2>2
<1>2. a \o b \in Seq(Units) /\ Len(a \o b) = m + n
  BY <1>1, ConcatProperties
<1>3. ASSUME NEW i \in 1..(m + n) PROVE (a \o b)[i] = c[i]
  <2>1. CASE i <= m
    <3>1. (a \o b)[i] = a[i]
      BY <1>1, <2>1, ConcatProperties
    <3> QED
      BY <2>1, <3>1 DEF UnitsOf
  <2>2. CASE i > m
    <3>1. (a \o b)[i] = b[i - m]
      BY <1>1, <2>2, ConcatProperties
    <3>2. i - m \in 1..n /\ from + m + (i - m) = from + i
      BY <2>2
    <3>3. b[i - m] = Unit(k, part, from + m + (i - m))
      BY <3>2 DEF UnitsOf
    <3> QED
      BY <3>1, <3>2, <3>3 DEF UnitsOf
  <2>3. i <= m \/ i > m
    OBVIOUS
  <2> QED
    BY <2>1, <2>2, <2>3
<1> QED
  <2> HIDE DEF a, b, c
  <2>1. a \o b = c
    BY <1>1, <1>2, <1>3, SeqEqual
  <2> QED
    BY <2>1 DEF a, b, c

\* The network takes the first unit from the kernel.
LEMMA FirstMoves ==
  ASSUME NEW T, NEW s \in Seq(T), NEW t \in Seq(T), t # <<>>
  PROVE  /\ Append(s, Head(t)) \in Seq(T) /\ Tail(t) \in Seq(T)
         /\ Append(s, Head(t)) \o Tail(t) = s \o t
<1> DEFINE a == Append(s, Head(t))
           b == Tail(t)
<1>1. /\ Head(t) \in T /\ b \in Seq(T) /\ Len(b) = Len(t) - 1 /\ Len(t) > 0
      /\ Head(t) = t[1] /\ \A i \in 1..Len(b) : b[i] = t[i + 1]
  BY HeadTailProperties, EmptySeq
<1>2. /\ a \in Seq(T) /\ Len(a) = Len(s) + 1 /\ a[Len(s) + 1] = t[1]
      /\ \A i \in 1..Len(s) : a[i] = s[i]
  BY <1>1, AppendProperties
<1> HIDE DEF a, b
<1>3. /\ a \o b \in Seq(T) /\ Len(a \o b) = Len(a) + Len(b)
      /\ s \o t \in Seq(T) /\ Len(s \o t) = Len(s) + Len(t)
  BY <1>1, <1>2, ConcatProperties
<1>4. PICK m, n \in Nat : m = Len(s) /\ n = Len(t)
  BY LenProperties
<1>5. Len(a \o b) = m + n /\ Len(s \o t) = m + n
  BY <1>1, <1>2, <1>3, <1>4
<1>6. ASSUME NEW i \in 1..(m + n) PROVE (a \o b)[i] = (s \o t)[i]
  <2>1. CASE i <= m
    BY <1>1, <1>2, <1>4, <2>1, ConcatProperties
  <2>2. CASE i = m + 1
    <3>1. (a \o b)[i] = a[i]
      BY <1>1, <1>2, <1>4, <2>2, ConcatProperties
    <3>2. (s \o t)[i] = t[i - m]
      BY <1>4, <1>1, <2>2, ConcatProperties
    <3> QED
      BY <1>2, <1>4, <2>2, <3>1, <3>2
  <2>3. CASE i > m + 1
    <3>1. (a \o b)[i] = b[i - (m + 1)]
      BY <1>1, <1>2, <1>4, <2>3, ConcatProperties
    <3>2. (s \o t)[i] = t[i - m]
      BY <1>1, <1>4, <2>3, ConcatProperties
    <3>3. i - (m + 1) \in 1..Len(b) /\ (i - (m + 1)) + 1 = i - m
      BY <1>1, <1>4, <2>3
    <3> QED
      BY <1>1, <3>1, <3>2, <3>3
  <2>4. i <= m \/ i = m + 1 \/ i > m + 1
    OBVIOUS
  <2> QED
    BY <2>1, <2>2, <2>3, <2>4
<1>7. a \o b = s \o t
  BY <1>3, <1>5, <1>6, SeqEqual
<1> QED
  BY <1>1, <1>2, <1>7 DEF a, b

-----------------------------------------------------------------------------
(* Where the slot is, and what its members hold there.                     *)

At(S) == \E w \in Workers : wpc[w] \in S
Last == answers[Len(answers)]
FileUnits == IF Last.kind = "file" THEN FileLen ELSE 0
Between == bytes_to_send = 0 /\ bytes_have_send = 0

\* Requests are read between responses, responses written while something is
\* left of them, and a closed descriptor has no handler but one that leaves.
Located ==
  /\ Enabled => isopen
  /\ ~m_sockfd => Between /\ m_read_index = 0
  /\ m_sockfd /\ ~isopen => At({"close", "closing"})
  /\ At({"read", "process", "armin"}) => isopen /\ Between
  /\ At({"armout", "write"}) => isopen /\ bytes_to_send > 0
  /\ At({"sent", "tail"}) => isopen /\ bytes_to_send = 0 /\ bytes_have_send > 0
  /\ armed = "in" \/ "in" \in events \/ tasks = <<"read">> =>
       Between \/ At({"tail", "close", "closing"})
  /\ armed = "out" \/ (events # {} /\ events \cap {"in", "hup"} = {}) \/ tasks = <<"write">> =>
       bytes_to_send > 0
  /\ tasks # <<>> \/ (events # {} /\ "hup" \notin events) => isopen

\* A worker on its way to close leaves nothing behind that a handler could read.
Final ==
  At({"close"}) \/ (At({"tail"}) /\ ~m_linger) =>
    /\ tasks = <<>>
    /\ events # {} => "hup" \in events
    /\ Enabled => /\ armed = "in" /\ rcvq = 0 /\ ~m_linger
                  /\ bytes_to_send = 0 /\ bytes_have_send > 0

MembersType ==
  /\ m_iv \in [head : Nat \X Nat, file : Nat \X Nat]
  /\ bytes_to_send \in Nat /\ bytes_have_send \in Nat
  /\ answers \in Seq([kind : {"file", "error"}, keep : BOOLEAN])
  /\ wire \in Seq(Units) /\ sndq \in Seq(Units) /\ due \in Seq(Units)

\* The requests that were sent: answered, read or under way.
Requested ==
  /\ 2 * Len(answers) < sent => sndq = <<>>
  /\ Between => sent = 2 * Len(answers) + m_read_index + rcvq /\ sent <= 2 * Len(answers) + 2
  /\ ~Between => /\ sent = 2 * Len(answers) + rcvq /\ rcvq <= 2
                 /\ rcvq > 0 => m_linger /\ bytes_to_send = 0

\* The last response: not begun, begun (its head went with the first writev,
\* for the peer had read all that was written before) or written.
Written ==
  /\ ~Between => /\ answers # <<>> /\ m_linger = Last.keep
                 /\ bytes_have_send + bytes_to_send = HeadLen + FileUnits
  /\ bytes_to_send = 0 => wire \o sndq = due
  /\ bytes_to_send > 0 /\ bytes_have_send = 0 =>
       /\ sndq = <<>> /\ m_iv = [head |-> <<0, HeadLen>>, file |-> <<0, FileUnits>>]
       /\ wire \o Response(Len(answers), Last.kind) = due
  /\ bytes_to_send > 0 /\ bytes_have_send > 0 =>
       /\ bytes_have_send >= HeadLen
       /\ m_iv = [head |-> <<0, 0>>, file |-> <<bytes_have_send - HeadLen, bytes_to_send>>]
       /\ wire \o sndq \o UnitsOf(Len(answers), "file", bytes_have_send - HeadLen, bytes_to_send) = due

Data == MembersType /\ (isopen => Requested /\ Written)
SlotInv == Located /\ Final /\ Data
HttpInv == UserInv /\ (~clash => SlotInv)

\* With nobody else inside, a worker is where it is.
LEMMA Alone ==
  ASSUME NEW w \in Workers, \A v \in Workers : v # w => wpc[v] = "idle"
  PROVE  \A S : "idle" \notin S => (At(S) <=> wpc[w] \in S)
  BY DEF At

LEMMA AloneNext ==
  ASSUME NEW w \in Workers, \A v \in Workers : v # w => wpc'[v] = "idle"
  PROVE  \A S : "idle" \notin S => (At(S)' <=> wpc'[w] \in S)
  BY DEF At

LEMMA Nobody ==
  ASSUME \A v \in Workers : wpc[v] = "idle"
  PROVE  \A S : "idle" \notin S => ~At(S)
  BY DEF At

LEMMA NobodyNext ==
  ASSUME \A v \in Workers : wpc'[v] = "idle"
  PROVE  \A S : "idle" \notin S => ~At(S)'
  BY DEF At

\* A worker that moves while it is inside is the only one.
LEMMA Moves ==
  ASSUME TypeOK, Exclusive, NEW w \in Workers, Inside(w), NEW place \in Places, Goto(w, place)
  PROVE  /\ \A S : "idle" \notin S => (At(S) <=> wpc[w] \in S)
         /\ \A S : "idle" \notin S => (At(S)' <=> place \in S)
<1>1. \A v \in Workers : v # w => wpc[v] = "idle"
  BY DEF Exclusive, Inside
<1>2. wpc'[w] = place /\ \A v \in Workers : v # w => wpc'[v] = "idle"
  BY <1>1, GotoType
<1> QED
  BY <1>1, <1>2, Alone, AloneNext

LEMMA InitSlot == Init => SlotInv
<1> SUFFICES ASSUME Init PROVE SlotInv
  OBVIOUS
<1>1. Located /\ Final
  BY Nobody DEF Init, Located, Final, Between, Enabled
<1>2. MembersType
  BY EmptySeq DEF Init, MembersType
<1> QED
  BY <1>1, <1>2 DEF Init, SlotInv, Data

-----------------------------------------------------------------------------
(* The steps.                                                              *)

Steady == HttpInv /\ ~clash

LEMMA SteadyMeans == Steady => TypeOK /\ Exclusive /\ Owned /\ Located /\ Final /\ Data
  BY DEF Steady, HttpInv, UserInv, SlotInv

LEMMA DataKept ==
  ASSUME Data, UNCHANGED <<slotVars, peerVars, history>>, isopen' => isopen
  PROVE  Data'
<1>1. MembersType'
  BY DEF Data, MembersType, slotVars, peerVars, history
<1>2. isopen' => Requested' /\ Written'
  <2> USE DEF slotVars, peerVars, history
  <2> SUFFICES ASSUME isopen' PROVE Requested' /\ Written'
    OBVIOUS
  <2>1. Requested /\ Written
    BY DEF Data
  <2>2. Requested'
    BY <2>1 DEF Requested, Between
  <2>3. Written'
    BY <2>1 DEF Written, Between, Last, FileUnits
  <2> QED
    BY <2>2, <2>3
<1> QED
  BY <1>1, <1>2 DEF Data

LEMMA AcceptSlot ==
  ASSUME Steady, Accept, ~clash'
  PROVE  SlotInv'
<1> USE SteadyMeans
<1>1. /\ \A w \in Workers : wpc[w] = "idle" /\ wpc'[w] = "idle"
      /\ events' = {} /\ tasks' = <<>> /\ armed' = "in" /\ isopen' /\ m_sockfd' /\ ~isopen
      /\ UNCHANGED <<m_read_index, m_iv, bytes_to_send, bytes_have_send>>
  BY DEF Accept, InUse, OnItsWay
<1>2. Between /\ m_read_index = 0
  BY <1>1, Nobody DEF Located
<1>3. Between' /\ Located'
  BY <1>1, <1>2, NobodyNext DEF Located, Between, Enabled
<1>4. Final'
  BY <1>1, NobodyNext DEF Final
<1>5. /\ wire' = <<>> /\ sndq' = <<>> /\ due' = <<>> /\ answers' = <<>>
      /\ sent' = 0 /\ rcvq' = 0 /\ m_read_index' = 0
  BY <1>1, <1>2 DEF Accept
<1>6. MembersType'
  BY <1>1, <1>5, EmptySeq DEF MembersType, Data
<1>7. Requested'
  BY <1>3, <1>5 DEF Requested
<1>8. Written'
  <2>1. wire' \o sndq' = due'
    BY <1>5
  <2> QED
    BY <1>3, <2>1 DEF Written, Between
<1> QED
  BY <1>3, <1>4, <1>6, <1>7, <1>8 DEF SlotInv, Data

LEMMA EpollWaitSlot ==
  ASSUME Steady, EpollWait
  PROVE  SlotInv'
<1> USE SteadyMeans
<1>1. /\ UNCHANGED <<isopen, peerVars, slotVars, tasks, wpc, history>>
      /\ isopen /\ armed \in {"in", "out"} /\ events' # {} /\ events' = Ready /\ armed' = "off"
  BY DEF EpollWait
<1>2. \A S : At(S)' <=> At(S)
  BY <1>1 DEF At
<1>3. /\ armed = "in" => "in" \in events' \/ "hup" \in events'
      /\ armed = "out" => "in" \notin events'
      /\ fin => "hup" \in events'
      /\ armed = "in" /\ rcvq = 0 => fin
  BY <1>1 DEF Ready, TypeOK
<1>4. Located'
  <2>1. UNCHANGED <<isopen, m_sockfd, m_read_index, bytes_to_send, bytes_have_send, tasks>>
    BY <1>1 DEF slotVars
  <2>2. armed = "in" \/ armed = "out"
    BY <1>1
  <2> QED
    BY <1>1, <1>2, <1>3, <2>1, <2>2 DEF Located, Between, Enabled
<1>5. Final'
  <2>1. UNCHANGED <<m_linger, bytes_to_send, bytes_have_send, tasks>>
    BY <1>1 DEF slotVars
  <2>2. Enabled /\ ~Enabled'
    BY <1>1 DEF Enabled
  <2> QED
    BY <1>1, <1>2, <1>3, <2>1, <2>2 DEF Final
<1> QED
  BY <1>1, <1>4, <1>5, DataKept DEF SlotInv

LEMMA DispatchCloseSlot ==
  ASSUME Steady, DispatchClose, ~clash'
  PROVE  SlotInv'
<1> USE SteadyMeans
<1>1. /\ \A w \in Workers : wpc[w] = "idle" /\ wpc'[w] = "idle"
      /\ events' = {} /\ tasks' = <<>>
  BY DEF DispatchClose, InUse, Exclusive
<1>2. ~isopen' /\ ~m_sockfd' /\ ~Enabled'
  BY DEF DispatchClose, RemoveFd, Owned, Located, Enabled, slotVars
<1>3. Between' /\ m_read_index' = 0 /\ m_iv' = m_iv
  BY DEF DispatchClose, Located, Between, Reset, slotVars
<1>4. Located'
  BY <1>1, <1>2, <1>3, NobodyNext DEF Located, Enabled
<1>5. Final'
  BY <1>1, NobodyNext DEF Final
<1>6. MembersType'
  BY <1>3 DEF DispatchClose, MembersType, Data, peerVars, history, Between
<1> QED
  BY <1>2, <1>4, <1>5, <1>6 DEF SlotInv, Data

LEMMA DispatchTaskSlot ==
  ASSUME Steady, DispatchTask
  PROVE  SlotInv'
<1> USE SteadyMeans
<1>1. /\ UNCHANGED <<isopen, armed, peerVars, slotVars, wpc, history>>
      /\ events # {} /\ "hup" \notin events /\ events' = {}
      /\ tasks' = <<IF "in" \in events THEN "read" ELSE "write">>
  <2>1. tasks = <<>>
    <3>1. tasks \in Seq({"read", "write"}) /\ events # {}
      BY DEF TypeOK, DispatchTask
    <3> QED
      BY <3>1 DEF Exclusive
  <2> QED
    BY <2>1 DEF DispatchTask
<1>2. \A S : At(S)' <=> At(S)
  BY <1>1 DEF At
<1>3. UNCHANGED <<m_sockfd, m_read_index, bytes_to_send, bytes_have_send>>
  BY <1>1 DEF slotVars
<1>4. /\ tasks' = <<"read">> => "in" \in events
      /\ tasks' = <<"write">> => events \cap {"in", "hup"} = {}
      /\ tasks' # <<>>
  BY <1>1
<1>5. Located'
  BY <1>1, <1>2, <1>3, <1>4 DEF Located, Between, Enabled
<1>6. Final'
  BY <1>1, <1>2, <1>3 DEF Final, slotVars
<1> QED
  BY <1>1, <1>5, <1>6, DataKept DEF SlotInv

LEMMA TakeTaskSlot ==
  ASSUME Steady, NEW w \in Workers, TakeTask(w), ~clash'
  PROVE  SlotInv'
<1> USE SteadyMeans
<1>1. /\ \A v \in Workers : wpc[v] = "idle"
      /\ UNCHANGED <<isopen, armed, peerVars, slotVars, history>>
      /\ tasks # <<>> /\ tasks' = Tail(tasks) /\ events' = events
  BY DEF TakeTask, InUse
<1>2. tasks' = <<>> /\ tasks = <<Head(tasks)>> /\ Head(tasks) \in {"read", "write"} /\ events = {}
  <2>1. tasks \in Seq({"read", "write"}) /\ Len(tasks) <= 1
    BY DEF TypeOK, Exclusive
  <2>2. Len(tasks) = 1 /\ Head(tasks) \in {"read", "write"}
    <3>1. Len(tasks) \in Nat /\ Len(tasks) # 0
      BY <1>1, <2>1, EmptySeq
    <3>2. Head(tasks) \in {"read", "write"}
      BY <1>1, <2>1
    <3>3. PICK m \in Nat : m = Len(tasks)
      BY <3>1
    <3>4. m = 1
      BY <2>1, <3>1, <3>3
    <3> QED
      BY <3>2, <3>3, <3>4
  <2>3. events = {}
    BY <1>1 DEF Exclusive
  <2>4. tasks = <<Head(tasks)>>
    BY <2>1, <2>2
  <2>5. tasks' = <<>>
    BY <1>1, <2>1, <2>2
  <2> QED
    BY <2>2, <2>3, <2>4, <2>5
<1>3. wpc'[w] = Head(tasks) /\ \A v \in Workers : v # w => wpc'[v] = "idle"
  BY <1>1, <1>2, GotoType DEF TakeTask, Places
<1>4. /\ \A S : "idle" \notin S => ~At(S)
      /\ \A S : "idle" \notin S => (At(S)' <=> Head(tasks) \in S)
  BY <1>1, <1>3, Nobody, AloneNext
<1>5. UNCHANGED <<m_sockfd, m_read_index, bytes_to_send, bytes_have_send>>
  BY <1>1 DEF slotVars
<1>6. Located'
  <2>1. CASE Head(tasks) = "read"
    BY <1>1, <1>2, <1>4, <1>5, <2>1 DEF Located, Between, Enabled
  <2>2. CASE Head(tasks) = "write"
    BY <1>1, <1>2, <1>4, <1>5, <2>2 DEF Located, Between, Enabled
  <2> QED
    BY <1>2, <2>1, <2>2
<1>7. Final'
  BY <1>2, <1>4 DEF Final
<1> QED
  BY <1>1, <1>6, <1>7, DataKept DEF SlotInv

\* A worker moves on and the slot stays.
LEMMA WorkerMoves ==
  ASSUME Steady, NEW w \in Workers, Inside(w), NEW place \in Places, Goto(w, place)
  PROVE  /\ \A S : "idle" \notin S => (At(S) <=> wpc[w] \in S)
         /\ \A S : "idle" \notin S => (At(S)' <=> place \in S)
         /\ ~Leaving(w) => ~Enabled /\ events = {} /\ tasks = <<>>
  BY SteadyMeans, Moves DEF Exclusive, OnItsWay

LEMMA RecvSlot ==
  ASSUME Steady, NEW w \in Workers, Recv(w)
  PROVE  SlotInv'
<1> USE SteadyMeans
<1>0. wpc[w] = "read" /\ Inside(w) /\ ~Leaving(w)
  BY DEF Recv, Inside, Leaving
<1>1. /\ UNCHANGED <<sent, sndq, wire, m_sockfd, m_linger, m_file, m_iv, bytes_to_send,
                     bytes_have_send, events, tasks, history>>
  BY DEF Recv
<1>2. At({"read", "process", "armin"})
  BY <1>0 DEF At
<1>3. isopen /\ Between /\ m_sockfd /\ Between'
  BY <1>1, <1>2 DEF Located, Owned, Between
<1>4. ~Enabled /\ events = {} /\ tasks = <<>>
  BY <1>0 DEF Exclusive, OnItsWay
<1>5. CASE rcvq > 0
  <2>1. /\ m_read_index' = m_read_index + rcvq /\ rcvq' = 0
        /\ UNCHANGED <<isopen, armed, wpc>>
    BY <1>3, <1>5 DEF Recv
  <2>2. \A S : At(S)' <=> At(S)
    BY <2>1 DEF At
  <2>3. Located' /\ Final'
    BY <1>1, <1>3, <1>4, <2>1, <2>2 DEF Located, Final, Enabled
  <2>4. MembersType'
    BY <1>1 DEF Data, MembersType, history
  <2>5. Requested'
    <3>1. m_read_index \in Nat /\ rcvq \in Nat
      BY DEF TypeOK
    <3> QED
      BY <1>1, <1>3, <2>1, <3>1 DEF Data, Requested, history
  <2>6. Written'
    BY <1>1, <1>3 DEF Data, Written, Between, history
  <2> QED
    BY <2>3, <2>4, <2>5, <2>6 DEF SlotInv, Data
<1>6. CASE ~(rcvq > 0)
  <2>1. /\ Goto(w, "close") \/ (Goto(w, "process") /\ UNCHANGED <<isopen, armed>>)
        /\ UNCHANGED <<m_read_index, rcvq>>
        /\ (RemoveFd /\ Goto(w, "close")) \/ UNCHANGED <<isopen, armed>>
    BY <1>3, <1>6 DEF Recv
  <2>2. PICK place \in {"close", "process"} : Goto(w, place) /\ (place = "process" => isopen' = isopen)
    BY <2>1
  <2>3. \A S : "idle" \notin S => (At(S)' <=> place \in S)
    BY <1>0, <2>2, WorkerMoves DEF Places
  <2>4. ~Enabled' /\ (isopen' => isopen)
    BY <1>4, <2>1 DEF RemoveFd, Enabled
  <2>5. Located' /\ Final'
    <3>1. CASE place = "close"
      BY <1>1, <1>3, <1>4, <2>1, <2>3, <2>4, <3>1 DEF Located, Final, Enabled
    <3>2. CASE place = "process"
      BY <1>1, <1>3, <1>4, <2>1, <2>2, <2>3, <2>4, <3>2 DEF Located, Final, Enabled
    <3> QED
      BY <3>1, <3>2
  <2>6. MembersType'
    BY <1>1 DEF Data, MembersType, history
  <2>7. isopen' => Requested' /\ Written'
    BY <1>1, <1>3, <2>1, <2>4 DEF Data, Requested, Written, Between, history
  <2> QED
    BY <2>5, <2>6, <2>7 DEF SlotInv, Data
<1> QED
  BY <1>5, <1>6

\* Steps of a worker that leave the slot, the queues and epoll alone.
LEMMA PlainSlot ==
  ASSUME Steady, NEW w \in Workers, Inside(w), ~Leaving(w),
         NEW place \in {"armin", "armout", "close"}, Goto(w, place),
         UNCHANGED <<isopen, armed, peerVars, m_sockfd, m_read_index, m_linger, m_iv,
                     bytes_to_send, bytes_have_send, events, tasks, history>>,
         isopen, place = "armin" => Between, place = "armout" => bytes_to_send > 0
  PROVE  SlotInv'
<1> USE SteadyMeans
<1>1. /\ \A S : "idle" \notin S => (At(S)' <=> place \in S)
      /\ ~Enabled /\ events = {} /\ tasks = <<>>
  BY WorkerMoves DEF Places
<1>2. Located' /\ Final'
  BY <1>1 DEF Located, Owned, Final, Between, Enabled
<1>3. MembersType'
  BY DEF Data, MembersType, peerVars, history
<1>4. Requested'
  BY DEF Data, Requested, Between, peerVars, history
<1>5. Written'
  BY DEF Data, Written, Between, Last, FileUnits, peerVars, history
<1> QED
  BY <1>2, <1>3, <1>4, <1>5 DEF SlotInv, Data

LEMMA ReadPlainSlot ==
  ASSUME Steady, NEW w \in Workers, AwaitMore(w) \/ PrepareNothing(w)
  PROVE  SlotInv'
<1>1. /\ wpc[w] = "process" /\ Inside(w) /\ ~Leaving(w)
      /\ UNCHANGED <<isopen, armed, peerVars, slotVars, events, tasks, history>>
      /\ \E place \in {"armin", "close"} : Goto(w, place)
  BY DEF AwaitMore, PrepareNothing, Inside, Leaving
<1>2. At({"read", "process", "armin"})
  BY <1>1 DEF At
<1>3. isopen /\ Between
  BY <1>2, SteadyMeans DEF Located
<1> QED
  BY <1>1, <1>3, PlainSlot DEF slotVars

LEMMA WritePlainSlot ==
  ASSUME Steady, NEW w \in Workers, WouldBlock(w) \/ WriteFails(w)
  PROVE  SlotInv'
<1>1. /\ wpc[w] = "write" /\ Inside(w) /\ ~Leaving(w)
      /\ UNCHANGED <<isopen, armed, peerVars, m_sockfd, m_read_index, m_linger, m_iv,
                     bytes_to_send, bytes_have_send, events, tasks, history>>
      /\ \E place \in {"armout", "close"} : Goto(w, place)
  BY DEF WouldBlock, WriteFails, Inside, Leaving, slotVars
<1>2. At({"armout", "write"})
  BY <1>1 DEF At
<1>3. isopen /\ bytes_to_send > 0
  BY <1>2, SteadyMeans DEF Located
<1> QED
  BY <1>1, <1>3, PlainSlot

LEMMA ModfdSlot ==
  ASSUME Steady, NEW w \in Workers, Modfd(w)
  PROVE  SlotInv'
<1> USE SteadyMeans
<1>1. /\ wpc[w] \in {"armin", "armout"} /\ Inside(w) /\ ~Leaving(w) /\ Goto(w, "idle")
      /\ UNCHANGED <<isopen, peerVars, slotVars, events, tasks, history>>
  BY DEF Modfd, Inside, Leaving
<1>2. /\ \A S : "idle" \notin S => ~At(S)'
      /\ \A S : "idle" \notin S => (At(S) <=> wpc[w] \in S)
      /\ events = {} /\ tasks = <<>>
  BY <1>1, WorkerMoves DEF Places
<1>3. UNCHANGED <<m_sockfd, m_read_index, m_linger, bytes_to_send, bytes_have_send>>
  BY <1>1 DEF slotVars
<1>4. CASE wpc[w] = "armin"
  <2>1. isopen /\ Between /\ m_sockfd
    BY <1>2, <1>4 DEF Located, Owned
  <2>2. armed' = "in"
    BY <1>4, <2>1 DEF Modfd, Rearm
  <2> QED
    BY <1>1, <1>2, <1>3, <2>1, <2>2, DataKept DEF SlotInv, Located, Final, Between, Enabled
<1>5. CASE wpc[w] = "armout"
  <2>1. isopen /\ bytes_to_send > 0 /\ m_sockfd
    BY <1>2, <1>5 DEF Located, Owned
  <2>2. armed' = "out"
    BY <1>5, <2>1 DEF Modfd, Rearm
  <2> QED
    BY <1>1, <1>2, <1>3, <2>1, <2>2, DataKept DEF SlotInv, Located, Final, Between, Enabled
<1> QED
  BY <1>1, <1>4, <1>5

LEMMA ResponseSentSlot ==
  ASSUME Steady, NEW w \in Workers, ResponseSent(w)
  PROVE  SlotInv'
<1> USE SteadyMeans
<1>1. /\ wpc[w] = "sent" /\ Inside(w) /\ ~Leaving(w) /\ Goto(w, "tail")
      /\ UNCHANGED <<isopen, peerVars, m_sockfd, m_read_index, m_linger, m_iv,
                     bytes_to_send, bytes_have_send, events, tasks, history>>
  BY DEF ResponseSent, Inside, Leaving
<1>2. /\ \A S : "idle" \notin S => (At(S)' <=> "tail" \in S)
      /\ \A S : "idle" \notin S => (At(S) <=> "sent" \in S)
      /\ events = {} /\ tasks = <<>>
  BY <1>1, WorkerMoves DEF Places
<1>3. isopen /\ bytes_to_send = 0 /\ bytes_have_send > 0 /\ m_sockfd /\ ~Between
  BY <1>2 DEF Located, Owned, Between
<1>4. armed' = "in"
  BY <1>3 DEF ResponseSent, Rearm
<1>5. rcvq' = rcvq /\ (rcvq = 0 \/ m_linger)
  BY <1>1, <1>3 DEF Data, Requested, TypeOK, peerVars
<1>6. Located' /\ Final'
  BY <1>1, <1>2, <1>3, <1>4, <1>5 DEF Located, Final, Between, Enabled
<1>7. MembersType'
  BY <1>1 DEF Data, MembersType, peerVars, history
<1>8. Requested' /\ Written'
  BY <1>1, <1>3 DEF Data, Requested, Written, Between, Last, FileUnits, peerVars, history
<1> QED
  BY <1>6, <1>7, <1>8 DEF SlotInv, Data

LEMMA FinishSlot ==
  ASSUME Steady, NEW w \in Workers, Finish(w)
  PROVE  SlotInv'
<1> USE SteadyMeans
<1>1. /\ wpc[w] = "tail" /\ Inside(w)
      /\ UNCHANGED <<isopen, armed, peerVars, events, tasks, history>>
  BY DEF Finish, Inside
<1>2. At({"sent", "tail"}) /\ At({"tail"})
  BY <1>1 DEF At
<1>3. isopen /\ bytes_to_send = 0 /\ bytes_have_send > 0 /\ m_sockfd /\ ~Between
  BY <1>2 DEF Located, Owned, Between
<1>4. CASE m_linger
  <2>1. Reset /\ Goto(w, "idle") /\ m_sockfd' = m_sockfd
    BY <1>4 DEF Finish
  <2>2. \A S : "idle" \notin S => ~At(S)'
    BY <1>1, <2>1, WorkerMoves DEF Places
  <2>3. Between' /\ m_read_index' = 0 /\ m_iv' = m_iv
    BY <2>1 DEF Reset, Between
  <2>4. ~(bytes_to_send > 0)
    BY <1>3
  <2>5. Located'
    BY <1>1, <1>3, <2>1, <2>2, <2>3, <2>4 DEF Located, Enabled
  <2>6. Final'
    BY <2>2 DEF Final
  <2>7. MembersType'
    BY <1>1, <2>3 DEF Data, MembersType, Between, peerVars, history
  <2>8. Requested'
    <3>1. sent = 2 * Len(answers) + rcvq /\ rcvq <= 2 /\ rcvq \in Nat
      BY <1>3 DEF Data, Requested, TypeOK
    <3>2. Len(answers) \in Nat /\ UNCHANGED <<sent, rcvq, answers, sndq>>
      BY <1>1 DEF Data, MembersType, peerVars, history
    <3>3. 2 * Len(answers) < sent => sndq = <<>>
      BY <1>3 DEF Data, Requested
    <3> QED
      BY <2>3, <3>1, <3>2, <3>3 DEF Requested
  <2>9. Written'
    BY <1>1, <1>3, <2>3 DEF Data, Written, Between, peerVars, history
  <2> QED
    BY <2>5, <2>6, <2>7, <2>8, <2>9 DEF SlotInv, Data
<1>5. CASE ~m_linger
  <2>1. Goto(w, "close") /\ UNCHANGED slotVars
    BY <1>5 DEF Finish
  <2>2. \A S : "idle" \notin S => (At(S)' <=> "close" \in S)
    BY <1>1, <2>1, WorkerMoves DEF Places
  <2>3. UNCHANGED <<m_sockfd, m_read_index, m_linger, bytes_to_send, bytes_have_send, rcvq>>
    BY <1>1, <2>1 DEF slotVars, peerVars
  <2>4. /\ tasks = <<>> /\ (events # {} => "hup" \in events)
        /\ Enabled => /\ armed = "in" /\ rcvq = 0 /\ ~m_linger
                      /\ bytes_to_send = 0 /\ bytes_have_send > 0
    BY <1>2, <1>5 DEF Final
  <2>5. Final'
    BY <1>1, <2>2, <2>3, <2>4 DEF Final, Enabled
  <2>6. Located'
    BY <1>1, <1>2, <1>3, <2>2, <2>3, <2>4 DEF Located, Between, Enabled
  <2> QED
    BY <1>1, <2>1, <2>5, <2>6, DataKept DEF SlotInv
<1> QED
  BY <1>4, <1>5 DEF TypeOK

LEMMA CloseSlot ==
  ASSUME Steady, NEW w \in Workers, CloseConn(w) \/ ClearSlot(w)
  PROVE  SlotInv'
<1> USE SteadyMeans
<1>1. CASE CloseConn(w)
  <2>1. /\ wpc[w] = "close" /\ Inside(w)
        /\ UNCHANGED <<peerVars, slotVars, events, tasks, history>>
    BY <1>1 DEF CloseConn, Inside
  <2>2. At({"close"})
    BY <2>1 DEF At
  <2>3. tasks = <<>> /\ (events # {} => "hup" \in events)
    BY <2>2 DEF Final
  <2>4. UNCHANGED <<m_sockfd, m_read_index, m_linger, bytes_to_send, bytes_have_send>>
    BY <2>1 DEF slotVars
  <2>5. CASE m_sockfd
    <3>1. ~isopen' /\ armed' = "no" /\ Goto(w, "closing")
      BY <1>1, <2>5 DEF CloseConn, RemoveFd
    <3>2. \A S : "idle" \notin S => (At(S)' <=> "closing" \in S)
      BY <2>1, <3>1, WorkerMoves DEF Places
    <3>3. Located' /\ Final'
      BY <2>1, <2>3, <2>4, <2>5, <3>1, <3>2 DEF Located, Final, Enabled
    <3> QED
      BY <2>1, <3>1, <3>3, DataKept DEF SlotInv
  <2>6. CASE ~m_sockfd
    <3>1. Goto(w, "idle") /\ UNCHANGED <<isopen, armed>>
      BY <1>1, <2>6 DEF CloseConn
    <3>2. \A S : "idle" \notin S => ~At(S)'
      BY <2>1, <3>1, WorkerMoves DEF Places
    <3>3. ~isopen /\ Between /\ m_read_index = 0 /\ ~Enabled /\ ~(armed = "in") /\ ~(armed = "out")
      BY <2>6 DEF Located, Owned, Enabled
    <3>4. Located' /\ Final'
      BY <2>1, <2>3, <2>4, <2>6, <3>1, <3>2, <3>3 DEF Located, Final, Between, Enabled
    <3> QED
      BY <2>1, <3>1, <3>4, DataKept DEF SlotInv
  <2> QED
    BY <2>5, <2>6
<1>2. CASE ClearSlot(w)
  <2>1. /\ wpc[w] = "closing" /\ Inside(w) /\ Goto(w, "idle") /\ ~m_sockfd' /\ Reset
        /\ UNCHANGED <<isopen, armed, peerVars, events, tasks, history>>
    BY <1>2 DEF ClearSlot, Inside
  <2>3. ~isopen /\ ~Enabled /\ tasks = <<>> /\ (events # {} => "hup" \in events)
    BY <2>1 DEF Located, Owned
  <2>4. Between' /\ m_read_index' = 0 /\ m_iv' = m_iv
    BY <2>1 DEF Reset, Between
  <2>5. \A S : "idle" \notin S => ~At(S)'
    BY <2>1, WorkerMoves DEF Places
  <2>6. Located' /\ Final'
    BY <2>1, <2>3, <2>4, <2>5 DEF Located, Final, Enabled
  <2>7. MembersType'
    BY <2>1, <2>4 DEF Data, MembersType, Between, peerVars, history
  <2> QED
    BY <2>1, <2>3, <2>6, <2>7 DEF SlotInv, Data
<1> QED
  BY <1>1, <1>2

LEMMA UnitsAssoc ==
  \A s, t, u \in Seq(Units) : (s \o t) \o u = s \o (t \o u)
  BY ConcatAssociative

LEMMA PrepareSlot ==
  ASSUME Steady, NEW w \in Workers, NEW kind \in {"file", "error"}, Prepare(w, kind)
  PROVE  SlotInv'
<1> USE SteadyMeans
<1> DEFINE F == IF kind = "file" THEN FileLen ELSE 0
           k == Len(answers) + 1
<1>1. /\ wpc[w] = "process" /\ Inside(w) /\ ~Leaving(w) /\ Goto(w, "armout") /\ Complete
      /\ UNCHANGED <<isopen, armed, peerVars, m_sockfd, m_read_index, bytes_have_send,
                     events, tasks>>
      /\ m_linger' \in BOOLEAN
      /\ m_iv' = [head |-> <<0, HeadLen>>, file |-> <<0, F>>]
      /\ bytes_to_send' = HeadLen + F
      /\ answers' = Append(answers, [kind |-> kind, keep |-> m_linger'])
      /\ due' = due \o Response(k, kind)
  BY DEF Prepare, Inside, Leaving
<1>2. /\ \A S : "idle" \notin S => (At(S)' <=> "armout" \in S)
      /\ \A S : "idle" \notin S => (At(S) <=> "process" \in S)
      /\ ~Enabled /\ events = {} /\ tasks = <<>>
  BY <1>1, WorkerMoves DEF Places
<1>3. isopen /\ Between /\ m_sockfd
  BY <1>2 DEF Located, Owned
<1>4. F \in Nat /\ HeadLen \in Nat \ {0}
  BY SizeAssumption
<1>5. bytes_to_send' \in Nat /\ bytes_to_send' > 0 /\ bytes_have_send' = 0 /\ ~Between'
  BY <1>1, <1>3, <1>4 DEF Between
<1>6. Located' /\ Final'
  <2>1. UNCHANGED <<isopen, armed, m_sockfd, events, tasks>>
    BY <1>1
  <2> QED
    BY <1>2, <1>3, <1>5, <2>1 DEF Located, Final, Enabled
<1>7. /\ answers \in Seq([kind : {"file", "error"}, keep : BOOLEAN])
      /\ Len(answers) \in Nat /\ m_read_index \in Nat /\ rcvq \in Nat
  BY DEF TypeOK, Data, MembersType
<1>8. /\ sent = 2 * Len(answers) + m_read_index + rcvq /\ sent <= 2 * Len(answers) + 2
      /\ 2 * Len(answers) < sent => sndq = <<>>
      /\ wire \o sndq = due
  BY <1>3 DEF Data, Requested, Written, Between
<1>9. m_read_index = 2 /\ rcvq = 0 /\ sent = 2 * k /\ sndq = <<>>
  BY <1>1, <1>7, <1>8 DEF Complete
<1>10. wire \in Seq(Units) /\ sndq \in Seq(Units) /\ due \in Seq(Units) /\ wire = due
  BY <1>8, <1>9 DEF Data, MembersType
<1>11. Response(k, kind) \in Seq(Units)
  <2>1. k \in Nat
    BY <1>7
  <2>2. UnitsOf(k, "head", 0, HeadLen) \in Seq(Units) /\ UnitsOf(k, "file", 0, FileLen) \in Seq(Units)
    BY <2>1, UnitsTyped, SizeAssumption
  <2> QED
    BY <2>2, ConcatProperties, EmptySeq DEF Response
<1>12. /\ Len(answers') = k /\ answers' # <<>>
       /\ answers'[k] = [kind |-> kind, keep |-> m_linger']
       /\ answers' \in Seq([kind : {"file", "error"}, keep : BOOLEAN])
  <2>1. [kind |-> kind, keep |-> m_linger'] \in [kind : {"file", "error"}, keep : BOOLEAN]
    BY <1>1
  <2>2. /\ answers' \in Seq([kind : {"file", "error"}, keep : BOOLEAN])
        /\ Len(answers') = k /\ answers'[k] = [kind |-> kind, keep |-> m_linger']
    BY <1>1, <1>7, <2>1, AppendProperties
  <2> QED
    BY <1>7, <2>2, EmptySeq
<1>13. MembersType'
  <2>1. m_iv' \in [head : Nat \X Nat, file : Nat \X Nat]
    BY <1>1, <1>4
  <2>2. due' \in Seq(Units)
    BY <1>1, <1>10, <1>11, ConcatProperties
  <2> QED
    BY <1>1, <1>5, <1>10, <1>12, <2>1, <2>2 DEF Data, MembersType, peerVars
<1>14. Requested'
  <2>1. sent' = 2 * k /\ rcvq' = 0 /\ Len(answers)' = k /\ k \in Nat
    BY <1>1, <1>7, <1>9, <1>12 DEF peerVars
  <2> QED
    BY <1>5, <2>1 DEF Requested
<1>15. Written'
  <2>1. Last' = [kind |-> kind, keep |-> m_linger']
    BY <1>12 DEF Last
  <2>2. FileUnits' = F /\ Last'.kind = kind /\ Last'.keep = m_linger'
    BY <2>1 DEF FileUnits
  <2>3. sndq' = <<>> /\ wire' \o Response(k, kind) = due'
    BY <1>1, <1>9, <1>10 DEF peerVars
  <2>4. bytes_have_send' + bytes_to_send' = HeadLen + F
    BY <1>1, <1>4, <1>5
  <2> HIDE DEF F
  <2> QED
    BY <1>1, <1>5, <1>12, <2>1, <2>2, <2>3, <2>4 DEF Written
<1> QED
  BY <1>6, <1>13, <1>14, <1>15 DEF SlotInv, Data

LEMMA WritevSlot ==
  ASSUME Steady, NEW w \in Workers, Writev(w)
  PROVE  SlotInv'
<1> USE SteadyMeans
<1> DEFINE n == LeastOf(Room, bytes_to_send)
           have == bytes_have_send + n
           k == Len(answers)
<1>1. /\ wpc[w] = "write" /\ Inside(w) /\ ~Leaving(w) /\ Room > 0
      /\ UNCHANGED <<isopen, armed, rcvq, sent, fin, wire, m_sockfd, m_read_index,
                     m_linger, m_file, events, tasks, history>>
      /\ sndq' = sndq \o Gathered(n) /\ Advance(n, have)
      /\ bytes_have_send' = have /\ bytes_to_send' = bytes_to_send - n
      /\ Goto(w, IF bytes_to_send' = 0 THEN "sent" ELSE "write")
  BY DEF Writev, Inside, Leaving
<1>2. /\ At({"armout", "write"}) /\ ~Enabled /\ events = {} /\ tasks = <<>>
  BY <1>1, WorkerMoves DEF Places
<1>3. isopen /\ bytes_to_send > 0 /\ m_sockfd /\ ~Between
  BY <1>2 DEF Located, Owned, Between
<1>4. /\ bytes_to_send \in Nat /\ bytes_have_send \in Nat /\ SndBuf \in Nat /\ HeadLen \in Nat \ {0}
      /\ FileUnits \in Nat /\ k \in Nat /\ Room \in Int /\ Room <= SndBuf
      /\ sndq \in Seq(Units) /\ wire \in Seq(Units) /\ due \in Seq(Units)
  BY SizeAssumption DEF Data, MembersType, FileUnits, Room
<1>5. n \in Nat \ {0} /\ n <= bytes_to_send /\ n <= Room /\ (n = bytes_to_send \/ n = Room)
  BY <1>1, <1>3, <1>4 DEF LeastOf
<1>6. have \in Nat \ {0} /\ bytes_to_send - n \in Nat /\ bytes_to_send' \in Nat
  BY <1>1, <1>4, <1>5
<1> HIDE DEF n, have, k
<1>7. Located' /\ Final'
  <2> DEFINE place == IF bytes_to_send' = 0 THEN "sent" ELSE "write"
  <2>1. place \in {"sent", "write"} /\ (place = "sent" <=> bytes_to_send' = 0)
    OBVIOUS
  <2>2. \A S : "idle" \notin S => (At(S)' <=> place \in S)
    BY <1>1, <2>1, WorkerMoves DEF Places
  <2> HIDE DEF place
  <2>3. bytes_to_send' > 0 \/ bytes_to_send' = 0
    BY <1>6
  <2>4. bytes_have_send' > 0
    BY <1>1, <1>6
  <2> QED
    BY <1>1, <1>2, <1>3, <2>1, <2>2, <2>3, <2>4 DEF Located, Final, Enabled
<1>8. /\ answers # <<>> /\ m_linger = Last.keep
      /\ bytes_have_send + bytes_to_send = HeadLen + FileUnits
      /\ sent = 2 * k + rcvq /\ ~(rcvq > 0)
      /\ 2 * k < sent => sndq = <<>>
  BY <1>3 DEF Data, Requested, Written, k
<1>9. UNCHANGED <<Last, FileUnits, answers, due>>
  BY <1>1 DEF Last, FileUnits, history
<1>10. Requested'
  <2>1. rcvq \in Nat
    BY DEF TypeOK
  <2>2. rcvq = 0 /\ sent = 2 * k
    BY <1>4, <1>8, <2>1
  <2>3. ~Between'
    BY <1>1, <1>6 DEF Between
  <2> QED
    BY <1>1, <1>4, <1>9, <2>2, <2>3 DEF Requested, k
\* What the writev took, and what the iovecs describe then.
<1>11. /\ Gathered(n) \in Seq(Units) /\ have >= HeadLen
       /\ m_iv' = [head |-> <<0, 0>>, file |-> <<have - HeadLen, bytes_to_send - n>>]
       /\ wire \o (sndq \o Gathered(n)) \o UnitsOf(k, "file", have - HeadLen, bytes_to_send - n) = due
  <2>1. CASE bytes_have_send = 0
    <3>1. /\ sndq = <<>> /\ m_iv = [head |-> <<0, HeadLen>>, file |-> <<0, FileUnits>>]
          /\ wire \o Response(k, Last.kind) = due
          /\ bytes_to_send = HeadLen + FileUnits
      BY <1>3, <1>4, <1>8, <2>1 DEF Data, Written, k
    <3>2. Room = SndBuf
      BY <1>4, <3>1 DEF Room
    <3>3. n >= HeadLen /\ have = n
      BY <1>4, <1>5, <2>1, <3>1, <3>2, SizeAssumption DEF have
    <3> DEFINE h == UnitsOf(k, "head", 0, HeadLen)
               f == UnitsOf(k, "file", 0, n - HeadLen)
               g == UnitsOf(k, "file", n - HeadLen, bytes_to_send - n)
    <3>4. n - HeadLen \in Nat /\ bytes_to_send - n \in Nat
          /\ FileUnits = (n - HeadLen) + (bytes_to_send - n)
      BY <1>4, <1>5, <1>6, <3>1, <3>3
    <3>5. FromHead(n) = HeadLen
      BY <1>4, <1>5, <3>1, <3>3 DEF FromHead, LeastOf
    <3>6. Gathered(n) = h \o f
      BY <3>1, <3>5 DEF Gathered, k
    <3>7. h \in Seq(Units) /\ f \in Seq(Units) /\ g \in Seq(Units)
      BY <1>4, <3>4, UnitsTyped
    <3>8. f \o g = UnitsOf(k, "file", 0, FileUnits)
      <4>1. PICK x, y \in Nat : x = n - HeadLen /\ y = bytes_to_send - n
        BY <3>4
      <4>2. \A e, l, m \in Nat : UnitsOf(k, "file", e, l + m)
                                = UnitsOf(k, "file", e, l) \o UnitsOf(k, "file", e + l, m)
        BY <1>4, UnitsSplit
      <4>3. UnitsOf(k, "file", 0, x + y) = UnitsOf(k, "file", 0, x) \o UnitsOf(k, "file", 0 + x, y)
        BY <4>2
      <4>4. 0 + x = x /\ FileUnits = x + y
        BY <3>4, <4>1
      <4> QED
        BY <4>1, <4>3, <4>4
    <3>9. Response(k, Last.kind) = h \o (f \o g)
      <4>1. CASE Last.kind = "file"
        BY <3>8, <4>1 DEF Response, FileUnits
      <4>2. CASE Last.kind # "file"
        BY <1>4, <3>8, <4>2, UnitsTyped DEF Response, FileUnits
      <4> QED
        BY <4>1, <4>2
    <3>10. m_iv' = [head |-> <<0, 0>>, file |-> <<have - HeadLen, bytes_to_send - n>>]
      BY <1>1, <3>1, <3>3 DEF Advance
    <3> HIDE DEF h, f, g
    <3>11. wire \o (sndq \o (h \o f)) \o g = wire \o (h \o (f \o g))
      <4>1. sndq \o (h \o f) = h \o f /\ h \o f \in Seq(Units)
        BY <3>1, <3>7, ConcatProperties, ConcatEmptySeq
      <4>2. wire \o (h \o f) \o g = wire \o ((h \o f) \o g)
        BY <1>4, <3>7, <4>1, UnitsAssoc
      <4>3. (h \o f) \o g = h \o (f \o g)
        BY <3>7, UnitsAssoc
      <4> QED
        BY <4>1, <4>2, <4>3
    <3>12. Gathered(n) \in Seq(Units)
      BY <3>6, <3>7, ConcatProperties
    <3> QED
      BY <3>1, <3>3, <3>6, <3>9, <3>10, <3>11, <3>12 DEF g
  <2>2. CASE bytes_have_send # 0
    <3> DEFINE from == bytes_have_send - HeadLen
               f == UnitsOf(k, "file", from, n)
               g == UnitsOf(k, "file", from + n, bytes_to_send - n)
    <3>1. /\ bytes_have_send >= HeadLen
          /\ m_iv = [head |-> <<0, 0>>, file |-> <<from, bytes_to_send>>]
          /\ wire \o sndq \o UnitsOf(k, "file", from, bytes_to_send) = due
      BY <1>3, <1>4, <2>2 DEF Data, Written, k
    <3>2. from \in Nat /\ from + n \in Nat /\ from + n = have - HeadLen /\ have >= HeadLen
      BY <1>4, <1>5, <3>1 DEF have
    <3>3. Gathered(n) = UnitsOf(k, "head", 0, 0) \o f
      <4>1. FromHead(n) = 0 /\ n - 0 = n
        BY <1>5, <3>1 DEF FromHead, LeastOf
      <4> QED
        BY <3>1, <4>1 DEF Gathered, k
    <3>4. /\ UnitsOf(k, "head", 0, 0) = <<>> /\ f \in Seq(Units) /\ g \in Seq(Units)
      BY <1>4, <1>5, <1>6, <3>2, UnitsTyped
    <3>5. Gathered(n) = f
      BY <3>3, <3>4, ConcatEmptySeq
    <3>6. UnitsOf(k, "file", from, bytes_to_send) = f \o g
      <4>1. bytes_to_send = n + (bytes_to_send - n)
        BY <1>4, <1>5
      <4>2. \A l, m \in Nat : UnitsOf(k, "file", from, l + m)
                             = UnitsOf(k, "file", from, l) \o UnitsOf(k, "file", from + l, m)
        BY <1>4, <3>2, UnitsSplit
      <4> QED
        BY <1>5, <1>6, <4>1, <4>2
    <3>7. m_iv' = [head |-> <<0, 0>>, file |-> <<have - HeadLen, bytes_to_send - n>>]
      BY <1>1, <1>6, <3>1 DEF Advance
    <3>8. g = UnitsOf(k, "file", have - HeadLen, bytes_to_send - n)
      BY <3>2
    <3> HIDE DEF f, g
    <3>9. wire \o (sndq \o f) \o g = wire \o sndq \o (f \o g)
      <4>1. /\ sndq \o f \in Seq(Units) /\ f \o g \in Seq(Units)
            /\ wire \o sndq \in Seq(Units)
        BY <1>4, <3>4, ConcatProperties
      <4>2. wire \o (sndq \o f) = (wire \o sndq) \o f
        BY <1>4, <3>4, UnitsAssoc
      <4>3. ((wire \o sndq) \o f) \o g = (wire \o sndq) \o (f \o g)
        BY <3>4, <4>1, UnitsAssoc
      <4> QED
        BY <4>2, <4>3
    <3> QED
      BY <3>1, <3>2, <3>4, <3>5, <3>6, <3>7, <3>8, <3>9
  <2> QED
    BY <2>1, <2>2
<1>12. MembersType'
  <2>1. m_iv' \in [head : Nat \X Nat, file : Nat \X Nat]
    <3>1. have - HeadLen \in Nat
      BY <1>4, <1>6, <1>11
    <3> QED
      BY <1>6, <1>11, <3>1
  <2>2. sndq' \in Seq(Units)
    BY <1>1, <1>4, <1>11, ConcatProperties
  <2> QED
    BY <1>1, <1>6, <1>9, <2>1, <2>2 DEF Data, MembersType
<1>13. Written'
  <2>1. /\ answers' # <<>> /\ m_linger' = Last'.keep /\ Len(answers)' = k
        /\ bytes_have_send' + bytes_to_send' = HeadLen + FileUnits'
    <3>1. have + (bytes_to_send - n) = bytes_have_send + bytes_to_send
      BY <1>4, <1>5 DEF have
    <3> QED
      BY <1>1, <1>8, <1>9, <3>1 DEF k
  <2>2. wire' \o sndq' \o UnitsOf(k, "file", bytes_have_send' - HeadLen, bytes_to_send') = due'
    BY <1>1, <1>9, <1>11
  <2>3. bytes_to_send' = 0 => wire' \o sndq' = due'
    <3>1. have - HeadLen \in Nat
      BY <1>4, <1>6, <1>11
    <3>2. UnitsOf(k, "file", have - HeadLen, 0) = <<>>
      BY <1>4, <3>1, UnitsTyped
    <3>3. wire' \o sndq' \in Seq(Units)
      BY <1>1, <1>4, <1>12, ConcatProperties DEF MembersType
    <3> QED
      BY <1>1, <2>2, <3>2, <3>3, ConcatEmptySeq
  <2>4. bytes_have_send' # 0 /\ bytes_have_send' = have
    BY <1>1, <1>6
  <2> QED
    BY <1>1, <1>11, <2>1, <2>2, <2>3, <2>4 DEF Written, Between
<1> QED
  BY <1>7, <1>10, <1>12, <1>13 DEF SlotInv, Data

LEMMA PeerSendsSlot ==
  ASSUME Steady, PeerSends
  PROVE  SlotInv'
<1> USE SteadyMeans
<1>1. /\ isopen /\ sent' = sent + 1 /\ rcvq' = rcvq + 1
      /\ UNCHANGED <<isopen, armed, sndq, wire, slotVars, events, tasks, wpc, history>>
  BY DEF PeerSends
<1>2. sent % 2 = 1 \/ (Served /\ Kept)
  BY DEF PeerSends
<1>3. /\ \A S : At(S)' <=> At(S)
      /\ UNCHANGED <<m_sockfd, m_read_index, m_linger, m_iv, bytes_to_send, bytes_have_send>>
  BY <1>1 DEF At, slotVars
<1>4. Located'
  BY <1>1, <1>3 DEF Located, Between, Enabled
<1>5. /\ wire \in Seq(Units) /\ sndq \in Seq(Units) /\ due \in Seq(Units)
      /\ Len(answers) \in Nat /\ rcvq \in Nat /\ m_read_index \in Nat /\ sent \in Nat
  BY DEF Data, MembersType, TypeOK
<1>6. Requested /\ Written
  BY <1>1 DEF Data
\* A peer that has got all responses leaves nothing under way and none begun.
<1>7. Served => sndq = <<>> /\ bytes_to_send = 0
  <2> SUFFICES ASSUME wire = due PROVE sndq = <<>> /\ bytes_to_send = 0
    BY DEF Served
  <2>1. PICK m, n \in Nat : m = Len(wire) /\ n = Len(sndq)
    BY <1>5
  <2>2. CASE bytes_to_send = 0
    <3>1. wire \o sndq = wire
      BY <1>6, <2>2 DEF Written
    <3>2. Len(wire \o sndq) = m + n
      BY <1>5, <2>1, ConcatProperties
    <3>3. n = 0
      BY <2>1, <3>1, <3>2
    <3> QED
      BY <1>5, <2>1, <2>2, <3>3, EmptySeq
  <2>3. CASE bytes_to_send > 0 /\ bytes_have_send = 0
    <3> DEFINE h == UnitsOf(Len(answers), "head", 0, HeadLen)
               f == IF Last.kind = "file" THEN UnitsOf(Len(answers), "file", 0, FileLen) ELSE <<>>
    <3>1. wire \o (h \o f) = wire
      BY <1>6, <2>3 DEF Written, Response
    <3>2. h \in Seq(Units) /\ Len(h) = HeadLen /\ HeadLen \in Nat \ {0}
      <4>1. \A k, l \in Nat : /\ UnitsOf(k, "head", 0, l) \in Seq(Units)
                             /\ Len(UnitsOf(k, "head", 0, l)) = l
        BY UnitsTyped
      <4> QED
        BY <1>5, <4>1, SizeAssumption
    <3>3. f \in Seq(Units)
      <4>1. UnitsOf(Len(answers), "file", 0, FileLen) \in Seq(Units)
        BY <1>5, SizeAssumption, UnitsTyped
      <4> QED
        BY <4>1, EmptySeq
    <3> HIDE DEF h, f
    <3>4. PICK l \in Nat : l = Len(f)
      BY <3>3
    <3>5. h \o f \in Seq(Units) /\ Len(h \o f) = HeadLen + l
      BY <3>2, <3>3, <3>4, ConcatProperties
    <3>6. Len(wire \o (h \o f)) = m + (HeadLen + l)
      BY <1>5, <2>1, <3>5, ConcatProperties
    <3> QED
      BY <2>1, <3>1, <3>2, <3>6
  <2>4. CASE bytes_to_send > 0 /\ bytes_have_send > 0
    <3> DEFINE f == UnitsOf(Len(answers), "file", bytes_have_send - HeadLen, bytes_to_send)
    <3>1. wire \o sndq \o f = wire /\ bytes_have_send >= HeadLen
      BY <1>6, <2>4 DEF Written
    <3>2. f \in Seq(Units) /\ Len(f) = bytes_to_send
      <4>1. bytes_have_send - HeadLen \in Nat /\ bytes_to_send \in Nat
        BY <3>1, SizeAssumption DEF Data, MembersType
      <4>2. \A k, from, l \in Nat : /\ UnitsOf(k, "file", from, l) \in Seq(Units)
                                   /\ Len(UnitsOf(k, "file", from, l)) = l
        BY UnitsTyped
      <4> QED
        BY <1>5, <4>1, <4>2
    <3> HIDE DEF f
    <3>3. wire \o sndq \in Seq(Units) /\ Len(wire \o sndq) = m + n
      BY <1>5, <2>1, ConcatProperties
    <3>4. Len(wire \o sndq \o f) = (m + n) + Len(f)
      BY <3>2, <3>3, ConcatProperties
    <3> QED
      BY <2>1, <2>4, <3>1, <3>2, <3>4
  <2>5. bytes_to_send \in Nat /\ bytes_have_send \in Nat
    BY DEF Data, MembersType
  <2> QED
    BY <2>2, <2>3, <2>4, <2>5
<1>8. PICK k \in Nat : k = Len(answers)
  BY <1>5
<1>9. 2 * k <= sent
  BY <1>5, <1>6, <1>8 DEF Requested
<1>10. 2 * k < sent' => sndq = <<>>
  <2>1. CASE sent % 2 = 1
    <3>1. sent # 2 * k
      BY <1>8, <2>1
    <3> QED
      BY <1>5, <1>6, <1>8, <1>9, <3>1 DEF Requested
  <2>2. CASE Served
    BY <1>7, <2>2
  <2> QED
    BY <1>2, <2>1, <2>2
<1>11. Requested'
  <2>0. answers' = answers /\ sndq' = sndq
    BY <1>1 DEF history
  <2>1. CASE Between
    <3>1. sent = 2 * k + m_read_index + rcvq /\ sent <= 2 * k + 2
      BY <1>6, <1>8, <2>1 DEF Requested
    <3>2. sent # 2 * k + 2
      BY <1>2, <1>5, <1>8 DEF Served
    <3>3. sent' = 2 * k + m_read_index + rcvq' /\ sent' <= 2 * k + 2
      BY <1>1, <1>5, <3>1, <3>2
    <3> QED
      BY <1>3, <1>8, <1>10, <2>0, <2>1, <3>3 DEF Requested, Between
  <2>2. CASE ~Between
    <3>1. sent = 2 * k + rcvq /\ rcvq <= 2 /\ (rcvq > 0 => m_linger /\ bytes_to_send = 0)
      BY <1>6, <1>8, <2>2 DEF Requested
    <3>2. CASE sent % 2 = 1
      <4>1. rcvq = 1
        BY <1>5, <3>1, <3>2
      <4> QED
        BY <1>1, <1>3, <1>8, <1>10, <2>0, <2>2, <3>1, <4>1 DEF Requested, Between
    <3>3. CASE Served /\ Kept
      <4>1. rcvq = 0
        BY <1>5, <1>8, <3>1, <3>3 DEF Served
      <4>2. m_linger
        BY <1>6, <2>2, <3>3 DEF Written, Kept, Last
      <4> QED
        BY <1>1, <1>3, <1>7, <1>8, <1>10, <2>0, <2>2, <3>1, <3>3, <4>1, <4>2 DEF Requested, Between
    <3> QED
      BY <1>2, <3>2, <3>3
  <2> QED
    BY <2>1, <2>2
<1>12. Written'
  BY <1>1, <1>3, <1>6 DEF Written, Between, Last, FileUnits, history
<1>13. MembersType'
  BY <1>1, <1>3 DEF Data, MembersType, history
<1>14. Final'
  <2> SUFFICES ASSUME At({"close"}) \/ (At({"tail"}) /\ ~m_linger), Enabled
               PROVE  FALSE
    BY <1>1, <1>3 DEF Final, Enabled
  <2>1. rcvq = 0 /\ ~m_linger /\ ~Between
    BY DEF Final, Between
  <2>2. sent = 2 * k /\ ~Kept
    BY <1>5, <1>6, <1>8, <2>1 DEF Requested, Written, Kept, Last
  <2> QED
    BY <1>2, <1>8, <2>2
<1> QED
  BY <1>4, <1>11, <1>12, <1>13, <1>14 DEF SlotInv, Data

LEMMA PeerClosesSlot ==
  ASSUME Steady, PeerCloses
  PROVE  SlotInv'
<1> USE SteadyMeans
<1>1. UNCHANGED <<isopen, armed, rcvq, sent, sndq, wire, slotVars, events, tasks, wpc, history>>
  BY DEF PeerCloses
<1>2. /\ \A S : At(S)' <=> At(S)
      /\ UNCHANGED <<m_sockfd, m_read_index, m_linger, m_iv, bytes_to_send, bytes_have_send>>
  BY <1>1 DEF At, slotVars
<1>3. Located' /\ Final'
  BY <1>1, <1>2 DEF Located, Final, Between, Enabled
<1>4. MembersType'
  BY <1>1, <1>2 DEF Data, MembersType, history
<1>5. isopen' => Requested' /\ Written'
  BY <1>1, <1>2 DEF Data, Requested, Written, Between, Last, FileUnits, history
<1> QED
  BY <1>3, <1>4, <1>5 DEF SlotInv, Data

LEMMA DeliverSlot ==
  ASSUME Steady, Deliver
  PROVE  SlotInv'
<1> USE SteadyMeans
<1>1. /\ sndq # <<>> /\ wire' = Append(wire, Head(sndq)) /\ sndq' = Tail(sndq)
      /\ UNCHANGED <<isopen, armed, rcvq, sent, slotVars, events, tasks, wpc, history>>
  BY DEF Deliver
<1>2. /\ \A S : At(S)' <=> At(S)
      /\ UNCHANGED <<m_sockfd, m_read_index, m_linger, m_iv, bytes_to_send, bytes_have_send>>
  BY <1>1 DEF At, slotVars
<1>3. Located' /\ Final'
  BY <1>1, <1>2 DEF Located, Final, Between, Enabled
<1>4. wire \in Seq(Units) /\ sndq \in Seq(Units)
  BY DEF Data, MembersType
<1>5. wire' \in Seq(Units) /\ sndq' \in Seq(Units) /\ wire' \o sndq' = wire \o sndq
  BY <1>1, <1>4, FirstMoves
<1>6. MembersType'
  BY <1>1, <1>2, <1>5 DEF Data, MembersType, history
<1>7. ASSUME isopen' PROVE Requested' /\ Written'
  <2>1. Requested /\ Written
    BY <1>1, <1>7 DEF Data
  <2>2. Requested'
    BY <1>1, <1>2, <2>1 DEF Requested, Between, history
  <2>3. ~(bytes_to_send > 0 /\ bytes_have_send = 0)
    BY <1>1, <2>1 DEF Written
  <2>4. Written'
    BY <1>1, <1>2, <1>5, <2>1, <2>3 DEF Written, Between, Last, FileUnits, history
  <2> QED
    BY <2>2, <2>4
<1> QED
  BY <1>3, <1>6, <1>7 DEF SlotInv, Data

-----------------------------------------------------------------------------
\* Every step that does not clash keeps the slot and the stream in order.
LEMMA NextSlot == HttpInv /\ [Next]_vars => HttpInv'
<1> SUFFICES ASSUME HttpInv, [Next]_vars PROVE HttpInv'
  OBVIOUS
<1>1. UserInv'
  BY NextType, NextUser DEF HttpInv, UserInv
<1>2. ASSUME ~clash' PROVE SlotInv'
  <2>1. CASE UNCHANGED vars
    <3>1. Steady
      BY <1>2, <2>1 DEF Steady, vars
    <3>2. UNCHANGED <<isopen, armed, peerVars, slotVars, events, tasks, wpc, history>>
      BY <2>1 DEF vars
    <3>3. /\ \A S : At(S)' <=> At(S)
          /\ UNCHANGED <<m_sockfd, m_read_index, m_linger, bytes_to_send, bytes_have_send, rcvq>>
      BY <3>2 DEF At, slotVars, peerVars
    <3>4. Located' /\ Final'
      BY <3>1, <3>2, <3>3, SteadyMeans DEF Located, Final, Between, Enabled
    <3> QED
      BY <3>1, <3>2, <3>4, SteadyMeans, DataKept DEF SlotInv
  <2>2. CASE Next
    <3>1. ~clash
      BY <2>2 DEF Next, EpollThread, Accept, EpollWait, DispatchClose, DispatchTask, Worker,
         TakeTask, HandleRead, Recv, AwaitMore, PrepareNothing, Prepare, HandleWrite,
         Writev, WouldBlock, WriteFails, ResponseSent, Finish, Modfd, CloseConn,
         ClearSlot, PeerSends, PeerCloses, Deliver
    <3>2. Steady
      BY <3>1 DEF Steady
    <3>3. CASE EpollThread \/ PeerSends \/ PeerCloses \/ Deliver
      BY <1>2, <3>2, <3>3, AcceptSlot, EpollWaitSlot, DispatchCloseSlot, DispatchTaskSlot,
         PeerSendsSlot, PeerClosesSlot, DeliverSlot DEF EpollThread
    <3>4. ASSUME NEW w \in Workers, Worker(w) PROVE SlotInv'
      BY <1>2, <3>2, <3>4, TakeTaskSlot, RecvSlot, ReadPlainSlot, PrepareSlot, WritevSlot,
         WritePlainSlot, ResponseSentSlot, FinishSlot, ModfdSlot, CloseSlot
      DEF Worker, HandleRead, HandleWrite
    <3> QED
      BY <2>2, <3>3, <3>4 DEF Next
  <2> QED
    BY <2>1, <2>2
<1> QED
  BY <1>1, <1>2 DEF HttpInv

LEMMA HttpInvariance == Spec => []HttpInv
<1>1. Init => HttpInv
  BY InitUser, InitSlot DEF HttpInv
<1> QED
  BY <1>1, NextSlot, PTL DEF Spec

\* For responses, files and send buffers of every size: until the first clash
\* the peer of an open connection gets the responses whole, in order and none
\* before its request (http_conn::process_write, write with its two iovecs,
\* unmap and init).
THEOREM ResponsesStayInOrder == Spec => []ResponsesInOrder
<1>1. ASSUME HttpInv, isopen, ~clash
      PROVE  wire \o sndq \o Gathered(bytes_to_send) = due /\ 2 * Len(answers) <= sent
  <2>1. TypeOK /\ MembersType /\ Requested /\ Written
    BY <1>1 DEF HttpInv, UserInv, SlotInv, Data
  <2> DEFINE k == Len(answers)
             n == bytes_to_send
  <2>2. /\ n \in Nat /\ bytes_have_send \in Nat /\ k \in Nat /\ HeadLen \in Nat \ {0}
        /\ FileUnits \in Nat /\ rcvq \in Nat /\ m_read_index \in Nat
        /\ m_iv.head[2] \in Nat /\ m_iv.head[1] \in Nat /\ m_iv.file[1] \in Nat
        /\ wire \in Seq(Units) /\ sndq \in Seq(Units)
    BY <2>1, SizeAssumption DEF TypeOK, MembersType, FileUnits
  <2>3. 2 * k <= sent
    BY <2>1, <2>2 DEF Requested
  <2>4. CASE n = 0
    <3>1. FromHead(n) = 0 /\ n - 0 = 0
      BY <2>2, <2>4 DEF FromHead, LeastOf
    <3>2. Gathered(n) = <<>>
      <4>1. /\ UnitsOf(k, "head", m_iv.head[1], 0) = <<>>
            /\ UnitsOf(k, "file", m_iv.file[1], 0) = <<>>
        <5>1. \A from \in Nat : /\ UnitsOf(k, "head", from, 0) = <<>>
                               /\ UnitsOf(k, "file", from, 0) = <<>>
          BY <2>2, UnitsTyped
        <5> QED
          BY <2>2, <5>1
      <4> QED
        BY <2>4, <3>1, <4>1 DEF Gathered
    <3>3. wire \o sndq \in Seq(Units)
      BY <2>2, ConcatProperties
    <3> QED
      BY <2>1, <2>3, <2>4, <3>2, <3>3, ConcatEmptySeq DEF Written
  <2>5. CASE n > 0 /\ bytes_have_send = 0
    <3>1. /\ sndq = <<>> /\ m_iv = [head |-> <<0, HeadLen>>, file |-> <<0, FileUnits>>]
          /\ wire \o Response(k, Last.kind) = due /\ n = HeadLen + FileUnits
      BY <2>1, <2>2, <2>5 DEF Written, Between
    <3>2. FromHead(n) = HeadLen /\ n - HeadLen = FileUnits
      BY <2>2, <3>1 DEF FromHead, LeastOf
    <3>3. Gathered(n) = UnitsOf(k, "head", 0, HeadLen) \o UnitsOf(k, "file", 0, FileUnits)
      BY <3>1, <3>2 DEF Gathered
    <3>4. Gathered(n) = Response(k, Last.kind)
      <4>1. CASE Last.kind = "file"
        BY <3>3, <4>1 DEF Response, FileUnits
      <4>2. CASE Last.kind # "file"
        BY <2>2, <3>3, <4>2, UnitsTyped DEF Response, FileUnits
      <4> QED
        BY <4>1, <4>2
    <3>5. wire \o sndq = wire
      BY <2>2, <3>1, ConcatEmptySeq
    <3> QED
      BY <2>3, <3>1, <3>4, <3>5
  <2>6. CASE n > 0 /\ bytes_have_send > 0
    <3> DEFINE from == bytes_have_send - HeadLen
    <3>1. /\ m_iv = [head |-> <<0, 0>>, file |-> <<from, n>>] /\ from \in Nat
          /\ wire \o sndq \o UnitsOf(k, "file", from, n) = due
      BY <2>1, <2>2, <2>6 DEF Written
    <3> HIDE DEF from
    <3>2. FromHead(n) = 0 /\ n - 0 = n
      BY <2>2, <3>1 DEF FromHead, LeastOf
    <3>3. Gathered(n) = UnitsOf(k, "head", 0, 0) \o UnitsOf(k, "file", from, n)
      BY <3>1, <3>2 DEF Gathered
    <3>4. UnitsOf(k, "head", 0, 0) = <<>> /\ UnitsOf(k, "file", from, n) \in Seq(Units)
      BY <2>2, <3>1, UnitsTyped
    <3>5. Gathered(n) = UnitsOf(k, "file", from, n)
      BY <3>3, <3>4, ConcatEmptySeq
    <3> QED
      BY <2>3, <3>1, <3>5
  <2> QED
    BY <2>2, <2>4, <2>5, <2>6
<1>2. HttpInv => ResponsesInOrder
  BY <1>1 DEF ResponsesInOrder
<1> QED
  BY <1>2, HttpInvariance, PTL

\* For any number of workers, connections and requests: the first clash needs a
\* worker that is leaving, or a connection accepted into the slot while an event
\* of the previous one is on its way (main's EPOLLONESHOT, modfd and
\* reset_oneshot; close_conn).
THEOREM ClashesAtTheEnd == Spec => ClashOnlyAtTheEnd
<1>1. ASSUME HttpInv, [Next]_vars
      PROVE  [clash' => (\E w \in Workers : Leaving(w)) \/ (Accept /\ OnItsWay)]_vars
  <2> SUFFICES ASSUME Next, clash'
               PROVE  (\E w \in Workers : Leaving(w)) \/ (Accept /\ OnItsWay)
    BY <1>1
  <2>1. ~clash
    BY DEF Next, EpollThread, Accept, EpollWait, DispatchClose, DispatchTask, Worker,
       TakeTask, HandleRead, Recv, AwaitMore, PrepareNothing, Prepare, HandleWrite,
       Writev, WouldBlock, WriteFails, ResponseSent, Finish, Modfd, CloseConn,
       ClearSlot, PeerSends, PeerCloses, Deliver
  <2>2. TypeOK /\ Exclusive /\ Located
    BY <1>1, <2>1, SteadyMeans DEF Steady
  <2>3. Accept \/ (InUse /\ OnItsWay)
    BY <2>1 DEF Next, EpollThread, EpollWait, DispatchClose, DispatchTask, Worker,
       TakeTask, HandleRead, Recv, AwaitMore, PrepareNothing, Prepare, HandleWrite,
       Writev, WouldBlock, WriteFails, ResponseSent, Finish, Modfd, CloseConn,
       ClearSlot, PeerSends, PeerCloses, Deliver, OnItsWay
  <2>4. CASE InUse /\ OnItsWay
    BY <2>2, <2>4 DEF Exclusive, InUse, Inside
  <2>5. CASE Accept /\ InUse
    <3>1. PICK w \in Workers : wpc[w] # "idle"
      BY <2>5 DEF InUse
    <3>2. ~isopen
      BY <2>5 DEF Accept
    <3>3. wpc[w] \notin {"read", "process", "armin", "armout", "write", "sent", "tail"}
      BY <2>2, <3>2 DEF Located, At
    <3> QED
      BY <2>2, <3>1, <3>3 DEF TypeOK, Leaving
  <2> QED
    BY <2>3, <2>4, <2>5 DEF Accept
<1> QED
  BY <1>1, HttpInvariance, PTL DEF Spec, ClashOnlyAtTheEnd

-----------------------------------------------------------------------------
(* What the server owes.                                                   *)

\* A whole request that was read is about to be answered.
Unread == isopen /\ Between /\ m_read_index >= 2 => At({"read", "process", "close"})

AnswerInv == HttpInv /\ (~clash => Unread)

\* Where the epoll thread and the peer change nothing of the slot.
LEMMA OutsideUnread ==
  ASSUME Unread, isopen' => isopen, UNCHANGED <<slotVars, wpc>>
  PROVE  Unread'
BY DEF Unread, At, Between, slotVars

LEMMA EpollUnread ==
  ASSUME AnswerInv, ~clash, EpollThread, ~clash' PROVE Unread'
<1>1. CASE Accept
  <2>1. ~InUse
    BY <1>1 DEF Accept
  <2>2. ~At({"close", "closing"})
    BY <2>1 DEF At, InUse
  <2>3. ~m_sockfd
    BY <1>1, <2>2 DEF Accept, AnswerInv, HttpInv, SlotInv, Located
  <2>4. m_read_index' = 0
    BY <1>1, <2>3 DEF Accept, AnswerInv, HttpInv, SlotInv, Located
  <2> QED
    BY <2>4 DEF Unread
<1>2. CASE EpollWait \/ DispatchTask
  BY <1>2, OutsideUnread DEF EpollWait, DispatchTask, AnswerInv
<1>3. CASE DispatchClose
  <2>1. CASE m_sockfd
    BY <1>3, <2>1 DEF DispatchClose, RemoveFd, Unread
  <2>2. CASE ~m_sockfd
    BY <1>3, <2>2, OutsideUnread DEF DispatchClose, AnswerInv
  <2> QED
    BY <2>1, <2>2
<1> QED
  BY <1>1, <1>2, <1>3 DEF EpollThread

LEMMA TakeTaskUnread ==
  ASSUME AnswerInv, ~clash, NEW w \in Workers, TakeTask(w) PROVE Unread'
<1>1. wpc[w] = "idle" /\ \A v \in Workers : v # w => wpc'[v] = wpc[v]
  BY DEF TakeTask, Goto, AnswerInv, HttpInv, UserInv, TypeOK
<1>2. At({"read", "process", "close"}) => At({"read", "process", "close"})'
  BY <1>1 DEF At
<1> QED
  BY <1>2 DEF TakeTask, slotVars, AnswerInv, Unread, Between

\* handle_read: what makes the request whole is followed by process, and what
\* leaves process without a response has less than a whole one.
LEMMA HandleReadUnread ==
  ASSUME AnswerInv, ~clash, NEW w \in Workers, HandleRead(w) PROVE Unread'
<1>1. /\ TypeOK /\ Exclusive /\ MembersType
      /\ m_read_index \in Nat /\ Inside(w) /\ HeadLen \in Nat \ {0} /\ FileLen \in Nat
  BY SizeAssumption DEF AnswerInv, HttpInv, UserInv, SlotInv, Data, TypeOK, HandleRead, Recv,
     AwaitMore, PrepareNothing, Prepare, Inside
<1>2. CASE Recv(w)
  <2>1. wpc'[w] \in {"read", "process", "close"}
    BY <1>1, <1>2 DEF Recv, Goto, TypeOK
  <2> QED
    BY <2>1 DEF Unread, At
<1>3. CASE AwaitMore(w)
  <2>1. m_read_index' < 2 /\ m_read_index' \in Nat
    BY <1>1, <1>3 DEF AwaitMore, Complete, slotVars
  <2> QED
    BY <2>1 DEF Unread
<1>4. CASE \E kind \in {"file", "error"} : Prepare(w, kind)
  <2>1. bytes_to_send' # 0
    BY <1>1, <1>4 DEF Prepare
  <2> QED
    BY <2>1 DEF Unread, Between
<1>5. CASE PrepareNothing(w)
  <2>1. wpc'[w] = "close"
    BY <1>1, <1>5 DEF PrepareNothing, Goto, TypeOK
  <2> QED
    BY <2>1 DEF Unread, At
<1> QED
  BY <1>2, <1>3, <1>4, <1>5 DEF HandleRead

\* handle_write: the response is under way until init() starts over.
LEMMA HandleWriteUnread ==
  ASSUME AnswerInv, ~clash, NEW w \in Workers, HandleWrite(w) PROVE Unread'
<1>1. /\ TypeOK /\ Located /\ MembersType
      /\ bytes_to_send \in Nat /\ bytes_have_send \in Nat
  BY DEF AnswerInv, HttpInv, UserInv, SlotInv, Data, MembersType
<1>2. wpc[w] = "write" => bytes_to_send > 0
  BY <1>1 DEF Located, At
<1>3. wpc[w] = "sent" => bytes_have_send > 0
  BY <1>1 DEF Located, At
<1>4. CASE Writev(w)
  <2>1. Room \in Nat \ {0}
    <3>1. SndBuf \in Nat /\ Len(sndq) \in Nat
      BY <1>1, SizeAssumption DEF MembersType
    <3> QED
      BY <1>4, <3>1 DEF Writev, Room
  <2>2. bytes_have_send' # 0
    BY <1>1, <1>2, <1>4, <2>1 DEF Writev, LeastOf
  <2> QED
    BY <2>2 DEF Unread, Between
<1>5. CASE WouldBlock(w)
  <2>1. bytes_to_send' = bytes_to_send /\ bytes_to_send > 0
    BY <1>2, <1>5 DEF WouldBlock, slotVars
  <2> QED
    BY <1>1, <2>1 DEF Unread, Between
<1>6. CASE ResponseSent(w)
  <2>1. bytes_have_send' = bytes_have_send /\ bytes_have_send > 0
    BY <1>3, <1>6 DEF ResponseSent
  <2> QED
    BY <1>1, <2>1 DEF Unread, Between
<1>7. CASE WriteFails(w) \/ (Finish(w) /\ ~m_linger)
  <2>1. wpc'[w] = "close"
    BY <1>1, <1>7 DEF WriteFails, Finish, Goto, TypeOK
  <2> QED
    BY <2>1 DEF Unread, At
<1>8. CASE Finish(w) /\ m_linger
  BY <1>8 DEF Finish, Reset, Unread
<1> QED
  BY <1>4, <1>5, <1>6, <1>7, <1>8 DEF HandleWrite

LEMMA LeaveUnread ==
  ASSUME AnswerInv, ~clash, NEW w \in Workers, Modfd(w) \/ CloseConn(w) \/ ClearSlot(w)
  PROVE  Unread'
<1>1. TypeOK /\ Exclusive /\ Owned /\ Unread
  BY DEF AnswerInv, HttpInv, UserInv
<1>2. CASE Modfd(w)
  <2>1. \A v \in Workers : v # w => wpc[v] = "idle"
    BY <1>1, <1>2 DEF Modfd, Exclusive, Inside
  <2>2. ~At({"read", "process", "close"})
    BY <1>2, <2>1 DEF Modfd, At
  <2> QED
    BY <1>1, <1>2, <2>2 DEF Modfd, slotVars, Unread, Between
<1>3. CASE CloseConn(w)
  <2>1. ~isopen'
    BY <1>1, <1>3 DEF CloseConn, RemoveFd, Owned, TypeOK
  <2> QED
    BY <2>1 DEF Unread
<1>4. CASE ClearSlot(w)
  BY <1>4 DEF ClearSlot, Reset, Unread
<1> QED
  BY <1>2, <1>3, <1>4

LEMMA NextUnread == AnswerInv /\ [Next]_vars => AnswerInv'
<1> SUFFICES ASSUME AnswerInv, [Next]_vars PROVE AnswerInv'
  OBVIOUS
<1>1. HttpInv'
  BY NextSlot DEF AnswerInv
<1>2. ASSUME ~clash' PROVE Unread'
  <2>1. CASE UNCHANGED vars
    BY <1>2, <2>1, OutsideUnread DEF vars, AnswerInv
  <2>2. CASE Next
    <3>1. ~clash
      BY <2>2 DEF Next, EpollThread, Accept, EpollWait, DispatchClose, DispatchTask, Worker,
         TakeTask, HandleRead, Recv, AwaitMore, PrepareNothing, Prepare, HandleWrite,
         Writev, WouldBlock, WriteFails, ResponseSent, Finish, Modfd, CloseConn,
         ClearSlot, PeerSends, PeerCloses, Deliver
    <3>2. CASE EpollThread
      BY <1>2, <3>1, <3>2, EpollUnread
    <3>3. CASE PeerSends \/ PeerCloses \/ Deliver
      BY <3>1, <3>3, OutsideUnread DEF PeerSends, PeerCloses, Deliver, AnswerInv
    <3>4. ASSUME NEW w \in Workers, Worker(w) PROVE Unread'
      BY <3>1, <3>4, TakeTaskUnread, HandleReadUnread, HandleWriteUnread, LeaveUnread DEF Worker
    <3> QED
      BY <2>2, <3>2, <3>3, <3>4 DEF Next
  <2> QED
    BY <2>1, <2>2
<1> QED
  BY <1>1, <1>2 DEF AnswerInv

\* http_conn::process, write, modfd and reset_oneshot, and the loop of main: the
\* peer of an open connection that has sent whole requests has the whole of
\* their responses, or a thread is at work or was told to be, or epoll has
\* something to report for which the descriptor is enabled, or the kernel has
\* something to deliver.  The server never waits for a peer that waits for it;
\* with fairness this is what makes RequestAnswered true.
AnswerIsPending ==
  isopen /\ ~clash /\ sent % 2 = 0 /\ ~Served =>
    InUse \/ OnItsWay \/ Ready # {} \/ sndq # <<>>

THEOREM AnswersArePending == Spec => []AnswerIsPending
<1>1. ASSUME AnswerInv, isopen, ~clash, sent % 2 = 0, ~InUse, ~OnItsWay, Ready = {}, sndq = <<>>
      PROVE  Served
  <2>1. /\ TypeOK /\ Exclusive /\ Located /\ MembersType /\ Requested /\ Written /\ Unread
    BY <1>1 DEF AnswerInv, HttpInv, UserInv, SlotInv, Data
  <2>2. \A S : "idle" \notin S => ~At(S)
    BY <1>1, Nobody DEF InUse
  <2>3. rcvq \in Nat /\ sent \in Nat /\ m_read_index \in Nat /\ Len(answers) \in Nat
        /\ wire \in Seq(Units)
    BY <2>1 DEF TypeOK, MembersType
  <2>4. armed = "in"
    <3>1. Enabled
      BY <1>1, <2>1 DEF Exclusive
    <3>2. armed # "out"
      <4>1. Len(sndq) < SndBuf
        BY <1>1, SizeAssumption
      <4> QED
        BY <1>1, <4>1 DEF Ready
    <3> QED
      BY <3>1, <3>2 DEF Enabled
  <2>5. rcvq = 0
    BY <1>1, <2>3, <2>4 DEF Ready
  <2>6. Between /\ m_read_index < 2
    <3>1. Between
      BY <2>1, <2>2, <2>4 DEF Located
    <3>2. ~At({"read", "process", "close"})
      BY <2>2
    <3> QED
      BY <1>1, <2>1, <2>3, <3>1, <3>2 DEF Unread
  <2>7. wire = due
    <3>1. wire \o <<>> = wire
      BY <2>3
    <3> QED
      BY <1>1, <2>1, <2>6, <3>1 DEF Written, Between
  <2>8. sent = 2 * Len(answers) + m_read_index
    BY <2>1, <2>3, <2>5, <2>6 DEF Requested
  <2>9. sent = 2 * Len(answers)
    <3> DEFINE k == Len(answers)
    <3>1. k \in Nat /\ m_read_index \in {0, 1} /\ sent = 2 * k + m_read_index
      BY <2>3, <2>6, <2>8
    <3> HIDE DEF k
    <3>2. (2 * k + 1) % 2 = 1
      BY <3>1
    <3> QED
      BY <1>1, <3>1, <3>2 DEF k
  <2> QED
    BY <2>7, <2>9 DEF Served
<1>2. AnswerInv => AnswerIsPending
  BY <1>1 DEF AnswerIsPending
<1>3. Init => AnswerInv
  BY InitUser, InitSlot DEF Init, AnswerInv, HttpInv, Unread
<1> QED
  BY <1>2, <1>3, NextUnread, PTL DEF Spec
=============================================================================
