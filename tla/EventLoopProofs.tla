-------------------------- MODULE EventLoopProofs --------------------------
(***************************************************************************)
(* Proofs about modules EventLoop and EventLoopThread for any set of       *)
(* threads and functors: the loop never sleeps on work, it is an ordered   *)
(* executor, both also when it runs in an EventLoopThread, and loop_ never *)
(* names a loop that is gone; startLoop misses no notification.            *)
(***************************************************************************)
EXTENDS EventLoopThread, SequenceTheorems, TLAPS

-----------------------------------------------------------------------------
(* Lemmas about the callbacks' effects.                                    *)

\* Whatever a callback does keeps the types of the variables it changes.
LEMMA CallbackTypes ==
  ASSUME TypeOK, NEW done \in Seq(Functors), CallbackBody(done)
  PROVE  /\ pending' \in Seq(Functors)
         /\ evt' \in Nat
         /\ evt' >= evt
         /\ quit' \in BOOLEAN
         /\ ran' \in Seq(Functors)
<1>1. ran \o done \in Seq(Functors)
  BY DEF TypeOK
<1>2. CASE ran' = ran \o done /\ UNCHANGED <<pending, evt, quit>>
  BY <1>1, <1>2 DEF TypeOK
<1>3. CASE \E g \in Fresh : QueueInLoop(g, done) \/ RunInLoop(g, done)
  <2>1. PICK g \in Functors : QueueInLoop(g, done) \/ RunInLoop(g, done)
    BY <1>3 DEF Fresh
  <2>2. CASE QueueInLoop(g, done)
    BY <1>1, <2>2 DEF QueueInLoop, TypeOK
  <2>3. CASE RunInLoop(g, done)
    <3>1. ran' = (ran \o done) \o <<g>>
      BY <2>3, <1>1 DEF RunInLoop
    <3>2. ran' \in Seq(Functors)
      BY <3>1, <1>1
    <3> QED
      BY <2>3, <3>2 DEF RunInLoop, TypeOK
  <2> QED
    BY <2>1, <2>2, <2>3
<1>4. CASE QuitInLoop(done)
  BY <1>1, <1>4 DEF QuitInLoop, TypeOK
<1> QED
  BY <1>2, <1>3, <1>4 DEF CallbackBody

\* A functor queued while doPendingFunctors runs comes with an eventfd write.
LEMMA CallbackWakes ==
  ASSUME TypeOK, calling, NEW done \in Seq(Functors), CallbackBody(done)
  PROVE  pending' = pending \/ evt' > 0
<1>1. CASE pending' = pending
  BY <1>1
<1>2. CASE \E g \in Fresh : QueueInLoop(g, done)
  BY <1>2 DEF QueueInLoop, InLoopWakeup, TypeOK
<1> QED
  BY <1>1, <1>2 DEF CallbackBody, RunInLoop, QuitInLoop

-----------------------------------------------------------------------------
(* The invariant of one iteration.                                         *)

LEMMA InitLoopInv == Init => LoopInv
<1> SUFFICES ASSUME Init PROVE LoopInv
  OBVIOUS
<1>1. quit \in BOOLEAN /\ calling \in BOOLEAN
  BY DEF Init
<1>2. TypeOK
  BY <1>1 DEF Init, TypeOK
<1>3. calling = (pc = "run")
  BY DEF Init
<1>4. active = {} /\ functors = <<>>
  BY DEF Init
<1> QED
  BY <1>2, <1>3, <1>4 DEF LoopInv, Init

LEMMA NextLoopInv ==
  ASSUME LoopInv, [Next]_vars
  PROVE  LoopInv'
<1> USE DEF LoopInv, TypeOK
<1>1. CASE StartLoop
  <2>1. quit' \in BOOLEAN /\ calling' \in BOOLEAN /\ calling' = (pc' = "run")
    BY <1>1 DEF StartLoop
  <2> QED
    BY <1>1, <2>1 DEF StartLoop
<1>2. CASE CheckQuit
  BY <1>2 DEF CheckQuit
<1>3. CASE PollReady
  BY <1>3 DEF PollReady
<1>4. CASE PollTimeout
  BY <1>4 DEF PollTimeout
<1>5. CASE HandleRead
  BY <1>5 DEF HandleRead
<1>6. CASE HandleIO
  <2>1. <<>> \in Seq(Functors)
    OBVIOUS
  <2>2. CallbackBody(<<>>) /\ pc = "handle" /\ pc' = "handle"
    BY <1>6 DEF HandleIO
  <2> QED
    BY <1>6, <2>1, <2>2, CallbackTypes DEF HandleIO
<1>7. CASE StartFunctors
  BY <1>7 DEF StartFunctors, SwapPending
<1>8. CASE RunFunctor
  <2>1. <<Head(functors)>> \in Seq(Functors) /\ functors' \in Seq(Functors)
    BY <1>8 DEF RunFunctor
  <2>2. CallbackBody(<<Head(functors)>>) /\ pc = "run" /\ pc' = "run"
    BY <1>8 DEF RunFunctor
  <2> QED
    BY <1>8, <2>1, <2>2, CallbackTypes DEF RunFunctor
<1>9. CASE EndFunctors
  <2>1. quit' \in BOOLEAN /\ calling' \in BOOLEAN /\ calling' = (pc' = "run")
    BY <1>9 DEF EndFunctors
  <2> QED
    BY <1>9, <2>1 DEF EndFunctors
<1>11. ASSUME NEW t \in Threads, NEW f \in Functors, QueueFromOther(t, f)
       PROVE  LoopInv'
  BY <1>11 DEF QueueFromOther
<1>12. ASSUME NEW t \in Threads, QuitFromOther(t)
       PROVE  LoopInv'
  BY <1>12 DEF QuitFromOther
<1>13. ASSUME NEW t \in Threads, Wakeup(t)
       PROVE  LoopInv'
  BY <1>13 DEF Wakeup
<1>14. CASE UNCHANGED vars
  BY <1>14 DEF vars
<1>15. CASE QueueEarly
  <2>1. <<>> \in Seq(Functors) /\ pc = "constructed"
    BY <1>15 DEF QueueEarly
  <2>2. CallbackBody(<<>>)
    BY <1>15 DEF QueueEarly, CallbackBody
  <2>3. ran' = ran \o <<>> /\ ran = <<>>
    BY <1>15, <2>1 DEF QueueEarly, QueueInLoop
  <2>4. ran' = <<>>
    BY <2>3
  <2> QED
    BY <1>15, <2>1, <2>2, <2>4, CallbackTypes DEF QueueEarly
<1> QED
  BY <1>1, <1>2, <1>3, <1>4, <1>5, <1>6, <1>7, <1>8, <1>9, <1>11,
     <1>12, <1>13, <1>14, <1>15 DEF Next, LoopStep

\* Types, and the bookkeeping of an iteration.
THEOREM LoopInvariance == Spec => []LoopInv
BY InitLoopInv, NextLoopInv, PTL DEF Spec

-----------------------------------------------------------------------------
(* Wakeups.                                                                *)

\* Nothing that leaves the queue, the flag and the thread alone, and does not
\* read the eventfd, takes a due wakeup away.
LEMMA WakeupStaysDue ==
  ASSUME WakeupDue, evt \in Nat, evt' \in Nat, evt' >= evt, UNCHANGED tpc
  PROVE  WakeupDue'
BY DEF WakeupDue

LEMMA NextWakeupInv ==
  ASSUME WakeupInv, [Next]_vars
  PROVE  WakeupInv'
<1> USE DEF WakeupInv
<1>0. LoopInv /\ LoopInv'
  BY NextLoopInv
<1>1. CASE StartLoop \/ EndFunctors
  <2>1. UNCHANGED <<pending, evt, tpc>> /\ pc' = "check"
    BY <1>1 DEF StartLoop, EndFunctors
  <2>2. pc \in {"constructed", "run"} /\ UNCHANGED ran
    BY <1>1 DEF StartLoop, EndFunctors
  <2> QED
    BY <1>0, <2>1, <2>2 DEF WakeupDue, EarlyWaits
<1>2. CASE CheckQuit
  BY <1>0, <1>2 DEF CheckQuit, WakeupDue, EarlyWaits
<1>3. CASE PollReady \/ PollTimeout
  BY <1>0, <1>3 DEF PollReady, PollTimeout
<1>4. CASE HandleRead \/ HandleIO
  BY <1>0, <1>4 DEF HandleRead, HandleIO
<1>5. CASE StartFunctors
  BY <1>0, <1>5 DEF StartFunctors, SwapPending
<1>6. CASE RunFunctor
  <2>1. TypeOK /\ calling
    BY <1>0, <1>6 DEF RunFunctor, LoopInv
  <2>2. <<Head(functors)>> \in Seq(Functors)
    BY <1>6, <2>1 DEF RunFunctor, TypeOK
  <2>3. CallbackBody(<<Head(functors)>>) /\ UNCHANGED tpc /\ pc = "run" /\ pc' = "run"
    BY <1>6 DEF RunFunctor
  <2>4. evt \in Nat /\ evt' \in Nat /\ evt' >= evt
    BY <2>1, <2>2, <2>3, CallbackTypes DEF TypeOK
  <2>5. CASE evt' > 0
    BY <1>0, <2>3, <2>5 DEF WakeupDue
  <2>6. CASE pending' = pending
    BY <1>0, <2>3, <2>4, <2>6, WakeupStaysDue
  <2> QED
    BY <2>1, <2>2, <2>3, <2>5, <2>6, CallbackWakes
<1>8. ASSUME NEW t \in Threads, (\E f \in Functors : QueueFromOther(t, f)) \/ QuitFromOther(t)
      PROVE  WakeupInv'
  <2>1. tpc'[t] = "wakeup"
    BY <1>0, <1>8 DEF QueueFromOther, QuitFromOther, LoopInv, TypeOK
  <2> QED
    BY <1>0, <2>1 DEF WakeupDue
<1>9. ASSUME NEW t \in Threads, Wakeup(t)
      PROVE  WakeupInv'
  <2>1. evt' > 0
    BY <1>0, <1>9 DEF Wakeup, LoopInv, TypeOK
  <2> QED
    BY <1>0, <2>1 DEF WakeupDue
<1>10. CASE UNCHANGED vars
  BY <1>0, <1>10 DEF vars, WakeupDue, EarlyWaits
<1>11. CASE QueueEarly
  <2>1. PICK g \in Early : QueueInLoop(g, <<>>)
    BY <1>11 DEF QueueEarly
  <2>2. pending' = Append(pending, g) /\ pending \in Seq(Functors)
    BY <1>0, <2>1 DEF QueueInLoop, LoopInv, TypeOK
  <2>3. Len(pending) + 1 \in DOMAIN pending' /\ pending'[Len(pending) + 1] = g
    BY <2>2
  <2>4. pc' = "constructed"
    BY <1>11 DEF QueueEarly
  <2>5. ran' = <<>>
    BY <1>0, <2>4 DEF LoopInv
  <2>6. EarlyWaits'
    BY <2>3, <2>5 DEF EarlyWaits
  <2> QED
    BY <1>0, <2>4, <2>6
<1> QED
  BY <1>1, <1>2, <1>3, <1>4, <1>5, <1>6, <1>8, <1>9, <1>10, <1>11 DEF Next, LoopStep

\* A wakeup is due whenever the loop sleeps on a queued functor or on a
\* quit(), and already before: from the swap in doPendingFunctors on.  The
\* functors its thread queued before loop() are the one exception.
THEOREM WakeupInvariance == Spec => []WakeupInv
<1>1. Init => WakeupInv
  BY InitLoopInv DEF WakeupInv, Init
<1> QED
  BY <1>1, NextWakeupInv, PTL DEF Spec

\* The wakeups of queueInLoop and quit are never lost (EventLoop.cpp,
\* queueInLoop, quit and doPendingFunctors).
THEOREM NeverSleepsOnWork == Spec => []NoLostWakeup
<1>1. WakeupInv => NoLostWakeup
  BY DEF WakeupInv, NoLostWakeup
<1> QED
  BY <1>1, WakeupInvariance, PTL

-----------------------------------------------------------------------------
(* The loop is an ordered executor.                                        *)

LEMMA ElementsConcat ==
  ASSUME NEW S, NEW s \in Seq(S), NEW t \in Seq(S)
  PROVE  Elements(s \o t) = Elements(s) \cup Elements(t)
<1> DEFINE u == s \o t
<1>1. /\ DOMAIN s = 1 .. Len(s) /\ Len(s) \in Nat
      /\ DOMAIN t = 1 .. Len(t) /\ Len(t) \in Nat
      /\ DOMAIN u = 1 .. Len(s) + Len(t)
  OBVIOUS
<1>2. \A i \in DOMAIN u : u[i] = IF i <= Len(s) THEN s[i] ELSE t[i - Len(s)]
  BY <1>1
<1>3. ASSUME NEW x \in Elements(u) PROVE x \in Elements(s) \cup Elements(t)
  BY <1>1, <1>2 DEF Elements
<1>4. ASSUME NEW i \in DOMAIN s PROVE s[i] \in Elements(u)
  BY <1>1, <1>2 DEF Elements
<1>5. ASSUME NEW i \in DOMAIN t PROVE t[i] \in Elements(u)
  <2>1. Len(s) + i \in DOMAIN u /\ u[Len(s) + i] = t[i]
    BY <1>1, <1>2
  <2> QED
    BY <2>1 DEF Elements
<1> QED
  BY <1>3, <1>4, <1>5 DEF Elements

\* The two modules agree on which functors are still to be handed over.
LEMMA SameFresh ==
  ASSUME TypeOK
  PROVE  Exec!Fresh = Fresh
<1>1. functors \in Seq(Functors) /\ pending \in Seq(Functors)
  BY DEF TypeOK
<1>2. Elements(functors \o pending) = Elements(functors) \cup Elements(pending)
  BY <1>1, ElementsConcat
<1> QED
  BY <1>2 DEF Exec!Fresh, Fresh, Exec!Elements, Elements

\* A callback in the handling phase hands over or runs at most one functor.
LEMMA HandlerStep ==
  ASSUME LoopInv, CallbackBody(<<>>), functors = <<>>, UNCHANGED <<pc, functors>>,
         pc # "stopped"
  PROVE  [Exec!Next]_(Exec!vars)
<1> USE DEF Exec!vars
<1>1. functors \o pending = pending /\ functors' \o pending' = pending'
      /\ ran \o <<>> = ran
  <2>1. pending \in Seq(Functors) /\ pending' \in Seq(Functors)
    <3>1. <<>> \in Seq(Functors)
      OBVIOUS
    <3> QED
      BY <3>1, CallbackTypes DEF LoopInv, TypeOK
  <2> QED
    BY <2>1 DEF LoopInv, TypeOK
<1>2. ASSUME NEW g \in Fresh, QueueInLoop(g, <<>>) PROVE Exec!Submit(g)
  BY <1>1, <1>2, SameFresh DEF QueueInLoop, Exec!Submit, LoopInv
<1>3. ASSUME NEW g \in Fresh, RunInLoop(g, <<>>) PROVE Exec!RunNow(g)
  BY <1>1, <1>3, SameFresh DEF RunInLoop, Exec!RunNow, LoopInv
<1>4. ASSUME NEW g \in Fresh PROVE g \in Functors
  BY DEF Fresh
<1>5. CASE ran' = ran \o <<>> /\ UNCHANGED <<pending, evt, quit>>
  BY <1>1, <1>5
<1>6. CASE QuitInLoop(<<>>)
  BY <1>1, <1>6 DEF QuitInLoop
<1> QED
  BY <1>2, <1>3, <1>4, <1>5, <1>6 DEF CallbackBody, Exec!Next

\* Running the next functor of the batch is the executor's Execute.
LEMMA RunStep ==
  ASSUME LoopInv, RunFunctor
  PROVE  Exec!Execute
<1> DEFINE h == Head(functors)
           q == functors \o pending
<1>1. /\ functors \in Seq(Functors) /\ functors # <<>> /\ pending \in Seq(Functors)
      /\ functors' = Tail(functors) /\ functors' \in Seq(Functors)
      /\ h \in Functors /\ ran \in Seq(Functors) /\ pc = "run" /\ pc' = "run"
  BY DEF RunFunctor, LoopInv, TypeOK
<1>2. q # <<>> /\ Head(q) = h /\ Tail(q) = Tail(functors) \o pending
  BY <1>1
<1>3. CallbackBody(<<h>>)
  BY DEF RunFunctor
<1>4. ran \o <<h>> = Append(ran, h)
  BY <1>1
<1>5. CASE (ran' = ran \o <<h>> /\ UNCHANGED <<pending, evt, quit>>) \/ QuitInLoop(<<h>>)
  <2>1. functors' \o pending' = Tail(q) /\ ran' = Append(ran, h)
    BY <1>1, <1>2, <1>4, <1>5 DEF QuitInLoop
  <2> QED
    BY <1>1, <1>2, <2>1 DEF Exec!Execute
<1>6. ASSUME NEW g \in Fresh, QueueInLoop(g, <<h>>) PROVE Exec!Execute
  <2>1. g \in Functors /\ g \in Exec!Fresh
    BY SameFresh DEF Fresh, LoopInv
  <2>2. pending' = Append(pending, g) /\ ran' = Append(ran, h)
    BY <1>4, <1>6 DEF QueueInLoop
  <2>3. functors' \o pending' = Append(Tail(functors) \o pending, g)
    BY <1>1, <2>1, <2>2
  <2> QED
    BY <1>1, <1>2, <2>1, <2>2, <2>3 DEF Exec!Execute
<1>7. ASSUME NEW g \in Fresh, RunInLoop(g, <<h>>) PROVE Exec!Execute
  <2>1. g \in Functors /\ g \in Exec!Fresh
    BY SameFresh DEF Fresh, LoopInv
  <2>2. (ran \o <<h>>) \o <<g>> = ran \o <<h, g>>
    BY <1>1, <2>1
  <2>3. functors' \o pending' = Tail(q) /\ ran' = ran \o <<h, g>>
    BY <1>1, <1>2, <1>7, <2>2 DEF RunInLoop
  <2> QED
    BY <1>1, <1>2, <2>1, <2>3 DEF Exec!Execute
<1> QED
  BY <1>3, <1>5, <1>6, <1>7 DEF CallbackBody

\* Every step of the loop is a step of the executor or changes nothing it has.
LEMMA StepExecutor ==
  ASSUME LoopInv, [Next]_vars
  PROVE  [Exec!Next]_(Exec!vars)
<1> USE DEF Exec!vars
<1>1. CASE StartLoop \/ PollReady \/ PollTimeout \/ HandleRead \/ EndFunctors
  BY <1>1 DEF StartLoop, PollReady, PollTimeout, HandleRead, EndFunctors
<1>2. CASE CheckQuit
  <2>1. CASE quit
    BY <1>2, <2>1 DEF CheckQuit, Exec!Next, Exec!Close
  <2>2. CASE ~quit
    BY <1>2, <2>2 DEF CheckQuit
  <2> QED
    BY <2>1, <2>2
<1>3. CASE HandleIO
  BY <1>3, HandlerStep DEF HandleIO, LoopInv
<1>4. CASE StartFunctors
  <2>1. functors \o pending = pending /\ functors' \o pending' = pending
    BY <1>4 DEF StartFunctors, SwapPending, LoopInv, TypeOK
  <2> QED
    BY <1>4, <2>1 DEF StartFunctors
<1>5. CASE RunFunctor
  BY <1>5, RunStep DEF Exec!Next
<1>7. ASSUME NEW t \in Threads, NEW f \in Functors, QueueFromOther(t, f)
      PROVE  Exec!Submit(f)
  <2>1. functors' \o pending' = Append(functors \o pending, f)
    BY <1>7 DEF QueueFromOther, LoopInv, TypeOK
  <2> QED
    BY <1>7, <2>1, SameFresh DEF QueueFromOther, Exec!Submit, LoopInv
<1>8. ASSUME NEW t \in Threads, QuitFromOther(t) \/ Wakeup(t)
      PROVE  UNCHANGED Exec!vars
  BY <1>8 DEF QuitFromOther, Wakeup
<1>9. CASE UNCHANGED vars
  BY <1>9 DEF vars
<1>10. CASE QueueEarly
  <2>1. CallbackBody(<<>>) /\ pc = "constructed" /\ UNCHANGED <<pc, functors>>
    BY <1>10 DEF QueueEarly, CallbackBody
  <2> QED
    BY <2>1, HandlerStep DEF LoopInv
<1> QED
  BY <1>1, <1>2, <1>3, <1>4, <1>5, <1>7, <1>8, <1>9, <1>10 DEF Next, LoopStep, Exec!Next

\* The loop implements the executor's safety part: functors run exactly once,
\* in the order they were queued, and none runs after the loop stopped.
THEOREM LoopIsExecutor == Spec => ExecutorSafety
<1>1. Init => Exec!Init
  BY DEF Init, Exec!Init
<1> QED
  BY <1>1, LoopInvariance, StepExecutor, PTL DEF Spec, ExecutorSafety

-----------------------------------------------------------------------------
(* The loop in its EventLoopThread.  The owner's quit() is the one step    *)
(* that module EventLoop does not have: it sets a flag that may be set.    *)

LEMMA ThreadStep ==
  ASSUME [ThreadNext]_allVars
  PROVE  [Next]_vars \/ DtorQuit
<1>1. CASE RunThread
  BY <1>1 DEF RunThread, Construct, InitCallback, Publish, ClearPointer, DestroyLoop, Next
<1>2. CASE RunOwner
  BY <1>2, OwnerAssumption
     DEF RunOwner, StartThread, WaitForLoop, Use, FinishUse, DtorCheck, DtorWakeup, DtorJoin, Next
<1>3. CASE \E t \in Threads \ {owner} : UseFromOther(t) \/ FinishFromOther(t)
  BY <1>3 DEF UseFromOther, FinishFromOther, Next
<1>4. CASE UNCHANGED allVars
  BY <1>4 DEF allVars
<1> QED
  BY <1>1, <1>2, <1>3, <1>4 DEF ThreadNext

LEMMA DtorQuitLoopInv ==
  ASSUME LoopInv, DtorQuit
  PROVE  LoopInv' /\ tpc'[owner] = "wakeup"
BY OwnerAssumption DEF LoopInv, TypeOK, DtorQuit

LEMMA ThreadLoopInv ==
  ASSUME LoopInv, [ThreadNext]_allVars
  PROVE  LoopInv'
BY ThreadStep, NextLoopInv, DtorQuitLoopInv

LEMMA ThreadWakeupInv ==
  ASSUME WakeupInv, [ThreadNext]_allVars
  PROVE  WakeupInv'
<1>1. CASE [Next]_vars
  BY <1>1, NextWakeupInv
<1>2. CASE DtorQuit
  <2>1. LoopInv' /\ tpc'[owner] = "wakeup"
    BY <1>2, DtorQuitLoopInv DEF WakeupInv
  <2>2. WakeupDue'
    BY <2>1, OwnerAssumption DEF WakeupDue
  <2> QED
    BY <2>1, <2>2 DEF WakeupInv
<1> QED
  BY <1>1, <1>2, ThreadStep

\* With threads coming and going around it, the loop still does not sleep on
\* work: the owner's quit() in ~EventLoopThread wakes it too.
THEOREM ThreadNeverSleepsOnWork == ThreadSpec => []NoLostWakeup
<1>1. ThreadInit => WakeupInv
  BY InitLoopInv DEF ThreadInit, WakeupInv, Init
<1>2. WakeupInv => NoLostWakeup
  BY DEF WakeupInv, NoLostWakeup
<1> QED
  BY <1>1, <1>2, ThreadWakeupInv, PTL DEF ThreadSpec

\* A loop that runs in an EventLoopThread is an ordered executor for the
\* owner and for whoever learnt of it from the owner.
THEOREM ThreadIsExecutor == ThreadSpec => ExecutorSafety
<1>1. ThreadInit => LoopInv /\ Exec!Init
  BY InitLoopInv DEF ThreadInit, Init, Exec!Init
<1>2. ASSUME LoopInv, [ThreadNext]_allVars PROVE [Exec!Next]_(Exec!vars)
  <2>1. CASE [Next]_vars
    BY <1>2, <2>1, StepExecutor
  <2>2. CASE DtorQuit
    BY <2>2 DEF DtorQuit, Exec!vars
  <2> QED
    BY <1>2, <2>1, <2>2, ThreadStep
<1> QED
  BY <1>1, <1>2, ThreadLoopInv, PTL DEF ThreadSpec, ExecutorSafety

-----------------------------------------------------------------------------
(* The pointer loop_.                                                      *)

\* loop_ is set exactly while threadFunc is in loop(), which it leaves only
\* after a quit(); and nobody enters loop() again.
LoopPtrInv ==
  /\ ThreadTypeOK
  /\ loopPtr <=> thread = "looping"
  /\ pc = "stopped" => quit
  /\ opc = "holding" /\ ~loopPtr => quit

\* What a step of the loop does to quit_.
LEMMA QuitStays ==
  ASSUME [Next]_vars
  PROVE  /\ quit => quit' \/ pc' # pc
         /\ pc' = "stopped" => quit' \/ (pc = "stopped" /\ ~quit)
<1>1. CASE StartLoop
  BY <1>1 DEF StartLoop
<1>2. CASE CheckQuit
  BY <1>2 DEF CheckQuit
<1>3. CASE PollReady \/ PollTimeout \/ HandleRead \/ StartFunctors \/ EndFunctors
  BY <1>3 DEF PollReady, PollTimeout, HandleRead, StartFunctors, EndFunctors
<1>4. CASE HandleIO \/ RunFunctor
  <2>1. quit' = quit \/ quit' = TRUE
    BY <1>4 DEF HandleIO, RunFunctor, CallbackBody, QueueInLoop, RunInLoop, QuitInLoop
  <2>2. pc' = pc /\ pc # "stopped"
    BY <1>4 DEF HandleIO, RunFunctor
  <2> QED
    BY <2>1, <2>2
<1>5. CASE QueueEarly
  BY <1>5 DEF QueueEarly, QueueInLoop
<1>6. CASE \E t \in Threads : \/ \E f \in Functors : QueueFromOther(t, f)
                              \/ QuitFromOther(t) \/ Wakeup(t)
  BY <1>6 DEF QueueFromOther, QuitFromOther, Wakeup
<1>7. CASE UNCHANGED vars
  BY <1>7 DEF vars
<1> QED
  BY <1>1, <1>2, <1>3, <1>4, <1>5, <1>6, <1>7 DEF Next, LoopStep

LEMMA NextLoopPtrInv ==
  ASSUME LoopPtrInv, [ThreadNext]_allVars
  PROVE  LoopPtrInv'
<1> USE DEF LoopPtrInv, ThreadTypeOK
<1>1. CASE Construct \/ Publish \/ ClearPointer \/ DestroyLoop
  <2>1. UNCHANGED <<pc, quit>>
    BY <1>1 DEF Construct, Publish, ClearPointer, DestroyLoop, vars
  <2>2. CASE Construct
    BY <2>1, <2>2 DEF Construct
  <2>3. CASE Publish
    <3>1. opc' \in {"new", "waiting", "blocked", "holding", "quit", "wakeup", "join", "done"}
      BY <2>3 DEF Publish
    <3>2. thread' = "looping" /\ loopPtr' = TRUE
      BY <2>3 DEF Publish
    <3> QED
      BY <2>1, <3>1, <3>2
  <2>4. CASE ClearPointer
    BY <2>1, <2>4 DEF ClearPointer
  <2>5. CASE DestroyLoop
    BY <2>1, <2>5 DEF DestroyLoop
  <2> QED
    BY <1>1, <2>2, <2>3, <2>4, <2>5
<1>2. CASE thread = "looping" /\ (LoopStep \/ PollTimeout) /\ UNCHANGED ownVars
  <2>1. loopPtr /\ UNCHANGED <<thread, loopPtr, opc>>
    BY <1>2 DEF ownVars
  <2>2. pc' = "stopped" => quit'
    BY <1>2, QuitStays DEF Next
  <2> QED
    BY <2>1, <2>2
<1>3. ASSUME UNCHANGED ownVars, UNCHANGED pc, quit => quit'
      PROVE  LoopPtrInv'
  BY <1>3 DEF ownVars
<1>4. CASE InitCallback
  BY <1>3, <1>4 DEF InitCallback, QueueEarly, QueueInLoop
<1>5. CASE StartThread \/ WaitForLoop \/ DtorCheck \/ DtorJoin
  BY <1>5 DEF StartThread, WaitForLoop, DtorCheck, DtorJoin, vars
<1>6. CASE Use \/ FinishUse
  BY <1>3, <1>6 DEF Use, FinishUse, QueueFromOther, Wakeup
<1>7. CASE DtorQuit
  BY <1>7 DEF DtorQuit
<1>8. CASE DtorWakeup
  BY <1>8 DEF DtorWakeup, Wakeup
<1>9. CASE \E t \in Threads \ {owner} : UseFromOther(t) \/ FinishFromOther(t)
  BY <1>3, <1>9 DEF UseFromOther, FinishFromOther, QuitFromOther, QueueFromOther, Wakeup
<1>10. CASE UNCHANGED allVars
  BY <1>3, <1>10 DEF allVars, vars
<1> QED
  BY <1>1, <1>2, <1>4, <1>5, <1>6, <1>7, <1>8, <1>9, <1>10 DEF ThreadNext, RunThread, RunOwner

\* EventLoopThread's loop_: while it is not null the EventLoop on the thread's
\* stack is alive, and what startLoop handed out is good until a quit().
THEOREM LoopPtrStaysValid == ThreadSpec => []LoopPtrValid
<1>1. ThreadInit => LoopPtrInv
  BY DEF ThreadInit, Init, LoopPtrInv, ThreadTypeOK
<1>2. LoopPtrInv => LoopPtrValid
  BY DEF LoopPtrInv, LoopPtrValid
<1> QED
  BY <1>1, <1>2, NextLoopPtrInv, PTL DEF ThreadSpec

-----------------------------------------------------------------------------
(* What startLoop waits for.                                               *)

\* Nobody sleeps on cond_ while the loop runs, and a thread that is past its
\* loop has left it for good.
WaitInv ==
  /\ LoopPtrInv
  /\ opc = "blocked" => thread # "looping"
  /\ thread \in {"cleared", "destroyed"} => pc = "stopped"

\* The steps of the new thread outside its loop.
LEMMA ThreadWait ==
  ASSUME WaitInv, Construct \/ InitCallback \/ Publish \/ ClearPointer \/ DestroyLoop
  PROVE  (opc = "blocked" => thread # "looping")' /\ (thread \in {"cleared", "destroyed"} => pc = "stopped")'
<1>1. CASE Construct
  BY <1>1 DEF Construct
<1>2. CASE InitCallback
  BY <1>2 DEF InitCallback, QueueEarly, ownVars, WaitInv
<1>3. CASE Publish
  BY <1>3 DEF Publish
<1>4. CASE ClearPointer
  BY <1>4 DEF ClearPointer, WaitInv, vars
<1>5. CASE DestroyLoop
  BY <1>5 DEF DestroyLoop, WaitInv, vars
<1> QED
  BY <1>1, <1>2, <1>3, <1>4, <1>5

LEMMA NextWaitInv ==
  ASSUME WaitInv, [ThreadNext]_allVars
  PROVE  WaitInv'
<1>1. LoopPtrInv'
  BY NextLoopPtrInv DEF WaitInv
<1>2. CASE Construct \/ InitCallback \/ Publish \/ ClearPointer \/ DestroyLoop
  BY <1>1, <1>2, ThreadWait DEF WaitInv
<1>3. CASE thread = "looping" /\ UNCHANGED ownVars
  BY <1>1, <1>3 DEF WaitInv, ownVars
<1>4. ASSUME UNCHANGED <<thread, pc>>, opc' = "blocked" => opc = "blocked" \/ thread # "looping"
      PROVE  WaitInv'
  BY <1>1, <1>4 DEF WaitInv
<1>5. CASE WaitForLoop
  BY <1>4, <1>5 DEF WaitForLoop, WaitInv, LoopPtrInv, vars
<1>6. CASE StartThread \/ DtorCheck \/ DtorQuit \/ DtorWakeup \/ DtorJoin
  BY <1>4, <1>6 DEF StartThread, DtorCheck, DtorQuit, DtorWakeup, DtorJoin, Wakeup, vars
<1>7. CASE Use \/ FinishUse
  BY <1>4, <1>7 DEF Use, FinishUse, QueueFromOther, Wakeup, ownVars
<1>8. CASE \E t \in Threads \ {owner} : UseFromOther(t) \/ FinishFromOther(t)
  BY <1>4, <1>8 DEF UseFromOther, FinishFromOther, QuitFromOther, QueueFromOther, Wakeup, ownVars
<1>9. CASE UNCHANGED allVars
  BY <1>4, <1>9 DEF allVars, vars, ownVars
<1> QED
  BY <1>2, <1>3, <1>5, <1>6, <1>7, <1>8, <1>9 DEF ThreadNext, RunThread, RunOwner

\* startLoop and threadFunc: while the owner sleeps on cond_ the thread has
\* still to publish loop_ and to notify, or the loop was quit before the owner
\* looked.  The notification is not lost, whoever takes the lock first; with
\* fairness this is what makes StartLoopReturns true.
PublishIsPending == opc = "blocked" => thread \in {"unstarted", "constructed"} \/ quit

THEOREM NotifyIsNotLost == ThreadSpec => []PublishIsPending
<1>1. ThreadInit => WaitInv
  BY DEF ThreadInit, Init, WaitInv, LoopPtrInv, ThreadTypeOK
<1>2. WaitInv => PublishIsPending
  BY DEF WaitInv, LoopPtrInv, ThreadTypeOK, PublishIsPending
<1> QED
  BY <1>1, <1>2, NextWaitInv, PTL DEF ThreadSpec
=============================================================================
