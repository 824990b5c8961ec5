------------------------------ MODULE EventLoop ------------------------------
(***************************************************************************)
(* ql_muduo's EventLoop: one thread runs loop(), blocking in epoll_wait;   *)
(* other threads hand it functors through runInLoop/queueInLoop and wake   *)
(* it by writing to its eventfd.  The loop's thread is also the one that   *)
(* runs the I/O callbacks and the functors, and these call back into the   *)
(* loop (queueInLoop, runInLoop, quit).                                    *)
(*                                                                         *)
(* A lock-protected section, a read or a write of an atomic and a system   *)
(* call is one step; a queueInLoop made by another thread is therefore two *)
(* steps (the push, then the eventfd write) and so is its quit().          *)
(***************************************************************************)
EXTENDS Naturals, Sequences

CONSTANTS Threads,   \* the threads other than the loop's own
          Functors,  \* the callbacks, each handed over at most once
          Early,     \* those its own thread may queue before loop()
          SelfQuit   \* whether a callback may call quit() on its own loop

ASSUME EarlyAssumption == Early \subseteq Functors
ASSUME SelfQuitAssumption == SelfQuit \in BOOLEAN

VARIABLES pc,        \* where the loop's thread is (see TypeOK)
          quit,      \* quit_
          calling,   \* callingPendingFunctors_
          pending,   \* pendingFunctors_
          functors,  \* the vector doPendingFunctors swapped out, not yet run
          evt,       \* the counter of wakeupFd_
          active,    \* activeChannels_: the eventfd's channel, some I/O channel
          tpc,       \* what each other thread has to do next
          ran        \* history: the functors in the order they ran

vars == <<pc, quit, calling, pending, functors, evt, active, tpc, ran>>

Elements(s) == {s[i] : i \in DOMAIN s}

\* The functors no thread has handed over yet.
Fresh == Functors \ (Elements(ran) \cup Elements(functors) \cup Elements(pending))

TypeOK ==
  /\ pc \in {"constructed", "check", "poll", "handle", "run", "stopped"}
  /\ quit \in BOOLEAN
  /\ calling \in BOOLEAN
  /\ pending \in Seq(Functors)
  /\ functors \in Seq(Functors)
  /\ evt \in Nat
  /\ active \in SUBSET {"wakeup", "io"}
  /\ tpc \in [Threads -> {"idle", "wakeup"}]
  /\ ran \in Seq(Functors)

Init ==
  /\ pc = "constructed"
  /\ quit = FALSE
  /\ calling = FALSE
  /\ pending = <<>>
  /\ functors = <<>>
  /\ evt = 0
  /\ active = {}
  /\ tpc = [t \in Threads |-> "idle"]
  /\ ran = <<>>

-----------------------------------------------------------------------------
(* Calls into the loop made by its own thread.                             *)

\* Mutant of InLoopWakeup: the callingPendingFunctors_ test is dropped.
NeverInLoopWakeup == FALSE

\* queueInLoop's test for a call from the loop's own thread: isInLoopThread()
\* holds, so only callingPendingFunctors_ asks for a wakeup.
InLoopWakeup == calling

\* queueInLoop(g) from the loop's thread, with functor sequence done just run.
QueueInLoop(g, done) ==
  /\ pending' = Append(pending, g)
  /\ evt' = IF InLoopWakeup THEN evt + 1 ELSE evt
  /\ ran' = ran \o done
  /\ UNCHANGED quit

\* runInLoop(g) from the loop's thread: g runs inside the call.
RunInLoop(g, done) ==
  /\ ran' = ran \o done \o <<g>>
  /\ UNCHANGED <<pending, evt, quit>>

\* quit() from the loop's thread: no wakeup is needed.
QuitInLoop(done) ==
  /\ SelfQuit
  /\ quit' = TRUE
  /\ ran' = ran \o done
  /\ UNCHANGED <<pending, evt>>

\* What a callback run by the loop's thread may do: nothing, or one call.
CallbackBody(done) ==
  \/ ran' = ran \o done /\ UNCHANGED <<pending, evt, quit>>
  \/ \E g \in Fresh : QueueInLoop(g, done) \/ RunInLoop(g, done)
  \/ QuitInLoop(done)

-----------------------------------------------------------------------------
(* The loop's thread.                                                      *)

\* The loop's thread queues a functor before it calls loop(), as a thread-init
\* callback may: no wakeup is written for it.
QueueEarly ==
  /\ pc = "constructed"
  /\ \E g \in Early \cap Fresh : QueueInLoop(g, <<>>)
  /\ UNCHANGED <<pc, calling, functors, active, tpc>>

\* loop() is entered: quit_ is reset.
StartLoop ==
  /\ pc = "constructed"
  /\ pc' = "check"
  /\ quit' = FALSE
  /\ UNCHANGED <<calling, pending, functors, evt, active, tpc, ran>>

\* while (!quit_)
CheckQuit ==
  /\ pc = "check"
  /\ pc' = IF quit THEN "stopped" ELSE "poll"
  /\ UNCHANGED <<quit, calling, pending, functors, evt, active, tpc, ran>>

\* epoll_wait returns the ready channels: the eventfd's when its counter is
\* not zero, and possibly others.
PollReady ==
  /\ pc = "poll"
  /\ \E io \in SUBSET {"io"} :
       active' = io \cup (IF evt > 0 THEN {"wakeup"} ELSE {})
  /\ active' # {}
  /\ pc' = "handle"
  /\ UNCHANGED <<quit, calling, pending, functors, evt, tpc, ran>>

\* epoll_wait times out after kPollTimeMs, or a signal interrupts it.
PollTimeout ==
  /\ pc = "poll"
  /\ evt = 0
  /\ active' = {}
  /\ pc' = "handle"
  /\ UNCHANGED <<quit, calling, pending, functors, evt, tpc, ran>>

\* The eventfd's channel: handleRead reads, and so resets, the counter.
HandleRead ==
  /\ pc = "handle"
  /\ "wakeup" \in active
  /\ active' = active \ {"wakeup"}
  /\ evt' = 0
  /\ UNCHANGED <<pc, quit, calling, pending, functors, tpc, ran>>

\* Another channel's callback.
HandleIO ==
  /\ pc = "handle"
  /\ "io" \in active
  /\ active' = active \ {"io"}
  /\ CallbackBody(<<>>)
  /\ UNCHANGED <<pc, calling, functors, tpc>>

\* Mutant of SwapPending: the batch stays in pendingFunctors_ (copied, not
\* swapped), so every functor runs again in the next iteration.
CopyPending ==
  /\ functors' = pending
  /\ UNCHANGED pending

\* functors.swap(pendingFunctors_), under the lock.
SwapPending ==
  /\ functors' = pending
  /\ pending' = <<>>

\* doPendingFunctors starts.
StartFunctors ==
  /\ pc = "handle"
  /\ active = {}
  /\ pc' = "run"
  /\ calling' = TRUE
  /\ SwapPending
  /\ UNCHANGED <<quit, evt, active, tpc, ran>>

\* The next functor of the batch.
RunFunctor ==
  /\ pc = "run"
  /\ functors # <<>>
  /\ functors' = Tail(functors)
  /\ CallbackBody(<<Head(functors)>>)
  /\ UNCHANGED <<pc, calling, active, tpc>>

\* The batch is done.
EndFunctors ==
  /\ pc = "run"
  /\ functors = <<>>
  /\ pc' = "check"
  /\ calling' = FALSE
  /\ UNCHANGED <<quit, pending, functors, evt, active, tpc, ran>>

-----------------------------------------------------------------------------
(* The other threads.                                                      *)

\* queueInLoop(f), or runInLoop(f), from thread t: the push under the lock.
QueueFromOther(t, f) ==
  /\ tpc[t] = "idle"
  /\ f \in Fresh
  /\ pending' = Append(pending, f)
  /\ tpc' = [tpc EXCEPT ![t] = "wakeup"]
  /\ UNCHANGED <<pc, quit, calling, functors, evt, active, ran>>

\* Mutant of QuitFromOther: quit_ is set, and nobody wakes the loop.
QuitWithoutWakeup(t) ==
  /\ tpc[t] = "idle"
  /\ ~quit
  /\ quit' = TRUE
  /\ UNCHANGED <<pc, calling, pending, functors, evt, active, tpc, ran>>

\* quit() from thread t: the flag first.  A second quit() while the flag is
\* set would only add a wakeup, so it is left out to bound evt.
QuitFromOther(t) ==
  /\ tpc[t] = "idle"
  /\ ~quit
  /\ quit' = TRUE
  /\ tpc' = [tpc EXCEPT ![t] = "wakeup"]
  /\ UNCHANGED <<pc, calling, pending, functors, evt, active, ran>>

\* wakeup(): 1 is added to the eventfd's counter.
Wakeup(t) ==
  /\ tpc[t] = "wakeup"
  /\ tpc' = [tpc EXCEPT ![t] = "idle"]
  /\ evt' = evt + 1
  /\ UNCHANGED <<pc, quit, calling, pending, functors, active, ran>>

-----------------------------------------------------------------------------
LoopStep ==
  \/ StartLoop \/ CheckQuit \/ PollReady \/ HandleRead \/ HandleIO
  \/ StartFunctors \/ RunFunctor \/ EndFunctors

\* The steps of the loop's thread that need no outside event: everything but
\* entering loop(), an I/O event and the poll timeout.
OwnStep ==
  \/ CheckQuit \/ (evt > 0 /\ PollReady) \/ HandleRead \/ HandleIO
  \/ StartFunctors \/ RunFunctor \/ EndFunctors

Next ==
  \/ QueueEarly
  \/ LoopStep
  \/ PollTimeout
  \/ \E t \in Threads : \/ \E f \in Functors : QueueFromOther(t, f)
                        \/ QuitFromOther(t)
                        \/ Wakeup(t)

\* A functor queued before loop() waits in the first poll.
EarlyWaits == ran = <<>> /\ \E i \in DOMAIN pending : pending[i] \in Early

\* The loop's thread keeps running, and a thread that has pushed goes on to
\* write the eventfd.  Nothing obliges a socket to become ready or anyone to
\* call; and epoll_wait's timeout is relied on for an early functor only.
LoopFairness ==
  /\ WF_vars(StartLoop)
  /\ WF_vars(OwnStep)
  /\ WF_vars(PollTimeout /\ EarlyWaits)

Fairness == LoopFairness /\ \A t \in Threads : WF_vars(Wakeup(t))

Spec == Init /\ [][Next]_vars /\ Fairness

-----------------------------------------------------------------------------
(* Properties.                                                             *)

\* A write to the eventfd is pending or has been made.
WakeupDue == evt > 0 \/ \E t \in Threads : tpc[t] = "wakeup"

\* queueInLoop and quit wake the loop: it never goes to sleep in epoll_wait
\* with a functor queued or quit_ set unless the eventfd is, or is about to
\* be, readable.  (The read in handleRead, the swap in doPendingFunctors and
\* the test of callingPendingFunctors_ are what could lose the wakeup.)  Only
\* what its thread queued before loop() waits, in the first poll.
NoLostWakeup ==
  pc = "poll" => /\ quit => WakeupDue
                 /\ pending # <<>> => WakeupDue \/ EarlyWaits

\* The state of one iteration: doPendingFunctors is running exactly while
\* callingPendingFunctors_ is set, and outside it no swapped-out functor, and
\* outside the handling of events no active channel, is left over.
LoopInv ==
  /\ TypeOK
  /\ calling = (pc = "run")
  /\ pc # "handle" => active = {}
  /\ pc # "run" => functors = <<>>
  /\ pc = "constructed" => ran = <<>>

\* The inductive form of NoLostWakeup: it also covers the time before loop()
\* and the part of the iteration between the swap and the next poll, when only
\* a newly queued functor can be pending.
WakeupInv ==
  /\ LoopInv
  /\ pc = "run" /\ pending # <<>> => WakeupDue
  /\ pc \in {"constructed", "check", "poll"} /\ pending # <<>> => WakeupDue \/ EarlyWaits
  /\ pc = "poll" /\ quit => WakeupDue

\* quit() on a running loop, from any thread, ends loop() without waiting
\* for a timeout.
QuitStopsLoop == (quit /\ pc # "constructed") ~> (pc = "stopped")

\* The loop is an ordered executor (module Executor): functors run exactly
\* once and in the order they were queued, and all of them run unless the loop
\* stops, the early ones after a timeout and the others without one.
Exec == INSTANCE Executor WITH queue <- functors \o pending,
                               closed <- (pc = "stopped")

ImplementsExecutor == Exec!Spec

\* Its safety part: exactly once and in order.
ExecutorSafety == Exec!Init /\ [][Exec!Next]_(Exec!vars)
=============================================================================
