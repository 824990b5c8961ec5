-------------------------- MODULE EventLoopThread --------------------------
(***************************************************************************)
(* EventLoopThread: an owner (the base loop's thread, which also hands     *)
(* connections to the loop) starts a thread, waits for the EventLoop on    *)
(* that thread's stack to be published in loop_, uses it, and destroys the *)
(* EventLoopThread: quit() on the loop and a join.  The loop itself is     *)
(* module EventLoop, whose actions run here while the thread is looping;   *)
(* other threads learn of it from the owner and hand it functors too.      *)
(***************************************************************************)
EXTENDS EventLoop

CONSTANT owner       \* the thread that owns the EventLoopThread

ASSUME OwnerAssumption == owner \in Threads

VARIABLES thread,    \* the thread running threadFunc
          loopPtr,   \* loop_ # nullptr
          opc        \* where the owner is

ownVars == <<thread, loopPtr, opc>>
allVars == <<vars, ownVars>>

ThreadTypeOK ==
  /\ thread \in {"unstarted", "constructed", "looping", "cleared", "destroyed"}
  /\ loopPtr \in BOOLEAN
  /\ opc \in {"new", "waiting", "blocked", "holding", "quit", "wakeup", "join", "done"}

ThreadInit ==
  /\ Init
  /\ thread = "unstarted"
  /\ loopPtr = FALSE
  /\ opc = "new"

-----------------------------------------------------------------------------
(* threadFunc, on the new thread.                                          *)

\* The EventLoop's constructor, then the thread-init callback.
Construct ==
  /\ thread = "unstarted"
  /\ opc # "new"
  /\ thread' = "constructed"
  /\ UNCHANGED <<vars, loopPtr, opc>>

\* The thread-init callback, before loop_ is published: it may queue functors,
\* and no wakeup is written for them.
InitCallback ==
  /\ thread = "constructed"
  /\ QueueEarly
  /\ UNCHANGED ownVars

\* Mutant of Publish: no notify_one.
PublishSilently ==
  /\ thread = "constructed"
  /\ thread' = "looping"
  /\ loopPtr' = TRUE
  /\ UNCHANGED <<vars, opc>>

\* loop_ is set and the owner is notified, under the lock.
Publish ==
  /\ thread = "constructed"
  /\ thread' = "looping"
  /\ loopPtr' = TRUE
  /\ opc' = IF opc = "blocked" THEN "waiting" ELSE opc
  /\ UNCHANGED vars

\* Mutant of ClearPointer: loop_ keeps the address of the dead EventLoop.
ForgetToClear ==
  /\ thread = "looping"
  /\ pc = "stopped"
  /\ thread' = "cleared"
  /\ UNCHANGED <<vars, loopPtr, opc>>

\* loop() has returned; loop_ is reset under the lock.
ClearPointer ==
  /\ thread = "looping"
  /\ pc = "stopped"
  /\ thread' = "cleared"
  /\ loopPtr' = FALSE
  /\ UNCHANGED <<vars, opc>>

\* threadFunc returns: the EventLoop on its stack is destroyed, wakeupFd_ closed.
DestroyLoop ==
  /\ thread = "cleared"
  /\ thread' = "destroyed"
  /\ UNCHANGED <<vars, loopPtr, opc>>

RunThread ==
  \/ Construct \/ InitCallback \/ Publish \/ ClearPointer \/ DestroyLoop
  \/ thread = "looping" /\ (LoopStep \/ PollTimeout) /\ UNCHANGED ownVars

-----------------------------------------------------------------------------
(* The owner.                                                              *)

\* startLoop: the thread is started, and the lock taken.
StartThread ==
  /\ opc = "new"
  /\ opc' = "waiting"
  /\ UNCHANGED <<vars, thread, loopPtr>>

\* while (loop_ == nullptr) cond_.wait(lock)
WaitForLoop ==
  /\ opc = "waiting"
  /\ opc' = IF loopPtr THEN "holding" ELSE "blocked"
  /\ UNCHANGED <<vars, thread, loopPtr>>

\* The owner hands the loop a functor.
Use ==
  /\ opc = "holding"
  /\ \E f \in Functors : QueueFromOther(owner, f)
  /\ UNCHANGED ownVars

FinishUse ==
  /\ opc = "holding"
  /\ Wakeup(owner)
  /\ UNCHANGED ownVars

\* The destructor reads loop_, without the lock.
DtorCheck ==
  /\ opc \in {"new", "holding"}
  /\ tpc[owner] = "idle"
  /\ opc' = IF loopPtr THEN "quit" ELSE "done"
  /\ UNCHANGED <<vars, thread, loopPtr>>

\* loop_->quit(): the flag.
DtorQuit ==
  /\ opc = "quit"
  /\ opc' = "wakeup"
  /\ quit' = TRUE
  /\ tpc' = [tpc EXCEPT ![owner] = "wakeup"]
  /\ UNCHANGED <<pc, calling, pending, functors, evt, active, ran, thread, loopPtr>>

\* loop_->quit(): the eventfd.
DtorWakeup ==
  /\ opc = "wakeup"
  /\ opc' = "join"
  /\ Wakeup(owner)
  /\ UNCHANGED <<thread, loopPtr>>

\* thread_.join() returns.
DtorJoin ==
  /\ opc = "join"
  /\ thread = "destroyed"
  /\ opc' = "done"
  /\ UNCHANGED <<vars, thread, loopPtr>>

RunOwner ==
  \/ StartThread \/ WaitForLoop \/ Use \/ FinishUse
  \/ DtorCheck \/ DtorQuit \/ DtorWakeup \/ DtorJoin

\* Another thread uses the loop while the owner has not given it up.
UseFromOther(t) ==
  /\ opc = "holding"
  /\ QuitFromOther(t) \/ \E f \in Functors : QueueFromOther(t, f)
  /\ UNCHANGED ownVars

FinishFromOther(t) == Wakeup(t) /\ UNCHANGED ownVars

ThreadNext ==
  \/ RunThread
  \/ RunOwner
  \/ \E t \in Threads \ {owner} : UseFromOther(t) \/ FinishFromOther(t)

\* Looping(A): a step A of the loop, inside threadFunc.
Looping(A) == thread = "looping" /\ A /\ UNCHANGED ownVars

\* All threads keep running (see Fairness in EventLoop); the owner need not
\* ever destroy the object.
ThreadSpec ==
  /\ ThreadInit
  /\ [][ThreadNext]_allVars
  /\ WF_allVars(Construct \/ Publish \/ ClearPointer \/ DestroyLoop)
  /\ WF_allVars(Looping(StartLoop \/ OwnStep))
  /\ WF_allVars(Looping(PollTimeout /\ EarlyWaits))
  /\ WF_allVars(WaitForLoop \/ FinishUse \/ DtorQuit \/ DtorWakeup \/ DtorJoin)
  /\ \A t \in Threads \ {owner} : WF_allVars(FinishFromOther(t))

-----------------------------------------------------------------------------
(* Properties.                                                             *)

\* loop_ is null or names an EventLoop that exists and is not past its last
\* iteration's clean-up; and what startLoop has handed out stays good until
\* somebody quits the loop.
LoopPtrValid ==
  /\ ThreadTypeOK
  /\ loopPtr => thread = "looping"
  /\ opc = "holding" /\ ~loopPtr => quit

\* startLoop returns: the notification of Publish is not lost, whichever of
\* the two threads takes the lock first.  (If a callback quits the loop before
\* the owner has looked, loop_ is null again and startLoop waits for ever.)
StartLoopReturns == opc = "waiting" ~> (opc = "holding" \/ quit)

\* The destructor of an EventLoopThread whose loop has been entered returns.
DestructorReturns == (opc = "quit" /\ pc # "constructed") ~> opc = "done"

\* quit() takes effect, whoever calls it, once the loop has been entered.
QuitTakesEffect == QuitStopsLoop /\ DestructorReturns

\* The destructor returns, whenever it is called: quit() ends the loop.
QuitEndsLoop == opc = "quit" ~> opc = "done"
=============================================================================
